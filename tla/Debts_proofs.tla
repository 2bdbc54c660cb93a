----------------------------- MODULE Debts_proofs -----------------------------
(***************************************************************************)
(* Proofs about Debts and Reports, for every set of accounts, debts,       *)
(* payments and operations: types, the unity of payments, what a deletion  *)
(* leaves, what is owed on a loan and what the reports add up.             *)
(*                                                                         *)
(* The last two are sums over sets.  A section of its own proves about     *)
(* sums over finite sets what the others need: a sum is followed over a    *)
(* step by the terms the step changes.                                     *)
(***************************************************************************)
EXTENDS Reports, FiniteSetTheorems, WellFoundedInduction, TLAPS

\* Entries of a posting built from accounts and an amount.
LEMMA EntriesTyped ==
  ASSUME NEW from \in Account, NEW to \in Account, NEW amount \in Int,
         NEW type \in OperationType
  PROVE  /\ TransferEntries(from, to, amount) \in SUBSET MoneyEntry
         /\ IncomeExpenseEntries(type, from, amount) \in SUBSET MoneyEntry
         /\ \A e \in TransferEntries(from, to, amount) : e.account \in {from, to}
         /\ \A e \in IncomeExpenseEntries(type, from, amount) : e.account = from
<1>1. -amount \in Int
  OBVIOUS
<1>2. QED
  BY <1>1 DEF TransferEntries, IncomeExpenseEntries, Entry, MoneyEntry

\* The postings PostDebt is used with are well typed.
TypedPostings(postings) ==
  \A q \in postings : /\ q.op \in Operation
                      /\ q.type \in OperationType
                      /\ q.entries \in SUBSET MoneyEntry

\* A debt posting leaves the ledger typed, gives each new operation its own
\* entries and leaves the others alone.
LEMMA PostDebtFacts ==
  ASSUME LedgerTypeOK, NEW postings, TypedPostings(postings), PostDebt(postings)
  PROVE  /\ LedgerTypeOK'
         /\ \A o \in Operation :
              \/ /\ \E q \in postings : /\ q.op = o
                                      /\ opType'[o] = q.type /\ opEntries'[o] = q.entries
                 /\ opStatus[o] = "unused"
                 /\ opStatus'[o] = "confirmed" /\ opSource'[o] = "debt"
              \/ /\ \A q \in postings : q.op # o
                 /\ opStatus'[o] = opStatus[o] /\ opSource'[o] = opSource[o]
                 /\ opType'[o] = opType[o] /\ opEntries'[o] = opEntries[o]
<1> DEFINE new == {q.op : q \in postings}
           of(o) == CHOOSE q \in postings : q.op = o
<1>1. \A o \in new : of(o) \in postings /\ of(o).op = o
  OBVIOUS
<1>2. \A o \in new : /\ o \in Operation
                     /\ of(o).type \in OperationType
                     /\ of(o).entries \in SUBSET MoneyEntry
  BY <1>1 DEF TypedPostings
<1>3. /\ \A o \in new : opStatus[o] = "unused"
      /\ opStatus' = [o \in Operation |->
                        IF o \in new THEN "confirmed" ELSE opStatus[o]]
      /\ opSource' = [o \in Operation |-> IF o \in new THEN "debt" ELSE opSource[o]]
      /\ opType' = [o \in Operation |-> IF o \in new THEN of(o).type ELSE opType[o]]
      /\ opEntries' = [o \in Operation |->
                         IF o \in new THEN of(o).entries ELSE opEntries[o]]
      /\ opKey' = opKey
  BY DEF PostDebt
<1> HIDE DEF of
<1>4. LedgerTypeOK'
  BY <1>2, <1>3 DEF LedgerTypeOK, OperationStatus, OperationSource
<1>5. \A o \in Operation : o \in new <=> \E q \in postings : q.op = o
  OBVIOUS
<1> HIDE DEF new
<1>6. QED
  BY <1>1, <1>3, <1>4, <1>5

\* The posting that opens a loan.
LEMMA OpeningPosting ==
  ASSUME NEW d \in DebtAccount, NEW account \in Account, NEW amount \in ManualAmount,
         NEW o \in Operation, Settles(account, d)
  PROVE  LET postings == {Posting(o, "transfer", LendEntries(d, account, amount))}
         IN /\ TypedPostings(postings)
            /\ \A q \in postings : \A e \in q.entries :
                 e.account \in DebtAccount => e.account = d
<1>1. amount \in Int /\ d \in Account /\ "transfer" \in OperationType
  BY DebtAccountsAreAccounts, ManualAmountsPositive DEF OperationType
<1>2. /\ LendEntries(d, account, amount) \in SUBSET MoneyEntry
      /\ \A e \in LendEntries(d, account, amount) : e.account \in {d, account}
  BY <1>1, EntriesTyped DEF LendEntries
<1>3. QED
  BY <1>1, <1>2 DEF Posting, TypedPostings, Settles

\* The postings of a payment are its principal and its interest operation.
LEMMA PaymentPosting ==
  ASSUME NEW d \in DebtAccount, NEW account \in Account,
         NEW principal \in ManualAmount \cup {0}, NEW interest \in ManualAmount \cup {0},
         NEW o \in Operation, NEW i \in Operation, o # i, Settles(account, d)
  PROVE  LET postings == PaymentPostings(d, account, principal, interest, o, i)
         IN /\ TypedPostings(postings)
            /\ \A q \in postings : \A e \in q.entries :
                 e.account \in DebtAccount => e.account = d
            /\ \A x \in Operation : (\E q \in postings : q.op = x)
                      <=> (x = o /\ principal > 0) \/ (x = i /\ interest > 0)
<1>1. /\ principal \in Nat /\ interest \in Nat
      /\ d \in Account /\ "transfer" \in OperationType
      /\ InterestType(d) \in OperationType
  BY DebtAccountsAreAccounts, ManualAmountsPositive DEF OperationType, InterestType
<1> DEFINE moved == RepayEntries(d, account, principal)
           charged == IncomeExpenseEntries(InterestType(d), account, interest)
<1>2. /\ moved \in SUBSET MoneyEntry
      /\ \A e \in moved : e.account \in {d, account}
  BY <1>1, EntriesTyped DEF RepayEntries
<1>3. /\ charged \in SUBSET MoneyEntry
      /\ \A e \in charged : e.account = account
  BY <1>1, EntriesTyped
<1> HIDE DEF moved, charged
<1>4. \A q \in PaymentPostings(d, account, principal, interest, o, i) :
        \/ q = Posting(o, "transfer", moved) /\ principal > 0
        \/ q = Posting(i, InterestType(d), charged) /\ interest > 0
  BY DEF PaymentPostings, Posting, moved, charged
<1>5. /\ principal > 0 => Posting(o, "transfer", moved)
                            \in PaymentPostings(d, account, principal, interest, o, i)
      /\ interest > 0 => Posting(i, InterestType(d), charged)
                            \in PaymentPostings(d, account, principal, interest, o, i)
  BY DEF PaymentPostings, Posting, moved, charged
<1> DEFINE postings == PaymentPostings(d, account, principal, interest, o, i)
<1> HIDE DEF postings
<1>6. TypedPostings(postings)
  BY <1>1, <1>2, <1>3, <1>4 DEF TypedPostings, Posting, postings
<1>7. \A q \in postings : \A e \in q.entries : e.account \in DebtAccount => e.account = d
  BY <1>2, <1>3, <1>4 DEF Posting, Settles, postings
<1>8. ASSUME NEW x \in Operation
      PROVE  (\E q \in postings : q.op = x)
               <=> (x = o /\ principal > 0) \/ (x = i /\ interest > 0)
  <2>1. ASSUME NEW q \in postings, q.op = x
        PROVE  (x = o /\ principal > 0) \/ (x = i /\ interest > 0)
    BY <1>4, <2>1 DEF Posting, postings
  <2>2. ASSUME (x = o /\ principal > 0) \/ (x = i /\ interest > 0)
        PROVE  \E q \in postings : q.op = x
    BY <1>5, <2>2 DEF Posting, postings
  <2>3. QED
    BY <2>1, <2>2
<1>9. QED
  BY <1>6, <1>7, <1>8 DEF postings

\* What a manual command may do to an operation: leave it, or, when it is none
\* of a debt's, give it entries on ordinary accounts and active cards.
LEMMA ManualStepFacts ==
  ASSUME TypeOK, ManualStep
  PROVE  /\ LedgerTypeOK'
         /\ \A x \in Operation :
              /\ opSource[x] = "debt" /\ Recorded(x) =>
                   /\ opStatus'[x] = opStatus[x] /\ opSource'[x] = "debt"
                   /\ opEntries'[x] = opEntries[x]
              /\ \/ opEntries'[x] \subseteq opEntries[x] /\ (Recorded(x)' => Recorded(x))
                 \/ \A e \in opEntries'[x] :
                      e.account \in DebtAccount => debtState[e.account] = "active"
<1> USE DEF TypeOK, LedgerTypeOK, OperationStatus, OperationSource, Recorded
<1>1. ASSUME NEW o \in Operation, NEW type \in {"income", "expense"},
             NEW account \in Account, NEW amount \in ManualAmount,
             IncomeExpenseAccount(account, type),
             \/ \E key \in Key \cup {NoKey} :
                  CreateIncomeExpense(o, type, account, amount, key)
             \/ UpdateAsIncomeExpense(o, type, account, amount)
      PROVE  LedgerTypeOK' /\
             \A x \in Operation :
               /\ opSource[x] = "debt" /\ Recorded(x) =>
                    /\ opStatus'[x] = opStatus[x] /\ opSource'[x] = "debt"
                    /\ opEntries'[x] = opEntries[x]
               /\ \/ opEntries'[x] \subseteq opEntries[x] /\ (Recorded(x)' => Recorded(x))
                  \/ \A e \in opEntries'[x] :
                       e.account \in DebtAccount => debtState[e.account] = "active"
  <2>1. amount \in Int /\ type \in OperationType
    BY ManualAmountsPositive DEF OperationType
  <2> DEFINE entries == IncomeExpenseEntries(type, account, amount)
  <2>2. entries \in SUBSET MoneyEntry /\ \A e \in entries : e.account = account
    BY <2>1, EntriesTyped
  <2> HIDE DEF entries
  <2>3. CASE \E key \in Key \cup {NoKey} :
               CreateIncomeExpense(o, type, account, amount, key)
    <3>1. PICK key \in Key \cup {NoKey} :
            Post(o, "manual", type, entries, key, ManualRequest)
      BY <2>3 DEF CreateIncomeExpense, entries
    <3>2. QED
      BY <1>1, <2>1, <2>2, <3>1 DEF Post, IncomeExpenseAccount
  <2>4. CASE UpdateAsIncomeExpense(o, type, account, amount)
    <3>1. Replace(o, type, entries)
      BY <2>4 DEF UpdateAsIncomeExpense, entries
    <3>2. QED
      BY <1>1, <2>1, <2>2, <3>1 DEF Replace, IncomeExpenseAccount
  <2>5. QED
    BY <1>1, <2>3, <2>4
<1>2. ASSUME NEW o \in Operation, NEW from \in Account \ DebtAccount,
             NEW to \in Account \ DebtAccount, NEW amount \in ManualAmount,
             \/ \E key \in Key \cup {NoKey} : CreateTransfer(o, from, to, amount, key)
             \/ UpdateAsTransfer(o, from, to, amount)
      PROVE  LedgerTypeOK' /\
             \A x \in Operation :
               /\ opSource[x] = "debt" /\ Recorded(x) =>
                    /\ opStatus'[x] = opStatus[x] /\ opSource'[x] = "debt"
                    /\ opEntries'[x] = opEntries[x]
               /\ \/ opEntries'[x] \subseteq opEntries[x] /\ (Recorded(x)' => Recorded(x))
                  \/ \A e \in opEntries'[x] :
                       e.account \in DebtAccount => debtState[e.account] = "active"
  <2>1. amount \in Int /\ "transfer" \in OperationType
    BY ManualAmountsPositive DEF OperationType
  <2> DEFINE entries == TransferEntries(from, to, amount)
  <2>2. entries \in SUBSET MoneyEntry /\ \A e \in entries : e.account \notin DebtAccount
    <3>1. from \in Account /\ to \in Account
      BY <1>2
    <3>2. /\ entries \in SUBSET MoneyEntry
          /\ \A e \in entries : e.account \in {from, to}
      BY <2>1, <3>1, EntriesTyped
    <3> HIDE DEF entries
    <3>3. QED
      BY <1>2, <3>2
  <2> HIDE DEF entries
  <2>3. CASE \E key \in Key \cup {NoKey} : CreateTransfer(o, from, to, amount, key)
    <3>1. PICK key \in Key \cup {NoKey} :
            Post(o, "manual", "transfer", entries, key, ManualRequest)
      BY <2>3 DEF CreateTransfer, entries
    <3>2. QED
      BY <2>1, <2>2, <3>1 DEF Post
  <2>4. CASE UpdateAsTransfer(o, from, to, amount)
    <3>1. Replace(o, "transfer", entries)
      BY <2>4 DEF UpdateAsTransfer, entries
    <3>2. QED
      BY <2>1, <2>2, <3>1 DEF Replace
  <2>5. QED
    BY <1>2, <2>3, <2>4
<1>3. ASSUME NEW o \in Operation, Cancel(o) \/ Restore(o) \/ Erase(o)
      PROVE  LedgerTypeOK' /\
             \A x \in Operation :
               /\ opSource[x] = "debt" /\ Recorded(x) =>
                    /\ opStatus'[x] = opStatus[x] /\ opSource'[x] = "debt"
                    /\ opEntries'[x] = opEntries[x]
               /\ opEntries'[x] \subseteq opEntries[x] /\ (Recorded(x)' => Recorded(x))
  BY <1>3 DEF Cancel, Restore, Erase
<1>4. QED
  BY <1>1, <1>2, <1>3 DEF ManualStep

-----------------------------------------------------------------------------
(* Types.                                                                  *)

\* The initial state is typed.
LEMMA InitTyped == Init => TypeOK
BY DEF Init, LedgerInit, TypeOK, LedgerTypeOK, OperationStatus, OperationSource,
       OperationType, DebtState, PaymentState

\* Creating a debt, with or without an opening transfer, keeps the types.
LEMMA DebtStepTyped ==
  ASSUME TypeOK, DebtStep
  PROVE  TypeOK'
<1> USE DEF TypeOK
<1>1. PICK d \in DebtAccount :
        \/ \E balance \in ManualAmount : AddExistingDebt(d, balance)
        \/ \E account \in Account, amount \in ManualAmount, o \in Operation :
             OpenLoan(d, account, amount, o)
        \/ \E opening \in ManualAmount \cup {0} : OpenCreditCard(d, opening)
        \/ Archive(d)
        \/ RestoreDebt(d)
        \/ DeleteDebt(d)
  BY DEF DebtStep
<1>2. ASSUME NEW initial \in Int, NEW paidOut \in Nat, Create(d, initial, paidOut)
      PROVE  /\ debtState' \in [DebtAccount -> DebtState]
             /\ initialBalance' \in [DebtAccount -> Int]
             /\ lent' \in [DebtAccount -> Nat]
  BY <1>2 DEF Create, DebtState
<1>3. ASSUME NEW balance \in ManualAmount, AddExistingDebt(d, balance)
      PROVE  TypeOK'
  <2>1. balance \in Int /\ -balance \in Int /\ 0 \in Nat
    BY ManualAmountsPositive
  <2>2. QED
    BY <1>2, <1>3, <2>1
       DEF AddExistingDebt, ledgerVars, paymentVars, LedgerTypeOK
<1>4. ASSUME NEW account \in Account, NEW amount \in ManualAmount,
             NEW o \in Operation, OpenLoan(d, account, amount, o)
      PROVE  TypeOK'
  <2>1. LedgerTypeOK'
    BY <1>4, OpeningPosting, PostDebtFacts DEF OpenLoan
  <2>2. 0 \in Int /\ amount \in Nat
    BY ManualAmountsPositive
  <2>3. QED
    BY <1>2, <1>4, <2>1, <2>2 DEF OpenLoan, paymentVars
<1>5. ASSUME NEW opening \in ManualAmount \cup {0}, OpenCreditCard(d, opening)
      PROVE  TypeOK'
  <2>1. -opening \in Int /\ 0 \in Nat
    BY ManualAmountsPositive
  <2>2. QED
    BY <1>2, <1>5, <2>1 DEF OpenCreditCard, ledgerVars, paymentVars, LedgerTypeOK
<1>6. CASE Archive(d) \/ RestoreDebt(d)
  BY <1>6 DEF Archive, RestoreDebt, DebtState, ledgerVars, paymentVars, LedgerTypeOK
<1>7. CASE DeleteDebt(d)
  BY <1>7 DEF DeleteDebt, DebtState, paymentVars, LedgerTypeOK, OperationStatus
<1>8. QED
  BY <1>1, <1>3, <1>4, <1>5, <1>6, <1>7

\* Recording a payment posts typed operations.
LEMMA RecordPaymentTyped ==
  ASSUME TypeOK, NEW p \in Payment, NEW d \in DebtAccount, NEW account \in Account,
         NEW principal \in ManualAmount \cup {0}, NEW interest \in ManualAmount \cup {0},
         RecordPayment(p, d, account, principal, interest)
  PROVE  TypeOK'
<1> USE DEF TypeOK
<1>1. PICK o \in Operation, i \in Operation :
        /\ o # i
        /\ PostDebt(PaymentPostings(d, account, principal, interest, o, i))
        /\ payPrincipal' = [payPrincipal EXCEPT ![p] =
                              IF principal = 0 THEN NoOperation ELSE o]
        /\ payInterest' = [payInterest EXCEPT ![p] =
                             IF interest = 0 THEN NoOperation ELSE i]
  BY DEF RecordPayment
<1>2. LedgerTypeOK'
  <2>1. TypedPostings(PaymentPostings(d, account, principal, interest, o, i))
    BY <1>1, PaymentPosting DEF RecordPayment
  <2>2. QED
    BY <1>1, <2>1, PostDebtFacts
<1>3. QED
  BY <1>1, <1>2 DEF RecordPayment, debtVars, PaymentState

\* Every step keeps the types.
LEMMA StepTyped == TypeOK /\ [Next]_vars => TypeOK'
<1> SUFFICES ASSUME TypeOK, [Next]_vars PROVE TypeOK'
  OBVIOUS
<1>1. CASE DebtStep
  BY <1>1, DebtStepTyped
<1>2. CASE PaymentStep
  <2>1. PICK p \in Payment :
          \/ \E d \in DebtAccount, account \in Account,
                principal, interest \in ManualAmount \cup {0} :
               RecordPayment(p, d, account, principal, interest)
          \/ ReversePayment(p)
    BY <1>2 DEF PaymentStep
  <2>2. CASE ReversePayment(p)
    BY <2>2 DEF ReversePayment, TypeOK, LedgerTypeOK, OperationStatus, PaymentState,
                debtVars
  <2>3. QED
    BY <2>1, <2>2, RecordPaymentTyped
<1>3. CASE ManualStep
  BY <1>3, ManualStepFacts DEF ManualStep, TypeOK, debtVars, paymentVars
<1>4. CASE UNCHANGED vars
  BY <1>4 DEF vars, ledgerVars, debtVars, paymentVars, TypeOK, LedgerTypeOK
<1>5. QED
  BY <1>1, <1>2, <1>3, <1>4 DEF Next

\* Types, for every set of accounts, debts, payments and operations.
THEOREM DebtTypeCorrect == Spec => []TypeOK
BY InitTyped, StepTyped, PTL DEF Spec

-----------------------------------------------------------------------------
(* Payments and deleted debts.                                             *)

\* Nothing is recorded at first.
LEMMA InitInvariant == Init => PaymentInv
<1> SUFFICES ASSUME Init PROVE PaymentInv
  OBVIOUS
<1>1. TypeOK
  BY InitTyped
<1>2. PaymentsWhole /\ PaymentsApart /\ DebtsStand
  BY DEF Init, LedgerInit, PaymentsWhole, PaymentsApart, PaymentOperations,
         DebtsStand, Recorded
<1>3. QED
  BY <1>1, <1>2 DEF PaymentInv

\* A step that leaves the payments and their operations alone keeps them whole
\* and apart.
LEMMA PaymentsUntouched ==
  ASSUME PaymentsWhole, PaymentsApart, UNCHANGED paymentVars,
         \A p \in Payment : \A o \in PaymentOperations(p) :
           /\ opStatus'[o] = opStatus[o] /\ opSource'[o] = opSource[o]
           /\ opEntries'[o] = opEntries[o]
  PROVE  PaymentsWhole' /\ PaymentsApart'
BY SMTT(30) DEF PaymentsWhole, PaymentsApart, PaymentOperations, paymentVars

\* The operations of a payment are operations of source debt that exist.
LEMMA PaymentOperationsExist ==
  ASSUME PaymentInv, NEW p \in Payment, NEW o \in PaymentOperations(p)
  PROVE  o \in Operation /\ Recorded(o) /\ opSource[o] = "debt"
<1>1. o \in Operation
  BY DEF PaymentInv, TypeOK, PaymentOperations
<1>2. payState[p] \in {"recorded", "reversed"}
  BY DEF PaymentInv, TypeOK, PaymentState, PaymentsApart
<1>3. QED
  BY <1>1, <1>2 DEF PaymentInv, PaymentsWhole, Recorded

\* Creating a debt keeps the invariant: an opening transfer is a new operation
\* on the new debt.
LEMMA CreationInvariant ==
  ASSUME PaymentInv, TypeOK', NEW d \in DebtAccount,
         \/ \E balance \in ManualAmount : AddExistingDebt(d, balance)
         \/ \E account \in Account, amount \in ManualAmount, o \in Operation :
              OpenLoan(d, account, amount, o)
         \/ \E opening \in ManualAmount \cup {0} : OpenCreditCard(d, opening)
  PROVE  PaymentInv'
<1>1. /\ debtState' = [debtState EXCEPT ![d] = "active"]
      /\ UNCHANGED paymentVars
  BY DEF AddExistingDebt, OpenLoan, OpenCreditCard, Create
<1>2. \A e \in DebtAccount : Standing(e) \/ e = d => Standing(e)'
  BY <1>1 DEF Standing, PaymentInv, TypeOK
<1>3. \A o \in Operation :
        \/ /\ opStatus[o] = "unused" /\ opStatus'[o] = "confirmed"
           /\ \A e \in opEntries'[o] : e.account \in DebtAccount => e.account = d
        \/ /\ opStatus'[o] = opStatus[o] /\ opSource'[o] = opSource[o]
           /\ opEntries'[o] = opEntries[o]
  <2>1. CASE UNCHANGED ledgerVars
    BY <2>1 DEF ledgerVars
  <2>2. ASSUME NEW account \in Account, NEW amount \in ManualAmount,
               NEW x \in Operation, OpenLoan(d, account, amount, x)
        PROVE  \A o \in Operation :
                 \/ /\ opStatus[o] = "unused" /\ opStatus'[o] = "confirmed"
                    /\ \A e \in opEntries'[o] : e.account \in DebtAccount => e.account = d
                 \/ /\ opStatus'[o] = opStatus[o] /\ opSource'[o] = opSource[o]
                    /\ opEntries'[o] = opEntries[o]
    <3> DEFINE postings == {Posting(x, "transfer", LendEntries(d, account, amount))}
    <3>1. PostDebt(postings) /\ Settles(account, d)
      BY <2>2 DEF OpenLoan
    <3>2. /\ TypedPostings(postings)
          /\ \A q \in postings : \A e \in q.entries :
               e.account \in DebtAccount => e.account = d
      BY <3>1, OpeningPosting
    <3> HIDE DEF postings
    <3>3. LedgerTypeOK
      BY DEF PaymentInv, TypeOK
    <3>4. QED
      BY <3>1, <3>2, <3>3, PostDebtFacts
  <2>3. QED
    BY <2>1, <2>2 DEF AddExistingDebt, OpenCreditCard
<1>4. PaymentsWhole' /\ PaymentsApart'
  BY <1>1, <1>3, PaymentOperationsExist, PaymentsUntouched DEF PaymentInv, Recorded
<1>5. DebtsStand'
  BY <1>1, <1>2, <1>3 DEF DebtsStand, PaymentInv, Recorded, paymentVars
<1>6. QED
  BY <1>4, <1>5 DEF PaymentInv

\* Archiving, restoring and deleting a debt keep the invariant: a debt is
\* deleted when no payment and no operation but its opening refers to it.
LEMMA LifeInvariant ==
  ASSUME PaymentInv, TypeOK', NEW d \in DebtAccount,
         Archive(d) \/ RestoreDebt(d) \/ DeleteDebt(d)
  PROVE  PaymentInv'
<1>1. CASE Archive(d) \/ RestoreDebt(d)
  <2>1. UNCHANGED <<ledgerVars, paymentVars>>
    BY <1>1 DEF Archive, RestoreDebt
  <2>2. PaymentsWhole' /\ PaymentsApart'
    BY <2>1, PaymentOperationsExist, PaymentsUntouched DEF PaymentInv, ledgerVars
  <2>3. \A e \in DebtAccount : Standing(e) => Standing(e)'
    BY <1>1 DEF Archive, RestoreDebt, Standing, PaymentInv, TypeOK
  <2>4. DebtsStand'
    BY <2>1, <2>3 DEF DebtsStand, PaymentInv, Recorded, ledgerVars, paymentVars
  <2>5. QED
    BY <2>2, <2>4 DEF PaymentInv
<1>2. CASE DeleteDebt(d)
  <2> DEFINE opening == {o \in OperationsOn(d) : opSource[o] = "debt"}
  <2>1. /\ Payments(d) = {}
        /\ \A o \in OperationsOn(d) : o \in opening
        /\ debtState' = [debtState EXCEPT ![d] = "deleted"]
        /\ opStatus' = [o \in Operation |->
                          IF o \in opening THEN "deleted" ELSE opStatus[o]]
        /\ opEntries' = [o \in Operation |->
                           IF o \in opening THEN {} ELSE opEntries[o]]
        /\ opSource' = opSource
        /\ UNCHANGED paymentVars
    BY <1>2 DEF DeleteDebt, Deletable
  <2>2. \A p \in Payment : payState[p] # "none" => payDebt[p] # d
    BY <2>1 DEF Payments
  <2>3. \A p \in Payment : \A o \in PaymentOperations(p) : o \notin opening
    <3> SUFFICES ASSUME NEW p \in Payment, NEW o \in PaymentOperations(p), o \in opening
                 PROVE  FALSE
      OBVIOUS
    <3>1. PICK e \in opEntries[o] : e.account = d
      BY DEF OperationsOn
    <3>2. payDebt[p] = d /\ payState[p] # "none"
      BY <3>1 DEF PaymentInv, PaymentsApart
    <3>3. QED
      BY <2>2, <3>2
  <2>4. \A o \in Operation : o \notin opening /\ Recorded(o) =>
          \A e \in opEntries[o] : e.account # d
    BY <2>1 DEF OperationsOn
  <2> HIDE DEF opening
  <2>5. PaymentsWhole' /\ PaymentsApart'
    BY <2>1, <2>3, PaymentOperationsExist, PaymentsUntouched DEF PaymentInv
  <2>6. \A e \in DebtAccount : Standing(e) /\ e # d => Standing(e)'
    BY <2>1 DEF Standing, PaymentInv, TypeOK
  <2>7. DebtsStand'
    BY <2>1, <2>2, <2>4, <2>6 DEF DebtsStand, PaymentInv, Recorded, paymentVars
  <2>8. QED
    BY <2>5, <2>7 DEF PaymentInv
<1>3. QED
  BY <1>1, <1>2

\* A new payment's operations are new, and its own.
LEMMA RecordPaymentInvariant ==
  ASSUME PaymentInv, TypeOK', NEW p \in Payment, NEW d \in DebtAccount,
         NEW account \in Account,
         NEW principal \in ManualAmount \cup {0}, NEW interest \in ManualAmount \cup {0},
         RecordPayment(p, d, account, principal, interest)
  PROVE  PaymentInv'
<1>0. PICK o \in Operation, i \in Operation :
        /\ o # i
        /\ PostDebt(PaymentPostings(d, account, principal, interest, o, i))
        /\ payPrincipal' = [payPrincipal EXCEPT ![p] =
                              IF principal = 0 THEN NoOperation ELSE o]
        /\ payInterest' = [payInterest EXCEPT ![p] =
                             IF interest = 0 THEN NoOperation ELSE i]
  BY DEF RecordPayment
<1> DEFINE postings == PaymentPostings(d, account, principal, interest, o, i)
           posted == {q.op : q \in postings}
<1>1. /\ payState[p] = "none" /\ debtState[d] = "active" /\ o # i
      /\ Settles(account, d) /\ principal + interest > 0 /\ PostDebt(postings)
      /\ payState' = [payState EXCEPT ![p] = "recorded"]
      /\ payDebt' = [payDebt EXCEPT ![p] = d]
      /\ payPrincipal' = [payPrincipal EXCEPT ![p] =
                            IF principal = 0 THEN NoOperation ELSE o]
      /\ payInterest' = [payInterest EXCEPT ![p] =
                           IF interest = 0 THEN NoOperation ELSE i]
      /\ UNCHANGED debtVars
  BY <1>0 DEF RecordPayment
<1>2. /\ TypedPostings(postings)
      /\ \A q \in postings : \A e \in q.entries : e.account \in DebtAccount => e.account = d
      /\ posted = {IF principal = 0 THEN NoOperation ELSE o,
                   IF interest = 0 THEN NoOperation ELSE i} \ {NoOperation}
  <2>1. TypedPostings(postings)
    BY <1>1, PaymentPosting
  <2>2. \A q \in postings : \A e \in q.entries : e.account \in DebtAccount => e.account = d
    BY <1>1, PaymentPosting
  <2>3. posted = {IF principal = 0 THEN NoOperation ELSE o,
                  IF interest = 0 THEN NoOperation ELSE i} \ {NoOperation}
    <3>1. \A x \in Operation : (\E q \in postings : q.op = x)
                  <=> (x = o /\ principal > 0) \/ (x = i /\ interest > 0)
      BY <1>1, PaymentPosting
    <3> HIDE DEF postings
    <3>2. \A x : x \in posted <=> (x = o /\ principal > 0) \/ (x = i /\ interest > 0)
      BY <2>1, <3>1 DEF TypedPostings
    <3>3. (principal > 0 <=> principal # 0) /\ (interest > 0 <=> interest # 0)
      BY ManualAmountsPositive
    <3>4. o # NoOperation /\ i # NoOperation
      BY NoOperationIsNone
    <3> HIDE DEF posted
    <3>5. QED
      BY <3>2, <3>3, <3>4
  <2>4. QED
    BY <2>1, <2>2, <2>3
<1>3. posted # {}
  BY <1>1, <1>2, ManualAmountsPositive, NoOperationIsNone
<1> HIDE DEF postings
<1>4. LedgerTypeOK
  BY DEF PaymentInv, TypeOK
<1>5. \A x \in Operation :
        \/ /\ x \in posted
           /\ opStatus[x] = "unused" /\ opStatus'[x] = "confirmed" /\ opSource'[x] = "debt"
           /\ \A e \in opEntries'[x] : e.account \in DebtAccount => e.account = d
        \/ /\ x \notin posted
           /\ opStatus'[x] = opStatus[x] /\ opSource'[x] = opSource[x]
           /\ opEntries'[x] = opEntries[x]
  BY <1>1, <1>2, <1>4, PostDebtFacts
<1>6. PaymentOperations(p)' = posted
  BY <1>1, <1>2 DEF PaymentOperations, PaymentInv, TypeOK
<1>7. \A q \in Payment \ {p} : /\ PaymentOperations(q)' = PaymentOperations(q)
                              /\ payState'[q] = payState[q] /\ payDebt'[q] = payDebt[q]
  BY <1>1 DEF PaymentOperations, PaymentInv, TypeOK
<1>8. payState'[p] = "recorded" /\ payDebt'[p] = d
  BY <1>1 DEF PaymentInv, TypeOK
<1>9. posted \subseteq Operation
  BY <1>2
<1> HIDE DEF posted
<1>10. \A q \in Payment : \A x \in PaymentOperations(q) : x \in Operation /\ x \notin posted
  BY <1>5, PaymentOperationsExist DEF Recorded
<1>11. PaymentsWhole'
  <2>1. /\ PaymentOperations(p)' # {}
        /\ \A x \in PaymentOperations(p)' : opSource'[x] = "debt" /\ opStatus'[x] = "confirmed"
    BY <1>3, <1>5, <1>6, <1>9
  <2>2. \A q \in Payment \ {p} : \A x \in PaymentOperations(q)' :
          opSource'[x] = opSource[x] /\ opStatus'[x] = opStatus[x]
    BY <1>5, <1>7, <1>10
  <2>3. ASSUME NEW q \in Payment, q # p, payState'[q] # "none"
        PROVE  /\ PaymentOperations(q)' # {}
               /\ \A x \in PaymentOperations(q)' :
                    /\ opSource'[x] = "debt"
                    /\ opStatus'[x] = IF payState'[q] = "recorded" THEN "confirmed"
                                                                 ELSE "ignored"
    BY <1>7, <2>2, <2>3 DEF PaymentsWhole, PaymentInv
  <2>4. QED
    BY <1>8, <2>1, <2>3 DEF PaymentsWhole
<1>12. PaymentsApart'
  BY <1>1, <1>5, <1>6, <1>7, <1>8, <1>9, <1>10 DEF PaymentsApart, PaymentInv
<1>13. DebtsStand'
  BY <1>1, <1>5, <1>7, <1>8 DEF DebtsStand, Standing, PaymentInv, Recorded, debtVars
<1>14. QED
  BY <1>11, <1>12, <1>13 DEF PaymentInv

\* Reversing a payment stops its own operations and no other's.
LEMMA ReversePaymentInvariant ==
  ASSUME PaymentInv, TypeOK', NEW p \in Payment, ReversePayment(p)
  PROVE  PaymentInv'
<1>1. /\ payState[p] = "recorded"
      /\ opStatus' = [o \in Operation |->
                        IF o \in PaymentOperations(p) THEN "ignored" ELSE opStatus[o]]
      /\ payState' = [payState EXCEPT ![p] = "reversed"]
      /\ UNCHANGED <<opSource, opEntries, debtVars, payDebt, payPrincipal, payInterest>>
      /\ \A o \in PaymentOperations(p) : opStatus[o] = "confirmed"
  BY DEF ReversePayment
<1>2. \A q \in Payment : /\ PaymentOperations(q)' = PaymentOperations(q)
                        /\ PaymentOperations(q) \subseteq Operation
  BY <1>1 DEF PaymentOperations, PaymentInv, TypeOK
<1>3. \A q \in Payment \ {p} : \A o \in PaymentOperations(q) : opStatus'[o] = opStatus[o]
  BY <1>1, <1>2 DEF PaymentInv, PaymentsApart
<1>4. /\ payState'[p] = "reversed"
      /\ \A q \in Payment \ {p} : payState'[q] = payState[q]
  BY <1>1 DEF PaymentInv, TypeOK
<1>5. PaymentsWhole'
  <2>1. /\ PaymentOperations(p)' # {}
        /\ \A o \in PaymentOperations(p)' : opSource'[o] = "debt" /\ opStatus'[o] = "ignored"
    BY <1>1, <1>2 DEF PaymentInv, PaymentsWhole
  <2>2. ASSUME NEW q \in Payment, q # p, payState'[q] # "none"
        PROVE  /\ PaymentOperations(q)' # {}
               /\ \A x \in PaymentOperations(q)' :
                    /\ opSource'[x] = "debt"
                    /\ opStatus'[x] = IF payState'[q] = "recorded" THEN "confirmed"
                                                                 ELSE "ignored"
    BY <1>1, <1>2, <1>3, <1>4, <2>2 DEF PaymentsWhole, PaymentInv
  <2>3. QED
    BY <1>4, <2>1, <2>2 DEF PaymentsWhole
<1>6. PaymentsApart'
  BY <1>1, <1>2, <1>4 DEF PaymentInv, PaymentsApart
<1>7. \A o \in Operation : Recorded(o)' => Recorded(o)
  BY <1>1, PaymentOperationsExist DEF Recorded
<1>8. DebtsStand'
  BY <1>1, <1>4, <1>7 DEF PaymentInv, DebtsStand, Standing, debtVars
<1>9. QED
  BY <1>5, <1>6, <1>8 DEF PaymentInv

\* Manual commands touch no operation of a payment and reach active cards only.
LEMMA ManualInvariant ==
  ASSUME PaymentInv, TypeOK', ManualStep
  PROVE  PaymentInv'
<1>1. UNCHANGED <<debtVars, paymentVars>>
  BY DEF ManualStep
<1>2. TypeOK
  BY DEF PaymentInv
<1>3. \A x \in Operation :
        /\ opSource[x] = "debt" /\ Recorded(x) =>
             /\ opStatus'[x] = opStatus[x] /\ opSource'[x] = "debt"
             /\ opEntries'[x] = opEntries[x]
        /\ \/ opEntries'[x] \subseteq opEntries[x] /\ (Recorded(x)' => Recorded(x))
           \/ \A e \in opEntries'[x] :
                e.account \in DebtAccount => debtState[e.account] = "active"
  BY <1>2, ManualStepFacts
<1>4. \A p \in Payment : \A o \in PaymentOperations(p) :
        /\ opStatus'[o] = opStatus[o] /\ opSource'[o] = opSource[o]
        /\ opEntries'[o] = opEntries[o]
  BY <1>3, PaymentOperationsExist
<1>5. PaymentsWhole' /\ PaymentsApart'
  BY <1>1, <1>4, PaymentsUntouched DEF PaymentInv
<1>6. DebtsStand'
  <2>1. \A p \in Payment : payState'[p] # "none" =>
          payDebt'[p] \in DebtAccount /\ Standing(payDebt[p])'
    BY <1>1 DEF PaymentInv, DebtsStand, Standing, debtVars, paymentVars
  <2>2. ASSUME NEW o \in Operation, Recorded(o)', NEW e \in opEntries'[o],
               e.account \in DebtAccount
        PROVE  Standing(e.account)'
    BY <1>1, <1>3, <2>2 DEF PaymentInv, DebtsStand, Standing, debtVars
  <2>3. QED
    BY <2>1, <2>2 DEF DebtsStand
<1>7. QED
  BY <1>5, <1>6 DEF PaymentInv

\* Every step keeps the invariant.
LEMMA StepInvariant == PaymentInv /\ [Next]_vars => PaymentInv'
<1> SUFFICES ASSUME PaymentInv, [Next]_vars PROVE PaymentInv'
  OBVIOUS
<1>1. TypeOK'
  BY StepTyped DEF PaymentInv
<1>2. CASE DebtStep
  BY <1>1, <1>2, CreationInvariant, LifeInvariant DEF DebtStep
<1>3. CASE PaymentStep
  <2>1. PICK p \in Payment :
          \/ \E d \in DebtAccount, account \in Account,
                principal, interest \in ManualAmount \cup {0} :
               RecordPayment(p, d, account, principal, interest)
          \/ ReversePayment(p)
    BY <1>3 DEF PaymentStep
  <2>2. QED
    BY <1>1, <2>1, RecordPaymentInvariant, ReversePaymentInvariant
<1>4. CASE ManualStep
  BY <1>1, <1>4, ManualInvariant
<1>5. CASE UNCHANGED vars
  <2>1. PaymentsWhole' /\ PaymentsApart'
    BY <1>5, PaymentsUntouched DEF PaymentInv, vars, ledgerVars
  <2>2. DebtsStand'
    BY <1>5 DEF PaymentInv, DebtsStand, Standing, Recorded, vars, ledgerVars, debtVars, paymentVars
  <2>3. QED
    BY <1>1, <2>1, <2>2 DEF PaymentInv
<1>6. QED
  BY <1>2, <1>3, <1>4, <1>5 DEF Next


\* A payment counts with all its operations until it is reversed with all of
\* them, whatever the manual commands and the other payments do.
THEOREM PaymentsAreWhole == Spec => []PaymentsWhole
<1>1. PaymentInv => PaymentsWhole
  BY DEF PaymentInv
<1>2. QED
  BY <1>1, InitInvariant, StepInvariant, PTL DEF Spec

\* A deleted debt leaves no operation on its account and no payment.
THEOREM DeletedDebtsForgotten == Spec => []DeletedDebtForgotten
<1>1. PaymentInv => DeletedDebtForgotten
  BY DEF PaymentInv, DebtsStand, Standing, DeletedDebtForgotten, OperationsOn, Payments
<1>2. QED
  BY <1>1, InitInvariant, StepInvariant, PTL DEF Spec

-----------------------------------------------------------------------------
(* Sums over finite sets.                                                  *)

\* The element a fold takes next.
Taken(s) == CHOOSE x \in s : TRUE

\* One round of the recursion behind MapThenSumSet.
SumRound(f, S, h) ==
  [s \in SUBSET S |-> IF s = {} THEN 0 ELSE f[Taken(s)] + h[s \ {Taken(s)}]]

\* The sum of what f has at the elements of S.
SumRec(f, S) == CHOOSE h : h = SumRound(f, S, h)
SumOver(f, S) == SumRec(f, S)[S]

\* A set of natural numbers that is not empty has a least element: what
\* stands for an induction below.
LEMMA LeastNat == ASSUME NEW T \in SUBSET Nat, T # {} PROVE \E n \in T : \A m \in T : n <= m
<1> DEFINE L == OpToRel(<, Nat)
<1>1. IsWellFoundedOn(L, Nat)
  BY NatLessThanWellFounded, Zenon
<1>2. \A n, m \in Nat : n < m => <<n, m>> \in L
  BY SMT DEF OpToRel
<1> HIDE DEF L
<1>3. PICK x \in T : \A y \in T : ~(<<y,x>> \in L)
  BY <1>1, WFMin, Zenon
<1>5. \A m \in T : ~(m < x)
  BY <1>2, <1>3, Zenon
<1>4. QED
  BY <1>5

\* Induction over the subsets of a finite set: good are those a claim holds of.
LEMMA SubsetInduction ==
  ASSUME NEW S, IsFiniteSet(S), NEW good,
         \A T \in SUBSET S : (\A U \in SUBSET T : U # T => U \in good) => T \in good
  PROVE  S \in good
<1> SUFFICES ASSUME S \notin good PROVE FALSE
  OBVIOUS
<1> DEFINE bad == {T \in SUBSET S : T \notin good}
           sizes == {Cardinality(T) : T \in bad}
<1>1. \A T \in SUBSET S : IsFiniteSet(T) /\ Cardinality(T) \in Nat
  BY FS_Subset, FS_CardinalityType
<1>2. sizes \in SUBSET Nat /\ sizes # {}
  BY <1>1
<1>3. PICK n \in sizes : \A m \in sizes : n <= m
  BY <1>2, LeastNat, Zenon
<1>4. PICK T \in bad : Cardinality(T) = n
  BY <1>3
<1>5. ASSUME NEW U \in SUBSET T, U # T PROVE U \in good
  <2>1. Cardinality(U) # Cardinality(T) /\ Cardinality(U) <= Cardinality(T)
    BY <1>1, <1>4, <1>5, FS_Subset
  <2>2. U \in SUBSET S
    BY <1>4
  <2>3. Cardinality(U) \in sizes => Cardinality(T) <= Cardinality(U)
    BY <1>3, <1>4
  <2>4. Cardinality(U) \in Nat /\ Cardinality(T) \in Nat
    BY <1>1, <1>4, <2>2
  <2>5. QED
    BY <2>1, <2>2, <2>3, <2>4
<1>6. QED
  BY <1>4, <1>5

\* What is added is a number.
Summable(f, S) == IsFiniteSet(S) /\ \A x \in S : f[x] \in Int

\* A fold takes an element of what is left.
LEMMA TakenIsElement == ASSUME NEW s, s # {} PROVE Taken(s) \in s
BY DEF Taken

\* Two functions that obey the recursion are equal where both are defined.
LEMMA RecursionUnique ==
  ASSUME NEW S, IsFiniteSet(S), NEW R, NEW T, S \subseteq R, S \subseteq T, NEW f, NEW e,
         \A x \in S : f[x] = e[x],
         NEW g, g = SumRound(f, R, g), NEW h, h = SumRound(e, T, h)
  PROVE  g[S] = h[S]
<1> DEFINE good == {s \in SUBSET S : g[s] = h[s]}
<1>1. \A s \in SUBSET S : g[s] = IF s = {} THEN 0 ELSE f[Taken(s)] + g[s \ {Taken(s)}]
  BY DEF SumRound
<1>2. \A s \in SUBSET S : h[s] = IF s = {} THEN 0 ELSE e[Taken(s)] + h[s \ {Taken(s)}]
  BY DEF SumRound
<1>3. ASSUME NEW s \in SUBSET S, \A u \in SUBSET s : u # s => u \in good
      PROVE  s \in good
  <2>1. CASE s = {}
    BY <1>1, <1>2, <2>1
  <2>2. CASE s # {}
    <3>1. Taken(s) \in s
      BY <2>2, TakenIsElement
    <3>2. s \ {Taken(s)} \in good
      BY <1>3, <3>1
    <3>3. QED
      BY <1>1, <1>2, <2>2, <3>1, <3>2
  <2>3. QED
    BY <2>1, <2>2
<1> HIDE DEF good
<1>4. S \in good
  BY <1>3, SubsetInduction, Zenon
<1>5. QED
  BY <1>4 DEF good

\* The recursion has a solution on every finite set.
LEMMA RecursionExists ==
  ASSUME NEW S, NEW f, Summable(f, S)
  PROVE  \E h \in [SUBSET S -> Int] : h = SumRound(f, S, h)
<1> DEFINE UpTo(n) == {s \in SUBSET S : Cardinality(s) <= n}
           Solves(h, n) ==
             /\ h \in [UpTo(n) -> Int]
             /\ \A s \in UpTo(n) : h[s] = IF s = {} THEN 0 ELSE f[Taken(s)] + h[s \ {Taken(s)}]
           bad == {n \in Nat : ~ \E h : Solves(h, n)}
<1>1. \A s \in SUBSET S : IsFiniteSet(s) /\ Cardinality(s) \in Nat
  BY FS_Subset, FS_CardinalityType DEF Summable
<1>2. \E h : Solves(h, 0)
  <2>1. UpTo(0) = {{}}
    BY <1>1, FS_EmptySet
  <2>2. Solves([s \in {{}} |-> 0], 0)
    BY <2>1
  <2>3. QED
    BY <2>2
<1>3. ASSUME NEW n \in Nat, NEW g, Solves(g, n) PROVE \E h : Solves(h, n + 1)
  <2> DEFINE h == [s \in UpTo(n+1) |->
                    IF s = {} THEN 0 ELSE f[Taken(s)] + g[s \ {Taken(s)}]]
  <2>1. ASSUME NEW s \in UpTo(n+1), s # {}
        PROVE  Taken(s) \in S /\ s \ {Taken(s)} \in UpTo(n)
    <3>1. Taken(s) \in s /\ s \in SUBSET S /\ Cardinality(s) <= n + 1
      BY <2>1, TakenIsElement
    <3>2. Cardinality(s \ {Taken(s)}) = Cardinality(s) - 1
      BY <1>1, <3>1, FS_RemoveElement
    <3>3. Cardinality(s) \in Nat
      BY <1>1, <3>1
    <3>4. QED
      BY <3>1, <3>2, <3>3
  <2>2. h \in [UpTo(n+1) -> Int]
    <3>1. ASSUME NEW s \in UpTo(n+1), s # {} PROVE f[Taken(s)] + g[s \ {Taken(s)}] \in Int
      <4>1. f[Taken(s)] \in Int
        BY <2>1, <3>1 DEF Summable
      <4>2. g[s \ {Taken(s)}] \in Int
        BY <1>3, <2>1, <3>1
      <4>3. QED
        BY <4>1, <4>2
    <3>2. QED
      BY <3>1
  <2>3. \A s \in UpTo(n) : s \in UpTo(n+1) /\ h[s] = g[s]
    <3>1. \A s \in UpTo(n) : s \in UpTo(n+1)
      BY <1>1
    <3>2. QED
      BY <1>3, <3>1
  <2>4. ASSUME NEW s \in UpTo(n+1), s # {} PROVE h[s] = f[Taken(s)] + h[s \ {Taken(s)}]
    BY <2>1, <2>3, <2>4
  <2>5. ASSUME NEW s \in UpTo(n+1), s = {} PROVE h[s] = 0
    BY <2>5
  <2> HIDE DEF h
  <2>6. Solves(h, n + 1)
    BY <2>2, <2>4, <2>5
  <2>7. QED
    BY <2>6
<1>4. bad = {}
  <2> SUFFICES ASSUME bad # {} PROVE FALSE
    OBVIOUS
  <2>1. bad \in SUBSET Nat
    OBVIOUS
  <2>2. PICK n \in bad : \A m \in bad : n <= m
    BY <2>1, LeastNat, Zenon
  <2> HIDE DEF Solves
  <2>3. n \in Nat /\ n # 0
    BY <1>2, <2>2
  <2>4. n - 1 \in Nat /\ n - 1 \notin bad
    BY <2>2, <2>3
  <2>5. \E h : Solves(h, (n - 1) + 1)
    BY <1>3, <2>4
  <2>6. (n - 1) + 1 = n
    BY <2>3
  <2>7. QED
    BY <2>2, <2>5, <2>6
<1>5. Cardinality(S) \in Nat
  BY FS_CardinalityType DEF Summable
<1> HIDE DEF Solves
<1>6. PICK h : Solves(h, Cardinality(S))
  BY <1>4, <1>5
<1>7. UpTo(Cardinality(S)) = SUBSET S
  BY FS_Subset DEF Summable
<1>8. h \in [SUBSET S -> Int] /\ h = SumRound(f, S, h)
  BY <1>6, <1>7 DEF Solves, SumRound
<1>9. QED
  BY <1>8

\* The sum is what every solution of the recursion has at the whole set.
LEMMA SumSolves ==
  ASSUME NEW S, NEW f, Summable(f, S)
  PROVE  /\ SumRec(f, S) = SumRound(f, S, SumRec(f, S))
         /\ \A T \in SUBSET S : SumRec(f, S)[T] = SumOver(f, T) /\ SumOver(f, T) \in Int
<1>1. ASSUME NEW T \in SUBSET S
      PROVE  SumRec(f, T) = SumRound(f, T, SumRec(f, T)) /\ SumOver(f, T) \in Int
  <2>1. Summable(f, T)
    BY FS_Subset DEF Summable
  <2>2. PICK h \in [SUBSET T -> Int] : h = SumRound(f, T, h)
    BY <2>1, RecursionExists
  <2>3. SumRec(f, T) = SumRound(f, T, SumRec(f, T))
    BY <2>2 DEF SumRec
  <2>4. IsFiniteSet(T) /\ T \subseteq T
    BY <2>1 DEF Summable
  <2>5. \A x \in T : f[x] = f[x]
    OBVIOUS
  <2> DEFINE r == SumRec(f, T)
  <2> HIDE DEF r
  <2>6. r[T] = h[T]
    BY <2>2, <2>3, <2>4, <2>5, RecursionUnique DEF r
  <2>7. QED
    BY <2>2, <2>3, <2>6 DEF SumOver, r
<1>2. ASSUME NEW T \in SUBSET S PROVE SumRec(f, S)[T] = SumOver(f, T)
  <2>1. IsFiniteSet(T) /\ T \subseteq S /\ T \subseteq T /\ S \in SUBSET S
    BY FS_Subset DEF Summable
  <2> DEFINE r == SumRec(f, S)
             t == SumRec(f, T)
  <2>2. r = SumRound(f, S, r) /\ t = SumRound(f, T, t)
    BY <1>1, <2>1
  <2>3. \A x \in T : f[x] = f[x]
    OBVIOUS
  <2> HIDE DEF r, t
  <2>4. r[T] = t[T]
    BY <2>1, <2>2, <2>3, RecursionUnique
  <2>5. QED
    BY <2>4 DEF SumOver, r, t
<1>3. QED
  BY <1>1, <1>2

\* Any solution will do, for instance the recursion a fold is defined by.
LEMMA SumOfSolution ==
  ASSUME NEW S, NEW f, Summable(f, S), NEW h, h = SumRound(f, S, h)
  PROVE  h[S] = SumOver(f, S)
<1> DEFINE r == SumRec(f, S)
<1>1. r = SumRound(f, S, r)
  BY SumSolves
<1>2. IsFiniteSet(S) /\ S \subseteq S /\ \A x \in S : f[x] = f[x]
  BY DEF Summable
<1> HIDE DEF r
<1>3. h[S] = r[S]
  BY <1>1, <1>2, RecursionUnique
<1>4. QED
  BY <1>3 DEF SumOver, r

\* A fold that goes on the same way is the sum.
LEMMA SumOfFold ==
  ASSUME NEW S, NEW f, Summable(f, S), NEW r,
         (\E h : h = SumRound(f, S, h)) => r = SumRound(f, S, r)
  PROVE  r[S] = SumOver(f, S)
<1>1. \E h : h = SumRound(f, S, h)
  BY RecursionExists
<1>2. QED
  BY <1>1, SumOfSolution

\* A sum is a number.
LEMMA SumType == ASSUME NEW S, NEW f, Summable(f, S) PROVE SumOver(f, S) \in Int
BY SumSolves

\* Nothing sums to zero.
LEMMA SumEmpty == ASSUME NEW f PROVE SumOver(f, {}) = 0
<1>1. Summable(f, {})
  BY FS_EmptySet DEF Summable
<1>2. SumRec(f, {}) = SumRound(f, {}, SumRec(f, {}))
  BY <1>1, SumSolves
<1>3. QED
  BY <1>2 DEF SumOver, SumRound

\* Only what f has on S counts.
LEMMA SumEqual ==
  ASSUME NEW S, NEW f, NEW g, Summable(f, S), \A x \in S : f[x] = g[x]
  PROVE  SumOver(f, S) = SumOver(g, S)
<1>1. Summable(g, S) /\ IsFiniteSet(S) /\ S \subseteq S
  BY DEF Summable
<1> DEFINE r == SumRec(f, S)
           t == SumRec(g, S)
<1>2. r = SumRound(f, S, r) /\ t = SumRound(g, S, t)
  BY <1>1, SumSolves
<1> HIDE DEF r, t
<1>3. r[S] = t[S]
  BY <1>1, <1>2, RecursionUnique
<1>4. QED
  BY <1>3 DEF SumOver, r, t

\* The fold takes elements in an order of its own; any may be taken first.
LEMMA SumRemove ==
  ASSUME NEW S, NEW f, Summable(f, S), NEW x \in S
  PROVE  SumOver(f, S) = f[x] + SumOver(f, S \ {x})
<1> DEFINE good == {T \in SUBSET S : \A y \in T : SumOver(f, T) = f[y] + SumOver(f, T \ {y})}
<1>1. ASSUME NEW T \in SUBSET S, T # {}
      PROVE  /\ Taken(T) \in T
             /\ SumOver(f, T) = f[Taken(T)] + SumOver(f, T \ {Taken(T)})
  <2>1. Taken(T) \in T
    BY <1>1, TakenIsElement
  <2>2. SumRec(f, S)[T] = f[Taken(T)] + SumRec(f, S)[T \ {Taken(T)}]
    <3> DEFINE r == SumRec(f, S)
    <3>1. r = SumRound(f, S, r)
      BY SumSolves
    <3> HIDE DEF r
    <3>2. r[T] = f[Taken(T)] + r[T \ {Taken(T)}]
      BY <3>1, <1>1 DEF SumRound
    <3>3. QED
      BY <3>2 DEF r
  <2>3. T \ {Taken(T)} \in SUBSET S
    OBVIOUS
  <2>4. QED
    BY <2>1, <2>2, <2>3, SumSolves
<1>2. \A T \in SUBSET S : SumOver(f, T) \in Int
  BY SumSolves
<1>3. ASSUME NEW T \in SUBSET S, \A U \in SUBSET T : U # T => U \in good
      PROVE  T \in good
  <2> SUFFICES ASSUME NEW y \in T PROVE SumOver(f, T) = f[y] + SumOver(f, T \ {y})
    OBVIOUS
  <2> DEFINE c == Taken(T)
  <2>1. c \in T /\ SumOver(f, T) = f[c] + SumOver(f, T \ {c})
    BY <1>1
  <2> HIDE DEF c
  <2>2. CASE c = y
    BY <2>1, <2>2
  <2>3. CASE c # y
    <3>1. T \ {c} \in good /\ T \ {y} \in good
      BY <1>3, <2>1
    <3>2. SumOver(f, T \ {c}) = f[y] + SumOver(f, (T \ {c}) \ {y})
      BY <2>3, <3>1
    <3>3. SumOver(f, T \ {y}) = f[c] + SumOver(f, (T \ {y}) \ {c})
      BY <2>1, <2>3, <3>1
    <3>4. (T \ {c}) \ {y} = (T \ {y}) \ {c} /\ (T \ {c}) \ {y} \in SUBSET S
      OBVIOUS
    <3> DEFINE rest == SumOver(f, (T \ {c}) \ {y})
    <3>5. f[c] \in Int /\ f[y] \in Int /\ rest \in Int
      BY <1>2, <2>1, <3>4 DEF Summable
    <3>6. /\ SumOver(f, T) = f[c] + (f[y] + rest)
          /\ SumOver(f, T \ {y}) = f[c] + rest
      BY <2>1, <3>2, <3>3, <3>4
    <3> HIDE DEF rest
    <3>7. QED
      BY <3>5, <3>6
  <2>4. QED
    BY <2>2, <2>3
<1> HIDE DEF good
<1>4. S \in good
  BY <1>3, SubsetInduction, Zenon DEF Summable
<1>5. QED
  BY <1>4 DEF good

\* A new element adds its term.
LEMMA SumInsert ==
  ASSUME NEW S, NEW f, Summable(f, S), NEW x, x \notin S, f[x] \in Int
  PROVE  Summable(f, S \cup {x}) /\ SumOver(f, S \cup {x}) = f[x] + SumOver(f, S)
<1>1. Summable(f, S \cup {x})
  BY FS_AddElement DEF Summable
<1>2. (S \cup {x}) \ {x} = S /\ x \in S \cup {x}
  OBVIOUS
<1>3. SumOver(f, S \cup {x}) = f[x] + SumOver(f, (S \cup {x}) \ {x})
  BY <1>1, <1>2, SumRemove
<1>4. QED
  BY <1>1, <1>2, <1>3

\* A single element is its term.
LEMMA SumSingle ==
  ASSUME NEW f, NEW x, f[x] \in Int
  PROVE  SumOver(f, {x}) = f[x]
<1>1. Summable(f, {}) /\ x \notin {} /\ {} \cup {x} = {x}
  BY FS_EmptySet DEF Summable
<1>2. SumOver(f, {} \cup {x}) = f[x] + SumOver(f, {})
  BY <1>1, SumInsert
<1>3. QED
  BY <1>1, <1>2, SumEmpty

\* Terms that are zero may be left out.
LEMMA SumSubset ==
  ASSUME NEW S, NEW T \in SUBSET S, NEW f, Summable(f, S), \A x \in S \ T : f[x] = 0
  PROVE  SumOver(f, S) = SumOver(f, T)
<1> DEFINE good == {U \in SUBSET S : T \subseteq U => SumOver(f, U) = SumOver(f, T)}
<1>1. ASSUME NEW U \in SUBSET S, \A V \in SUBSET U : V # U => V \in good
      PROVE  U \in good
  <2> SUFFICES ASSUME T \subseteq U, T # U PROVE SumOver(f, U) = SumOver(f, T)
    OBVIOUS
  <2>1. PICK x \in U : x \notin T
    OBVIOUS
  <2>2. SumOver(f, U \ {x}) = SumOver(f, T)
    BY <1>1, <2>1
  <2>3. Summable(f, U)
    BY FS_Subset DEF Summable
  <2>4. SumOver(f, U) = f[x] + SumOver(f, U \ {x})
    BY <2>1, <2>3, SumRemove
  <2>5. f[x] = 0 /\ SumOver(f, T) \in Int
    BY <2>1, SumSolves
  <2>6. QED
    BY <2>2, <2>4, <2>5
<1> HIDE DEF good
<1>2. S \in good
  BY <1>1, SubsetInduction, Zenon DEF Summable
<1>3. QED
  BY <1>2 DEF good

\* Sums of sums.
LEMMA SumAdd ==
  ASSUME NEW S, NEW f, NEW g, NEW h, Summable(f, S), Summable(g, S),
         \A x \in S : h[x] = f[x] + g[x]
  PROVE  Summable(h, S) /\ SumOver(h, S) = SumOver(f, S) + SumOver(g, S)
<1> DEFINE good == {T \in SUBSET S : SumOver(h, T) = SumOver(f, T) + SumOver(g, T)}
<1>0. Summable(h, S)
  BY DEF Summable
<1>1. ASSUME NEW T \in SUBSET S, \A U \in SUBSET T : U # T => U \in good
      PROVE  T \in good
  <2>1. CASE T = {}
    BY <2>1, SumEmpty
  <2>2. CASE T # {}
    <3>1. PICK x \in T : TRUE
      BY <2>2
    <3>2. Summable(f, T) /\ Summable(g, T) /\ Summable(h, T)
      BY <1>0, FS_Subset DEF Summable
    <3> DEFINE U == T \ {x}
    <3>3. SumOver(h, U) = SumOver(f, U) + SumOver(g, U)
      BY <1>1, <3>1
    <3>4. /\ SumOver(f, T) = f[x] + SumOver(f, U)
          /\ SumOver(g, T) = g[x] + SumOver(g, U)
          /\ SumOver(h, T) = h[x] + SumOver(h, U)
      BY <3>1, <3>2, SumRemove
    <3>5. U \in SUBSET S /\ x \in S
      BY <3>1
    <3> HIDE DEF U
    <3>6. /\ SumOver(f, U) \in Int /\ SumOver(g, U) \in Int /\ f[x] \in Int /\ g[x] \in Int
          /\ h[x] = f[x] + g[x]
      BY <3>5, SumSolves DEF Summable
    <3>7. QED
      BY <3>3, <3>4, <3>6
  <2>3. QED
    BY <2>1, <2>2
<1> HIDE DEF good
<1>2. S \in good
  BY <1>1, SubsetInduction, Zenon DEF Summable
<1>3. QED
  BY <1>0, <1>2 DEF good

\* A sum may be taken over other things that correspond one to one.
LEMMA SumImage ==
  ASSUME NEW S, NEW f, Summable(f, S), NEW b, NEW g,
         \A x, y \in S : b[x] = b[y] => x = y,
         \A x \in S : g[b[x]] = f[x]
  PROVE  LET image == {b[x] : x \in S}
         IN Summable(g, image) /\ SumOver(g, image) = SumOver(f, S)
<1> DEFINE Image(T) == {b[x] : x \in T}
           good == {T \in SUBSET S : /\ Summable(g, Image(T))
                                     /\ SumOver(g, Image(T)) = SumOver(f, T)}
<1>1. ASSUME NEW T \in SUBSET S, \A U \in SUBSET T : U # T => U \in good
      PROVE  T \in good
  <2>1. CASE T = {}
    <3>1. Image(T) = {}
      BY <2>1
    <3>2. QED
      BY <2>1, <3>1, SumEmpty, FS_EmptySet DEF Summable
  <2>2. CASE T # {}
    <3>1. PICK x \in T : TRUE
      BY <2>2
    <3> DEFINE U == T \ {x}
    <3>2. Summable(g, Image(U)) /\ SumOver(g, Image(U)) = SumOver(f, U)
      BY <1>1, <3>1
    <3>3. Image(T) = Image(U) \cup {b[x]} /\ b[x] \notin Image(U)
      BY <3>1
    <3>4. Summable(f, T)
      BY FS_Subset DEF Summable
    <3>5. SumOver(f, T) = f[x] + SumOver(f, U)
      BY <3>1, <3>4, SumRemove
    <3>6. g[b[x]] = f[x] /\ f[x] \in Int
      BY <3>1 DEF Summable
    <3> HIDE DEF Image, U
    <3>7. /\ Summable(g, Image(U) \cup {b[x]})
          /\ SumOver(g, Image(U) \cup {b[x]}) = g[b[x]] + SumOver(g, Image(U))
      BY <3>2, <3>3, <3>6, SumInsert
    <3>8. QED
      BY <3>2, <3>3, <3>5, <3>6, <3>7
  <2>3. QED
    BY <2>1, <2>2
<1> HIDE DEF good
<1>2. S \in good
  BY <1>1, SubsetInduction, Zenon DEF Summable
<1>3. QED
  BY <1>2 DEF good

-----------------------------------------------------------------------------
(* The sums of the model as sums of functions.                             *)

\* What a set of entries moves on an account.
EntrySum(entries, a) == MapThenSumSet(LAMBDA e : e.amount, {e \in entries : e.account = a})

\* What operations move on an account, by their entries.
AccountSum(entries, S, a) == MapThenSumSet(LAMBDA o : EntrySum(entries[o], a), S)

\* What payments repaid, by their principal operations.
PaidSum(principal, entries, S, d) ==
  MapThenSumSet(LAMBDA p : Magnitude(EntrySum(entries[principal[p]], d)), S)

\* A balance, a payment's principal: the same folds, written over entries so that
\* a state and its successor are two instances of one definition.
LEMMA BalanceUnfolded ==
  \A d : Balance(d) = initialBalance[d] + AccountSum(opEntries, Confirmed, d)
BY DEF Balance, EntryOn, AccountSum, EntrySum, MapThenSumSet, MapThenFoldSet

\* The same of what the payments of a debt repaid.
LEMMA PaidPrincipalUnfolded ==
  \A d : PaidPrincipal(d) = PaidSum(payPrincipal, opEntries, PaidBy(d), d)
BY DEF PaidPrincipal, EntryOn, PaidSum, PaidBy, EntrySum, MapThenSumSet, MapThenFoldSet

\* The fold over the entries on an account is the sum of their amounts.
LEMMA EntrySumIs ==
  ASSUME NEW entries, NEW a, NEW f, NEW part, part = {e \in entries : e.account = a},
         Summable(f, part), \A e \in part : f[e] = e.amount
  PROVE  EntrySum(entries, a) = SumOver(f, part)
<1> DEFINE Round(g) ==
             [t \in SUBSET {e \in entries : e.account = a} |->
                IF t = {} THEN 0 ELSE (CHOOSE e \in t : TRUE).amount
                                      + g[t \ {CHOOSE e \in t : TRUE}]]
           r == CHOOSE g : g = Round(g)
<1>1. EntrySum(entries, a) = r[{e \in entries : e.account = a}]
  BY DEF EntrySum, MapThenSumSet, MapThenFoldSet
<1>2. ASSUME NEW g PROVE Round(g) = SumRound(f, part, g)
  <2>1. \A t \in SUBSET part : t # {} => f[Taken(t)] = (CHOOSE e \in t : TRUE).amount
    BY TakenIsElement DEF Taken
  <2>2. QED
    BY <2>1 DEF SumRound, Taken
<1>3. (\E g : g = Round(g)) => r = Round(r)
  OBVIOUS
<1> HIDE DEF Round, r
<1>4. (\E g : g = SumRound(f, part, g)) => r = SumRound(f, part, r)
  BY <1>2, <1>3
<1>5. QED
  BY <1>1, <1>4, SumOfFold

\* The fold over operations is the sum of what each moves.
LEMMA AccountSumIs ==
  ASSUME NEW entries, NEW S, NEW a, NEW f,
         Summable(f, S), \A o \in S : f[o] = EntrySum(entries[o], a)
  PROVE  AccountSum(entries, S, a) = SumOver(f, S)
<1> DEFINE Round(g) ==
             [t \in SUBSET S |->
                IF t = {} THEN 0 ELSE EntrySum(entries[CHOOSE o \in t : TRUE], a)
                                      + g[t \ {CHOOSE o \in t : TRUE}]]
           r == CHOOSE g : g = Round(g)
<1>1. AccountSum(entries, S, a) = r[S]
  BY DEF AccountSum, MapThenSumSet, MapThenFoldSet
<1>2. ASSUME NEW g PROVE Round(g) = SumRound(f, S, g)
  <2>1. \A t \in SUBSET S : t # {} => f[Taken(t)] = EntrySum(entries[CHOOSE o \in t : TRUE], a)
    BY TakenIsElement DEF Taken
  <2>2. QED
    BY <2>1 DEF SumRound, Taken
<1>3. (\E g : g = Round(g)) => r = Round(r)
  OBVIOUS
<1> HIDE DEF Round, r
<1>4. (\E g : g = SumRound(f, S, g)) => r = SumRound(f, S, r)
  BY <1>2, <1>3
<1>5. QED
  BY <1>1, <1>4, SumOfFold

\* The fold over payments is the sum of what each repaid.
LEMMA PaidSumIs ==
  ASSUME NEW principal, NEW entries, NEW S, NEW d, NEW f, Summable(f, S),
         \A p \in S : f[p] = Magnitude(EntrySum(entries[principal[p]], d))
  PROVE  PaidSum(principal, entries, S, d) = SumOver(f, S)
<1> DEFINE Round(g) ==
             [t \in SUBSET S |->
                IF t = {} THEN 0
                ELSE Magnitude(EntrySum(entries[principal[CHOOSE p \in t : TRUE]], d))
                     + g[t \ {CHOOSE p \in t : TRUE}]]
           r == CHOOSE g : g = Round(g)
<1>1. PaidSum(principal, entries, S, d) = r[S]
  BY DEF PaidSum, MapThenSumSet, MapThenFoldSet
<1>2. ASSUME NEW g PROVE Round(g) = SumRound(f, S, g)
  <2>1. \A t \in SUBSET S : t # {} =>
          f[Taken(t)] = Magnitude(EntrySum(entries[principal[CHOOSE p \in t : TRUE]], d))
    BY TakenIsElement DEF Taken
  <2>2. QED
    BY <2>1 DEF SumRound, Taken
<1>3. (\E g : g = Round(g)) => r = Round(r)
  OBVIOUS
<1> HIDE DEF Round, r
<1>4. (\E g : g = SumRound(f, S, g)) => r = SumRound(f, S, r)
  BY <1>2, <1>3
<1>5. QED
  BY <1>1, <1>4, SumOfFold

-----------------------------------------------------------------------------
(* What operations move.                                                   *)

\* Two sums agree when they have the same terms but for zeros.
LEMMA SumChange ==
  ASSUME NEW S, NEW T, NEW f, NEW g, Summable(f, S), Summable(g, T),
         \A x \in S \cap T : f[x] = g[x],
         \A x \in S \ T : f[x] = 0, \A x \in T \ S : g[x] = 0
  PROVE  SumOver(f, S) = SumOver(g, T)
<1> DEFINE both == S \cap T
<1>1. both \in SUBSET S /\ both \in SUBSET T
  OBVIOUS
<1>2. (\A x \in S \ both : f[x] = 0) /\ (\A x \in T \ both : g[x] = 0)
  OBVIOUS
<1>3. Summable(f, both)
  BY FS_Subset DEF Summable
<1>4. \A x \in both : f[x] = g[x]
  OBVIOUS
<1> HIDE DEF both
<1>5. SumOver(f, S) = SumOver(f, both) /\ SumOver(g, T) = SumOver(g, both)
  BY <1>1, <1>2, SumSubset
<1>6. SumOver(f, both) = SumOver(g, both)
  BY <1>3, <1>4, SumEqual
<1>7. QED
  BY <1>5, <1>6

\* An operation has one entry on an account at most, and moves its amount.
LEMMA EntrySumValue ==
  ASSUME NEW entries \in SUBSET MoneyEntry, NEW type, Fits(type, entries), NEW a
  PROVE  /\ EntrySum(entries, a) \in Int
         /\ \A e \in entries : e.account = a => EntrySum(entries, a) = e.amount
         /\ (\A e \in entries : e.account # a) => EntrySum(entries, a) = 0
<1> DEFINE part == {e \in entries : e.account = a}
           f == [e \in part |-> e.amount]
<1>1. \A e, x \in part : e = x
  BY DEF Fits, TransferShape, IncomeExpenseShape
<1>2. \A e \in part : e.amount \in Int
  BY DEF MoneyEntry
<1>3. CASE part = {}
  <2>1. Summable(f, part)
    BY <1>3, FS_EmptySet DEF Summable
  <2>2. EntrySum(entries, a) = SumOver(f, part)
    BY <2>1, EntrySumIs
  <2>3. EntrySum(entries, a) = 0
    BY <1>3, <2>2, SumEmpty
  <2>4. QED
    BY <1>3, <2>3
<1>4. CASE part # {}
  <2>1. PICK x : x \in part
    BY <1>4
  <2>2. part = {x}
    BY <1>1, <2>1
  <2>3. Summable(f, part) /\ f[x] = x.amount /\ f[x] \in Int
    BY <1>2, <2>1, <2>2, FS_Singleton DEF Summable
  <2>4. EntrySum(entries, a) = SumOver(f, part)
    BY <2>3, EntrySumIs
  <2> HIDE DEF f, part
  <2>5. SumOver(f, {x}) = x.amount
    BY <2>3, SumSingle
  <2>6. EntrySum(entries, a) = x.amount
    BY <2>2, <2>4, <2>5
  <2>7. QED
    BY <1>1, <2>1, <2>2, <2>3, <2>6 DEF part
<1>5. QED
  BY <1>3, <1>4

\* An income or expense posting has one entry, signed as its type says.
LEMMA IncomeExpenseFits ==
  ASSUME NEW type \in {"income", "expense"}, NEW account \in Account,
         NEW amount \in ManualAmount
  PROVE  /\ Fits(type, IncomeExpenseEntries(type, account, amount))
         /\ \A e \in IncomeExpenseEntries(type, account, amount) : e.account = account
<1>1. amount \in Nat /\ amount > 0
  BY ManualAmountsPositive
<1> DEFINE e == Entry(account, IF type = "income" THEN amount ELSE -amount)
<1>2. e.account = account /\ (IF type = "income" THEN e.amount > 0 ELSE e.amount < 0)
  BY <1>1 DEF Entry
<1>3. IncomeExpenseEntries(type, account, amount) = {e}
  BY DEF IncomeExpenseEntries
<1> HIDE DEF e
<1>4. QED
  BY <1>2, <1>3 DEF Fits, IncomeExpenseShape

\* A transfer's entries have two accounts of one currency and sum to zero.
LEMMA TransferFits ==
  ASSUME NEW from \in Account, NEW to \in Account, from # to, SameCurrency(from, to),
         NEW amount \in ManualAmount
  PROVE  /\ Fits("transfer", TransferEntries(from, to, amount))
         /\ \A e \in TransferEntries(from, to, amount) : e.account \in {from, to}
<1>1. amount \in Nat
  BY ManualAmountsPositive
<1> DEFINE e == Entry(from, -amount)
           f == Entry(to, amount)
<1>2. e.account = from /\ f.account = to /\ e.amount + f.amount = 0
  BY <1>1 DEF Entry
<1>3. TransferEntries(from, to, amount) = {e, f}
  BY DEF TransferEntries
<1> HIDE DEF e, f
<1>4. QED
  BY <1>2, <1>3 DEF Fits, TransferShape

\* What a transfer between an ordinary account and a debt moves on the debt.
LEMMA SettlementMoves ==
  ASSUME NEW d \in DebtAccount, NEW account \in Account, Settles(account, d),
         NEW amount \in ManualAmount
  PROVE  /\ \A entries \in {LendEntries(d, account, amount), RepayEntries(d, account, amount)} :
              /\ entries \in SUBSET MoneyEntry
              /\ Fits("transfer", entries)
              /\ \A e \in entries : e.account \in DebtAccount => e.account = d
         /\ EntrySum(LendEntries(d, account, amount), d) =
              IF Receivable(d) THEN amount ELSE -amount
         /\ EntrySum(RepayEntries(d, account, amount), d) =
              IF Receivable(d) THEN -amount ELSE amount
<1>1. /\ d \in Account /\ account # d /\ CurrencyOf[account] = CurrencyOf[d]
      /\ account \notin DebtAccount /\ amount \in Int /\ -amount \in Int
  BY DebtAccountsAreAccounts, ManualAmountsPositive DEF Settles, SameCurrency
<1> DEFINE to == TransferEntries(account, d, amount)
           fro == TransferEntries(d, account, amount)
<1>2. /\ to = {Entry(account, -amount), Entry(d, amount)}
      /\ fro = {Entry(d, -amount), Entry(account, amount)}
  BY DEF TransferEntries
<1>3. /\ \A n \in Int : Entry(d, n) \in MoneyEntry /\ Entry(account, n) \in MoneyEntry
      /\ \A n : /\ Entry(d, n).account = d /\ Entry(d, n).amount = n
                /\ Entry(account, n).account = account /\ Entry(account, n).amount = n
  BY <1>1 DEF Entry, MoneyEntry
<1> HIDE DEF to, fro
<1>4. ASSUME NEW entries \in {to, fro}
      PROVE  /\ entries \in SUBSET MoneyEntry
             /\ Fits("transfer", entries)
             /\ \A e \in entries : e.account \in DebtAccount => e.account = d
  <2>1. entries \in SUBSET MoneyEntry
    BY <1>1, <1>2, <1>3
  <2>2. \A e \in entries : e.account \in DebtAccount => e.account = d
    BY <1>1, <1>2, <1>3
  <2>3. Fits("transfer", entries)
    <3>1. SameCurrency(account, d) /\ SameCurrency(d, account)
      BY <1>1 DEF SameCurrency
    <3>2. Fits("transfer", TransferEntries(account, d, amount))
      BY <1>1, <3>1, TransferFits
    <3>3. Fits("transfer", TransferEntries(d, account, amount))
      BY <1>1, <3>1, TransferFits
    <3>4. QED
      BY <3>2, <3>3 DEF to, fro
  <2>4. QED
    BY <2>1, <2>2, <2>3
<1>5. EntrySum(to, d) = amount /\ EntrySum(fro, d) = -amount
  <2>1. Entry(d, amount) \in to /\ Entry(d, -amount) \in fro
    BY <1>2
  <2>2. /\ \A e \in to : e.account = d => EntrySum(to, d) = e.amount
        /\ \A e \in fro : e.account = d => EntrySum(fro, d) = e.amount
    BY <1>4, EntrySumValue
  <2>3. QED
    BY <1>3, <2>1, <2>2
<1>6. /\ LendEntries(d, account, amount) = IF Receivable(d) THEN to ELSE fro
      /\ RepayEntries(d, account, amount) = IF Receivable(d) THEN fro ELSE to
  BY DEF LendEntries, RepayEntries, to, fro
<1>7. QED
  BY <1>4, <1>5, <1>6

-----------------------------------------------------------------------------
(* What is owed, and how it changes.                                       *)

\* What is owed, as sums that the steps can be followed in.
Moved(d) == [o \in Operation |-> EntrySum(opEntries[o], d)]
Repaid(d) == [p \in Payment |-> Magnitude(EntrySum(opEntries[payPrincipal[p]], d))]

\* What it takes to follow them.
Ground == TypeOK /\ OperationsSound /\ FinitelyMany /\ PaymentsWhole

SumsFollowed(d) ==
  /\ Summable(Moved(d), Confirmed)
  /\ Balance(d) = initialBalance[d] + SumOver(Moved(d), Confirmed)
  /\ Summable(Repaid(d), PaidBy(d))
  /\ PaidPrincipal(d) = SumOver(Repaid(d), PaidBy(d))

\* The two sums of a debt.
LEMMA SumsOfDebt == Ground => \A d \in DebtAccount : SumsFollowed(d)
<1> SUFFICES ASSUME TypeOK, OperationsSound, FinitelyMany, PaymentsWhole, NEW d
             PROVE  SumsFollowed(d)
  BY DEF Ground
<1>1. ASSUME NEW o \in Operation, Recorded(o) PROVE EntrySum(opEntries[o], d) \in Int
  <2>1. Fits(opType[o], opEntries[o]) /\ opEntries[o] \in SUBSET MoneyEntry
    BY <1>1 DEF OperationsSound, Sound, TypeOK, LedgerTypeOK
  <2>2. QED
    BY <2>1, EntrySumValue
<1>2. /\ Summable(Moved(d), Confirmed)
      /\ \A o \in Confirmed : Moved(d)[o] = EntrySum(opEntries[o], d)
  BY <1>1 DEF Summable, Moved, Confirmed, Recorded, FinitelyMany
<1>3. AccountSum(opEntries, Confirmed, d) = SumOver(Moved(d), Confirmed)
  <2> DEFINE f == Moved(d)
  <2>1. Summable(f, Confirmed) /\ \A o \in Confirmed : f[o] = EntrySum(opEntries[o], d)
    BY <1>2
  <2> HIDE DEF f
  <2>2. AccountSum(opEntries, Confirmed, d) = SumOver(f, Confirmed)
    BY <2>1, AccountSumIs
  <2>3. QED
    BY <2>2 DEF f
<1>4. /\ Summable(Repaid(d), PaidBy(d))
      /\ \A p \in PaidBy(d) : Repaid(d)[p] = Magnitude(EntrySum(opEntries[payPrincipal[p]], d))
  <2>1. IsFiniteSet(PaidBy(d)) /\ PaidBy(d) \subseteq Payment
    <3>1. PaidBy(d) \in SUBSET RecordedPayments
      BY DEF PaidBy, Payments, RecordedPayments
    <3>2. QED
      BY <3>1, FS_Subset DEF FinitelyMany, RecordedPayments
  <2>2. ASSUME NEW p \in PaidBy(d) PROVE EntrySum(opEntries[payPrincipal[p]], d) \in Int
    <3>1. /\ p \in Payment /\ payState[p] = "recorded" /\ payPrincipal[p] # NoOperation
      BY DEF PaidBy, Payments
    <3>2. payPrincipal[p] \in Operation /\ opStatus[payPrincipal[p]] = "confirmed"
      BY <3>1 DEF PaymentsWhole, PaymentOperations, TypeOK
    <3>3. QED
      BY <1>1, <3>2 DEF Recorded
  <2>3. \A n \in Int : Magnitude(n) \in Int
    BY DEF Magnitude
  <2>4. QED
    BY <2>1, <2>2, <2>3 DEF Summable, Repaid
<1>5. PaidSum(payPrincipal, opEntries, PaidBy(d), d) = SumOver(Repaid(d), PaidBy(d))
  <2> DEFINE f == Repaid(d)
  <2>1. /\ Summable(f, PaidBy(d))
        /\ \A p \in PaidBy(d) : f[p] = Magnitude(EntrySum(opEntries[payPrincipal[p]], d))
    BY <1>4
  <2> HIDE DEF f
  <2>2. PaidSum(payPrincipal, opEntries, PaidBy(d), d) = SumOver(f, PaidBy(d))
    BY <2>1, PaidSumIs
  <2>3. QED
    BY <2>2 DEF f
<1>6. QED
  BY <1>2, <1>3, <1>4, <1>5, BalanceUnfolded, PaidPrincipalUnfolded DEF SumsFollowed

\* What x adds to the sum of f over S.
Term(f, S, x) == IF x \in S THEN f[x] ELSE 0

\* When only the term of x changes, the sum changes by as much.
LEMMA SumChangeAt ==
  ASSUME NEW S, NEW T, NEW f, NEW g, NEW x, Summable(f, S), Summable(g, T),
         \A y \in (S \cup T) \ {x} : Term(g, T, y) = Term(f, S, y)
  PROVE  /\ SumOver(g, T) - Term(g, T, x) = SumOver(f, S) - Term(f, S, x)
         /\ SumOver(g, T) \in Int /\ SumOver(f, S) \in Int
         /\ Term(g, T, x) \in Int /\ Term(f, S, x) \in Int
<1>1. ASSUME NEW U, NEW h, Summable(h, U)
      PROVE  /\ SumOver(h, U) = Term(h, U, x) + SumOver(h, U \ {x})
             /\ Summable(h, U \ {x}) /\ SumOver(h, U \ {x}) \in Int /\ SumOver(h, U) \in Int
             /\ Term(h, U, x) \in Int
  <2>1. Summable(h, U \ {x})
    BY <1>1, FS_Subset DEF Summable
  <2>2. SumOver(h, U) \in Int /\ SumOver(h, U \ {x}) \in Int
    BY <1>1, <2>1, SumType
  <2>3. CASE x \in U
    <3>1. SumOver(h, U) = h[x] + SumOver(h, U \ {x})
      BY <1>1, <2>3, SumRemove
    <3>2. Term(h, U, x) = h[x] /\ h[x] \in Int
      BY <1>1, <2>3 DEF Term, Summable
    <3>3. QED
      BY <2>1, <2>2, <3>1, <3>2, Zenon
  <2>4. CASE x \notin U
    <3>1. U \ {x} = U
      BY <2>4
    <3>2. Term(h, U, x) = 0 /\ 0 \in Int
      BY <2>4 DEF Term
    <3>3. \A n \in Int : n = 0 + n
      OBVIOUS
    <3>4. QED
      BY <2>1, <2>2, <3>1, <3>2, <3>3, Zenon
  <2>5. QED
    BY <2>3, <2>4
<1> DEFINE A == S \ {x}
           B == T \ {x}
<1>2. /\ \A y \in A \cap B : f[y] = g[y]
      /\ \A y \in A \ B : f[y] = 0
      /\ \A y \in B \ A : g[y] = 0
  BY DEF Term
<1>3. Summable(f, A) /\ Summable(g, B)
  BY <1>1
<1>4. SumOver(f, A) = SumOver(g, B)
  <2> HIDE DEF A, B
  <2>1. QED
    BY <1>2, <1>3, SumChange
<1>5. QED
  BY <1>1, <1>4

\* A sum of zeros.
LEMMA SumZero ==
  ASSUME NEW S, NEW f, Summable(f, S), \A x \in S : f[x] = 0
  PROVE  SumOver(f, S) = 0
<1>1. {} \in SUBSET S /\ \A x \in S \ {} : f[x] = 0
  OBVIOUS
<1>2. SumOver(f, S) = SumOver(f, {})
  BY <1>1, SumSubset
<1>3. QED
  BY <1>2, SumEmpty

\* What is owed on a debt, whichever its side.
Owed(d) ==
  LET balance == initialBalance[d] + SumOver(Moved(d), Confirmed)
  IN IF Receivable(d) THEN balance ELSE -balance

\* LoanBalanceExplained of one debt, in terms of the sums, for both sides.
LEMMA ExplainedIs ==
  Ground => \A d \in DebtAccount :
    /\ Owed(d) \in Int
    /\ Explained(d) <=> /\ Owed(d) >= 0
                        /\ Owed(d) = lent[d] + Magnitude(initialBalance[d])
                                     - SumOver(Repaid(d), PaidBy(d))
    /\ Explained(d) => Outstanding(d) = Owed(d)
<1> SUFFICES ASSUME Ground, NEW d \in DebtAccount
             PROVE  /\ Owed(d) \in Int
                    /\ Explained(d) <=> /\ Owed(d) >= 0
                                        /\ Owed(d) = lent[d] + Magnitude(initialBalance[d])
                                                     - SumOver(Repaid(d), PaidBy(d))
                    /\ Explained(d) => Outstanding(d) = Owed(d)
  OBVIOUS
<1>1. SumsFollowed(d)
  BY SumsOfDebt
<1>2. /\ SumOver(Moved(d), Confirmed) \in Int /\ SumOver(Repaid(d), PaidBy(d)) \in Int
      /\ initialBalance[d] \in Int /\ lent[d] \in Int
  BY <1>1, SumType DEF SumsFollowed, Ground, TypeOK
<1> DEFINE balance == initialBalance[d] + SumOver(Moved(d), Confirmed)
<1>3. Balance(d) = balance /\ PaidPrincipal(d) = SumOver(Repaid(d), PaidBy(d))
  BY <1>1 DEF SumsFollowed
<1>4. balance \in Int
  BY <1>2
<1> HIDE DEF balance
<1>5. /\ Owed(d) = IF Receivable(d) THEN balance ELSE -balance
      /\ SignKept(d) <=> IF Receivable(d) THEN balance >= 0 ELSE balance <= 0
      /\ Outstanding(d) = IF balance < 0 THEN -balance ELSE balance
  BY <1>3 DEF Owed, balance, SignKept, Outstanding, Magnitude
<1>6. Magnitude(initialBalance[d]) \in Int
  BY <1>2 DEF Magnitude
<1>7. QED
  BY <1>2, <1>3, <1>4, <1>5, <1>6 DEF Explained

\* What an operation moves on a debt now, and what a payment has repaid of it.
MoveOf(d, o) == IF o \in Confirmed THEN EntrySum(opEntries[o], d) ELSE 0
PaidOf(d, p) == IF p \in PaidBy(d) THEN Magnitude(EntrySum(opEntries[payPrincipal[p]], d))
                                   ELSE 0

\* They are the terms of the two sums.
LEMMA TermsAre ==
  \A d, x : /\ Term(Moved(d), Confirmed, x) = MoveOf(d, x)
            /\ Term(Repaid(d), PaidBy(d), x) = PaidOf(d, x)
BY DEF Term, Moved, Repaid, Confirmed, PaidBy, Payments, MoveOf, PaidOf

\* The same of the state after a step.
LEMMA SumsOfDebtAfter == (Ground => \A d \in DebtAccount : SumsFollowed(d))'
BY SumsOfDebt, PTL

\* And of the state after a step.
LEMMA ExplainedIsAfter ==
  (Ground => \A d \in DebtAccount :
    /\ Owed(d) \in Int
    /\ Explained(d) <=> /\ Owed(d) >= 0
                        /\ Owed(d) = lent[d] + Magnitude(initialBalance[d])
                                     - SumOver(Repaid(d), PaidBy(d))
    /\ Explained(d) => Outstanding(d) = Owed(d))'
BY ExplainedIs, PTL

\* When a step moves money on a debt by one operation only, and settles by one payment
\* as much, the debt stays explained.
LEMMA LoanStep ==
  ASSUME Ground, Ground', NEW d \in DebtAccount, Explained(d),
         initialBalance'[d] = initialBalance[d], lent'[d] = lent[d],
         NEW x, \A y : y # x => MoveOf(d, y)' = MoveOf(d, y),
         NEW q, \A y : y # q => PaidOf(d, y)' = PaidOf(d, y),
         NEW repaid \in Int, repaid <= Owed(d),
         PaidOf(d, q)' = PaidOf(d, q) + repaid,
         MoveOf(d, x)' = MoveOf(d, x) + (IF Receivable(d) THEN -repaid ELSE repaid)
  PROVE  Explained(d)'
<1> DEFINE A == Confirmed
           B == Confirmed'
           f == Moved(d)
           g == Moved(d)'
           C == PaidBy(d)
           D == PaidBy(d)'
           h == Repaid(d)
           k == Repaid(d)'
<1>1. Summable(f, A) /\ Summable(h, C)
  BY SumsOfDebt DEF SumsFollowed
<1>2. Summable(g, B) /\ Summable(k, D)
  <2>1. SumsFollowed(d)'
    BY SumsOfDebtAfter
  <2>2. QED
    BY <2>1 DEF SumsFollowed
<1>3. \A y : /\ Term(f, A, y) = MoveOf(d, y)
             /\ Term(h, C, y) = PaidOf(d, y)
  BY TermsAre
<1>4. \A y : /\ Term(g, B, y) = MoveOf(d, y)'
             /\ Term(k, D, y) = PaidOf(d, y)'
  BY DEF Term, Moved, Repaid, Confirmed, PaidBy, Payments, MoveOf, PaidOf
<1>5. /\ Owed(d) \in Int
      /\ Owed(d) >= 0
      /\ Owed(d) = lent[d] + Magnitude(initialBalance[d]) - SumOver(h, C)
  BY ExplainedIs
<1>6. /\ Owed(d)' >= 0
      /\ Owed(d)' = lent'[d] + Magnitude(initialBalance'[d]) - SumOver(k, D)
      => Explained(d)'
  BY ExplainedIsAfter DEF Magnitude
<1>7. /\ Owed(d) = IF Receivable(d) THEN initialBalance[d] + SumOver(f, A)
                                    ELSE -(initialBalance[d] + SumOver(f, A))
      /\ Owed(d)' = IF Receivable(d) THEN initialBalance'[d] + SumOver(g, B)
                                     ELSE -(initialBalance'[d] + SumOver(g, B))
  BY DEF Owed, Receivable
<1> HIDE DEF A, B, C, D, f, g, h, k
<1>8. /\ \A y \in (A \cup B) \ {x} : Term(g, B, y) = Term(f, A, y)
      /\ \A y \in (C \cup D) \ {q} : Term(k, D, y) = Term(h, C, y)
  BY <1>3, <1>4
<1>9. /\ SumOver(g, B) - Term(g, B, x) = SumOver(f, A) - Term(f, A, x)
      /\ SumOver(g, B) \in Int /\ SumOver(f, A) \in Int
      /\ Term(g, B, x) \in Int /\ Term(f, A, x) \in Int
  BY <1>1, <1>2, <1>8, SumChangeAt
<1>10. /\ SumOver(k, D) - Term(k, D, q) = SumOver(h, C) - Term(h, C, q)
       /\ SumOver(k, D) \in Int /\ SumOver(h, C) \in Int
       /\ Term(k, D, q) \in Int /\ Term(h, C, q) \in Int
  BY <1>1, <1>2, <1>8, SumChangeAt
<1>11. initialBalance[d] \in Int /\ lent[d] \in Int /\ Magnitude(initialBalance[d]) \in Int
  BY DEF Ground, TypeOK, Magnitude
<1>12. SumOver(g, B) = SumOver(f, A) + (IF Receivable(d) THEN -repaid ELSE repaid)
  <2>1. Term(g, B, x) = Term(f, A, x) + (IF Receivable(d) THEN -repaid ELSE repaid)
    BY <1>3, <1>4
  <2>2. (IF Receivable(d) THEN -repaid ELSE repaid) \in Int
    OBVIOUS
  <2> HIDE DEF Receivable
  <2>3. QED
    BY <1>9, <2>1, <2>2
<1>13. SumOver(k, D) = SumOver(h, C) + repaid
  BY <1>3, <1>4, <1>10
<1>14. Owed(d)' = Owed(d) - repaid
  BY <1>7, <1>9, <1>11, <1>12
<1>15. QED
  BY <1>5, <1>6, <1>10, <1>11, <1>13, <1>14

\* What a new debt begins with is what is owed on it.
LEMMA NewLoan ==
  ASSUME Ground', NEW d \in DebtAccount, PaidBy(d)' = {}, NEW owed \in Nat,
         NEW x, \A y : y # x => MoveOf(d, y)' = 0, MoveOf(d, x)' \in Int,
         initialBalance'[d] + MoveOf(d, x)' = IF Receivable(d) THEN owed ELSE -owed,
         lent'[d] + Magnitude(initialBalance'[d]) = owed
  PROVE  Explained(d)'
<1> DEFINE B == Confirmed'
           g == Moved(d)'
           k == Repaid(d)'
<1>1. Summable(g, B)
  <2>1. SumsFollowed(d)'
    BY SumsOfDebtAfter
  <2>2. QED
    BY <2>1 DEF SumsFollowed
<1>2. \A y : Term(g, B, y) = MoveOf(d, y)'
  BY DEF Term, Moved, Confirmed, MoveOf
<1>3. /\ Owed(d)' >= 0
      /\ Owed(d)' = owed - SumOver(k, {})
      => Explained(d)'
  <2> DEFINE m == Magnitude(initialBalance[d])
             paid == PaidBy(d)'
  <2>1. Owed(d)' >= 0 /\ Owed(d)' = lent'[d] + m' - SumOver(k, paid) => Explained(d)'
    BY ExplainedIsAfter
  <2>2. m' = Magnitude(initialBalance'[d])
    BY DEF Magnitude
  <2>3. paid = {}
    OBVIOUS
  <2> HIDE DEF m, paid, k
  <2>4. lent'[d] + m' = owed
    BY <2>2
  <2>5. SumOver(k, paid) = 0
    BY <2>3, SumEmpty
  <2>6. lent'[d] \in Int /\ m' \in Int
    BY DEF m, Ground, TypeOK, Magnitude
  <2>7. lent'[d] + m' - SumOver(k, paid) = owed - SumOver(k, {})
    BY <2>3, <2>4, <2>5, <2>6
  <2>8. QED
    BY <2>1, <2>7, Zenon
<1>4. Owed(d)' = IF Receivable(d) THEN initialBalance'[d] + SumOver(g, B)
                                  ELSE -(initialBalance'[d] + SumOver(g, B))
  BY DEF Owed, Receivable
<1> HIDE DEF B, g, k
<1>5. Summable(g, {})
  BY FS_EmptySet DEF Summable
<1>6. \A y : Term(g, {}, y) = 0
  BY DEF Term
<1>7. \A y \in ({} \cup B) \ {x} : Term(g, B, y) = Term(g, {}, y)
  BY <1>2, <1>6
<1>8. SumOver(g, B) - Term(g, B, x) = SumOver(g, {}) - Term(g, {}, x) /\ SumOver(g, B) \in Int
  BY <1>1, <1>5, <1>7, SumChangeAt
<1>9. SumOver(g, {}) = 0 /\ SumOver(k, {}) = 0
  BY SumEmpty
<1>10. SumOver(g, B) = MoveOf(d, x)'
  <2>1. Term(g, B, x) = MoveOf(d, x)' /\ Term(g, {}, x) = 0
    BY <1>2, <1>6
  <2>2. Term(g, B, x) \in Int /\ SumOver(g, B) - Term(g, B, x) = 0
    BY <1>8, <1>9, <2>1
  <2>3. SumOver(g, B) = Term(g, B, x)
    BY <1>8, <2>2
  <2>4. QED
    BY <2>1, <2>3
<1>11. Owed(d)' = owed
  <2>1. initialBalance'[d] + SumOver(g, B) = IF Receivable(d) THEN owed ELSE -owed
    BY <1>10
  <2> DEFINE balance == initialBalance'[d] + SumOver(g, B)
  <2>2. Owed(d)' = IF Receivable(d) THEN balance ELSE -balance
    BY <1>4
  <2>3. balance = IF Receivable(d) THEN owed ELSE -owed
    BY <2>1
  <2> HIDE DEF balance
  <2>4. QED
    BY <2>2, <2>3
<1>12. owed - SumOver(k, {}) = owed /\ owed >= 0
  BY <1>9
<1>13. QED
  BY <1>3, <1>11, <1>12

-----------------------------------------------------------------------------
(* What a step leaves alone.                                               *)

\* Entries on other accounts move nothing.
LEMMA MovesNothing ==
  ASSUME NEW entries, NEW a, \A e \in entries : e.account # a
  PROVE  EntrySum(entries, a) = 0
<1> DEFINE part == {e \in entries : e.account = a}
           f == [e \in part |-> e.amount]
<1>1. part = {}
  OBVIOUS
<1>2. Summable(f, part) /\ \A e \in part : f[e] = e.amount
  BY <1>1, FS_EmptySet DEF Summable
<1> HIDE DEF f
<1>3. EntrySum(entries, a) = SumOver(f, part)
  BY <1>2, EntrySumIs
<1>4. QED
  BY <1>1, <1>3, SumEmpty

\* The ledger columns of an operation that a debt's sums read.
SameOperation(o) == /\ opStatus'[o] = opStatus[o] /\ opSource'[o] = opSource[o]
                    /\ opType'[o] = opType[o] /\ opEntries'[o] = opEntries[o]

\* An operation that stays what it is moves what it moved.
LEMMA MoveKept ==
  ASSUME NEW o, o \in Operation => SameOperation(o)
  PROVE  \A d : MoveOf(d, o)' = MoveOf(d, o)
BY DEF MoveOf, Confirmed, SameOperation

\* An operation that has no entry on a debt, before a step and after, moves
\* nothing on it.
LEMMA MoveNone ==
  ASSUME NEW d, NEW o,
         opStatus[o] = "confirmed" => \A e \in opEntries[o] : e.account # d,
         opStatus'[o] = "confirmed" => \A e \in opEntries'[o] : e.account # d
  PROVE  MoveOf(d, o)' = MoveOf(d, o) /\ MoveOf(d, o) = 0 /\ MoveOf(d, o)' = 0
<1>1. MoveOf(d, o) = IF o \in Operation /\ opStatus[o] = "confirmed"
                     THEN EntrySum(opEntries[o], d) ELSE 0
  BY DEF MoveOf, Confirmed
<1>2. MoveOf(d, o)' = IF o \in Operation /\ opStatus'[o] = "confirmed"
                      THEN EntrySum(opEntries'[o], d) ELSE 0
  BY DEF MoveOf, Confirmed
<1>3. QED
  BY <1>1, <1>2, MovesNothing

\* What a payment repaid does not change while it and its operations do not.
LEMMA PaidKept ==
  ASSUME PaymentInv, NEW p,
         p \in Payment =>
           /\ payState'[p] = payState[p] /\ payDebt'[p] = payDebt[p]
           /\ payPrincipal'[p] = payPrincipal[p]
           /\ payPrincipal[p] # NoOperation =>
                opEntries'[payPrincipal[p]] = opEntries[payPrincipal[p]]
  PROVE  \A d : PaidOf(d, p)' = PaidOf(d, p)
<1> TAKE d
<1>1. p \in PaidBy(d)' <=> p \in PaidBy(d)
  BY DEF PaidBy, Payments
<1>2. p \in PaidBy(d) => /\ payPrincipal'[p] = payPrincipal[p]
                         /\ opEntries'[payPrincipal[p]] = opEntries[payPrincipal[p]]
  BY DEF PaidBy, Payments
<1>3. PaidOf(d, p)' = IF p \in PaidBy(d)'
                      THEN Magnitude(EntrySum(opEntries'[payPrincipal'[p]], d)) ELSE 0
  BY DEF PaidOf, Magnitude
<1>4. QED
  BY <1>1, <1>2, <1>3 DEF PaidOf

\* Each step adds two operations and one payment at most.
LEMMA FinitelyManyKept ==
  ASSUME FinitelyMany, NEW x, NEW y, NEW p,
         \A o \in Operation \ {x, y} : opStatus'[o] = "confirmed" => opStatus[o] = "confirmed",
         \A q \in Payment \ {p} : payState'[q] = "recorded" => payState[q] = "recorded"
  PROVE  FinitelyMany'
<1>1. Confirmed' \in SUBSET ((Confirmed \cup {x}) \cup {y})
  BY DEF Confirmed
<1>2. RecordedPayments' \in SUBSET (RecordedPayments \cup {p})
  BY DEF RecordedPayments
<1>3. /\ IsFiniteSet((Confirmed \cup {x}) \cup {y})
      /\ IsFiniteSet(RecordedPayments \cup {p})
  BY FS_AddElement DEF FinitelyMany
<1>4. QED
  BY <1>1, <1>2, <1>3, FS_Subset DEF FinitelyMany

\* Operations stay sound that keep what they are.
LEMMA SoundKept ==
  ASSUME OperationsSound,
         \A o \in Operation : Recorded(o)' =>
           \/ /\ Recorded(o) /\ opSource'[o] = opSource[o]
              /\ opType'[o] = opType[o] /\ opEntries'[o] = opEntries[o]
           \/ Sound(o)'
  PROVE  OperationsSound'
<1> SUFFICES ASSUME NEW o \in Operation, Recorded(o)' PROVE Sound(o)'
  BY DEF OperationsSound
<1>1. CASE /\ Recorded(o) /\ opSource'[o] = opSource[o]
           /\ opType'[o] = opType[o] /\ opEntries'[o] = opEntries[o]
  <2>1. Sound(o)
    BY <1>1 DEF OperationsSound
  <2>2. QED
    BY <1>1, <2>1 DEF Sound, Fits
<1>2. QED
  BY <1>1

\* Payments keep what their operations moved.
LEMMA PrincipalsKept ==
  ASSUME PrincipalsRepay, UNCHANGED <<payDebt, payPrincipal, payInterest>>,
         \A p \in Payment : payState'[p] # "none" => payState[p] # "none",
         \A p \in Payment : \A o \in PaymentOperations(p) : opEntries'[o] = opEntries[o]
  PROVE  PrincipalsRepay'
BY DEF PrincipalsRepay, PaymentOperations

-----------------------------------------------------------------------------
(* The loans, command by command.                                          *)

\* A manual command changes one operation, which is no debt's before or after.
ManualChange(x) ==
  /\ \A o \in Operation \ {x} : SameOperation(o)
  /\ opSource'[x] = "manual"
  /\ opStatus[x] = "unused" \/ opSource[x] = "manual"
  /\ Recorded(x)' =>
       \/ /\ Recorded(x) /\ opSource'[x] = opSource[x]
          /\ opType'[x] = opType[x] /\ opEntries'[x] = opEntries[x]
       \/ Sound(x)'

\* That is all a manual command does.
LEMMA ManualStepChanges ==
  ASSUME TypeOK, ManualStep
  PROVE  \E x \in Operation : ManualChange(x)
<1> USE DEF TypeOK, LedgerTypeOK, SameOperation, Recorded
<1>1. ASSUME NEW o \in Operation, NEW type \in {"income", "expense"},
             NEW account \in Account, NEW amount \in ManualAmount,
             IncomeExpenseAccount(account, type),
             \/ \E key \in Key \cup {NoKey} :
                  CreateIncomeExpense(o, type, account, amount, key)
             \/ UpdateAsIncomeExpense(o, type, account, amount)
      PROVE  ManualChange(o)
  <2> DEFINE entries == IncomeExpenseEntries(type, account, amount)
  <2>1. Fits(type, entries) /\ \A e \in entries : e.account = account
    BY IncomeExpenseFits
  <2>2. account \notin Loan
    BY <1>1 DEF IncomeExpenseAccount, Loan
  <2> HIDE DEF entries
  <2>3. opType'[o] = type /\ opEntries'[o] = entries => Sound(o)'
    BY <2>1, <2>2 DEF Sound, Fits
  <2>4. CASE \E key \in Key \cup {NoKey} :
               CreateIncomeExpense(o, type, account, amount, key)
    <3>1. PICK key \in Key \cup {NoKey} :
            Post(o, "manual", type, entries, key, ManualRequest)
      BY <2>4 DEF CreateIncomeExpense, entries
    <3>2. QED
      BY <2>3, <3>1 DEF Post, ManualChange
  <2>5. CASE UpdateAsIncomeExpense(o, type, account, amount)
    <3>1. Replace(o, type, entries)
      BY <2>5 DEF UpdateAsIncomeExpense, entries
    <3>2. QED
      BY <2>3, <3>1 DEF Replace, ManualChange
  <2>6. QED
    BY <1>1, <2>4, <2>5
<1>2. ASSUME NEW o \in Operation, NEW from \in Account \ DebtAccount,
             NEW to \in Account \ DebtAccount, NEW amount \in ManualAmount,
             \/ \E key \in Key \cup {NoKey} : CreateTransfer(o, from, to, amount, key)
             \/ UpdateAsTransfer(o, from, to, amount)
      PROVE  ManualChange(o)
  <2> DEFINE entries == TransferEntries(from, to, amount)
  <2>0. from # to /\ SameCurrency(from, to) /\ from \in Account /\ to \in Account
    BY <1>2 DEF CreateTransfer, UpdateAsTransfer
  <2>1. Fits("transfer", entries) /\ \A e \in entries : e.account \in {from, to}
    BY <2>0, TransferFits
  <2> HIDE DEF entries
  <2>2. \A e \in entries : e.account \notin DebtAccount /\ e.account \notin Loan
    BY <1>2, <2>1 DEF Loan
  <2>3. opType'[o] = "transfer" /\ opEntries'[o] = entries => Sound(o)'
    BY <2>1, <2>2 DEF Sound, Fits
  <2>4. CASE \E key \in Key \cup {NoKey} : CreateTransfer(o, from, to, amount, key)
    <3>1. PICK key \in Key \cup {NoKey} :
            Post(o, "manual", "transfer", entries, key, ManualRequest)
      BY <2>4 DEF CreateTransfer, entries
    <3>2. QED
      BY <2>3, <3>1 DEF Post, ManualChange
  <2>5. CASE UpdateAsTransfer(o, from, to, amount)
    <3>1. Replace(o, "transfer", entries)
      BY <2>5 DEF UpdateAsTransfer, entries
    <3>2. QED
      BY <2>3, <3>1 DEF Replace, ManualChange
  <2>6. QED
    BY <1>2, <2>4, <2>5
<1>3. ASSUME NEW o \in Operation, Cancel(o) \/ Restore(o) \/ Erase(o)
      PROVE  ManualChange(o)
  BY <1>3 DEF Cancel, Restore, Erase, ManualChange
<1>4. QED
  BY <1>1, <1>2, <1>3 DEF ManualStep

\* The sums may be followed over a step that keeps the rest of the invariant.
LEMMA GroundHolds ==
  /\ IInv => Ground
  /\ PaymentInv' /\ OperationsSound' /\ FinitelyMany' => Ground'
BY DEF IInv, PaymentInv, Ground

\* A loan no operation and no payment of which changes stays explained.
LEMMA LoanUntouched ==
  ASSUME Ground, Ground', NEW d \in DebtAccount, Explained(d),
         initialBalance'[d] = initialBalance[d], lent'[d] = lent[d],
         \A o : MoveOf(d, o)' = MoveOf(d, o), \A p : PaidOf(d, p)' = PaidOf(d, p)
  PROVE  Explained(d)'
<1>1. MoveOf(d, NoOperation) \in Int
  BY NoOperationIsNone DEF MoveOf, Confirmed
<1>2. PaidOf(d, NoOperation) \in Int
  <2>1. SumsFollowed(d)
    BY SumsOfDebt
  <2>2. CASE NoOperation \in PaidBy(d)
    <3>1. NoOperation \in Payment
      BY <2>2 DEF PaidBy, Payments
    <3>2. Repaid(d)[NoOperation] \in Int
      BY <2>1, <2>2 DEF SumsFollowed, Summable
    <3>3. QED
      BY <2>2, <3>1, <3>2 DEF PaidOf, Repaid
  <2>3. QED
    BY <2>2 DEF PaidOf
<1>3. Owed(d) \in Int /\ 0 <= Owed(d)
  BY ExplainedIs
<1>4. PaidOf(d, NoOperation)' = PaidOf(d, NoOperation) + 0
  BY <1>2
<1>5. MoveOf(d, NoOperation)' = MoveOf(d, NoOperation) + (IF Receivable(d) THEN -0 ELSE 0)
  BY <1>1
<1>6. QED
  BY <1>3, <1>4, <1>5, LoanStep

\* A manual command moves no loan.
LEMMA ManualMoney ==
  ASSUME IInv, PaymentInv', ManualStep
  PROVE  IInv'
<1>1. PICK x \in Operation : ManualChange(x)
  BY ManualStepChanges DEF IInv, PaymentInv
<1>2. UNCHANGED <<debtVars, paymentVars>>
  BY DEF ManualStep
<1>3. OperationsSound'
  BY <1>1, SoundKept DEF IInv, ManualChange, SameOperation, Recorded
<1>4. FinitelyMany'
  <2>1. FinitelyMany
    BY DEF IInv
  <2>2. \A o \in Operation \ {x, x} : opStatus'[o] = "confirmed" => opStatus[o] = "confirmed"
    BY <1>1 DEF ManualChange, SameOperation
  <2>3. \A q \in Payment \ {NoOperation} : payState'[q] = "recorded" => payState[q] = "recorded"
    BY <1>2 DEF paymentVars
  <2>4. QED
    BY <2>1, <2>2, <2>3, FinitelyManyKept
<1>5. \A p \in Payment : \A o \in PaymentOperations(p) :
        o \in Operation /\ o # x /\ opEntries'[o] = opEntries[o]
  BY <1>1, PaymentOperationsExist DEF IInv, ManualChange, SameOperation, Recorded
<1>6. PrincipalsRepay'
  BY <1>2, <1>5, PrincipalsKept DEF IInv, paymentVars
<1>7. Ground /\ Ground'
  BY <1>3, <1>4, GroundHolds
<1>8. LoanBalanceExplained'
  <2> SUFFICES ASSUME NEW d \in Loan, Standing(d)' PROVE Explained(d)'
    BY DEF LoanBalanceExplained
  <2>1. d \in DebtAccount /\ Standing(d)
    BY <1>2 DEF Loan, Standing, debtVars
  <2>2. Explained(d)
    BY <2>1 DEF IInv, LoanBalanceExplained
  <2>3. \A o : MoveOf(d, o)' = MoveOf(d, o)
    <3>1. \A o : o # x => MoveOf(d, o)' = MoveOf(d, o)
      BY <1>1, MoveKept DEF ManualChange
    <3>2. opStatus[x] = "confirmed" => \A e \in opEntries[x] : e.account # d
      BY <1>1 DEF ManualChange, IInv, OperationsSound, Sound, Recorded
    <3>3. opStatus'[x] = "confirmed" => \A e \in opEntries'[x] : e.account # d
      BY <1>1, <1>3 DEF ManualChange, OperationsSound, Sound, Recorded
    <3>4. MoveOf(d, x)' = MoveOf(d, x)
      BY <3>2, <3>3, MoveNone
    <3>5. QED
      BY <3>1, <3>4
  <2>4. \A p : PaidOf(d, p)' = PaidOf(d, p)
    BY <1>2, <1>5, PaidKept DEF IInv, paymentVars, PaymentOperations
  <2>5. QED
    BY <1>2, <1>7, <2>1, <2>2, <2>3, <2>4, LoanUntouched DEF debtVars
<1>9. QED
  BY <1>3, <1>4, <1>6, <1>8 DEF IInv

\* Nothing refers to a debt that does not stand.
LEMMA NothingOnDebt ==
  ASSUME PaymentInv, NEW d \in DebtAccount, ~Standing(d)
  PROVE  /\ PaidBy(d) = {}
         /\ \A o \in Operation : Recorded(o) => \A e \in opEntries[o] : e.account # d
         /\ \A o : MoveOf(d, o) = 0
<1>1. PaidBy(d) = {}
  BY DEF PaidBy, Payments, PaymentInv, DebtsStand
<1>2. \A o \in Operation : Recorded(o) => \A e \in opEntries[o] : e.account # d
  BY DEF PaymentInv, DebtsStand
<1>3. \A o : MoveOf(d, o) = 0
  BY <1>2, MovesNothing DEF MoveOf, Confirmed, Recorded
<1>4. QED
  BY <1>1, <1>2, <1>3

\* What a step leaves that changes neither the ledger nor a payment.
LEMMA MoneyUntouched ==
  ASSUME IInv, PaymentInv', UNCHANGED <<ledgerVars, paymentVars>>
  PROVE  /\ OperationsSound' /\ PrincipalsRepay' /\ FinitelyMany'
         /\ Ground /\ Ground'
         /\ \A d : PaidBy(d)' = PaidBy(d)
         /\ \A d, x : MoveOf(d, x)' = MoveOf(d, x) /\ PaidOf(d, x)' = PaidOf(d, x)
<1>1. /\ UNCHANGED <<opStatus, opSource, opType, opEntries>>
      /\ UNCHANGED <<payState, payDebt, payPrincipal, payInterest>>
  BY DEF ledgerVars, paymentVars
<1>2. OperationsSound'
  BY <1>1 DEF IInv, OperationsSound, Sound, Fits, Recorded
<1>3. PrincipalsRepay'
  BY <1>1 DEF IInv, PrincipalsRepay
<1>4. FinitelyMany'
  BY <1>1 DEF IInv, FinitelyMany, Confirmed, RecordedPayments
<1>5. \A d, x : MoveOf(d, x)' = MoveOf(d, x)
  BY <1>1, MoveKept DEF SameOperation
<1>6. \A d, x : PaidOf(d, x)' = PaidOf(d, x)
  BY <1>1, PaidKept DEF IInv
<1>7. \A d : PaidBy(d)' = PaidBy(d)
  BY <1>1 DEF PaidBy, Payments
<1>8. QED
  BY <1>2, <1>3, <1>4, <1>5, <1>6, <1>7, GroundHolds

\* A debt that exists already, or a card, comes without a posting.
LEMMA AddMoney ==
  ASSUME IInv, PaymentInv', NEW c \in DebtAccount,
         \/ \E balance \in ManualAmount : AddExistingDebt(c, balance)
         \/ \E opening \in ManualAmount \cup {0} : OpenCreditCard(c, opening)
  PROVE  IInv'
<1>1. /\ UNCHANGED <<ledgerVars, paymentVars>>
      /\ debtState[c] = "none" /\ debtState' = [debtState EXCEPT ![c] = "active"]
      /\ \E initial : initialBalance' = [initialBalance EXCEPT ![c] = initial]
      /\ lent' = [lent EXCEPT ![c] = 0]
  BY DEF AddExistingDebt, OpenCreditCard, Create
<1>2. /\ OperationsSound' /\ PrincipalsRepay' /\ FinitelyMany' /\ Ground /\ Ground'
      /\ \A d : PaidBy(d)' = PaidBy(d)
      /\ \A d, x : MoveOf(d, x)' = MoveOf(d, x) /\ PaidOf(d, x)' = PaidOf(d, x)
  BY <1>1, MoneyUntouched
<1>3. TypeOK
  BY DEF IInv, PaymentInv
<1>4. ASSUME NEW d \in Loan, Standing(d)', d # c PROVE Explained(d)'
  <2>1. d \in DebtAccount /\ Standing(d)
    BY <1>1, <1>3, <1>4 DEF Loan, Standing, TypeOK
  <2>2. initialBalance'[d] = initialBalance[d] /\ lent'[d] = lent[d]
    BY <1>1, <1>3, <1>4, <2>1 DEF TypeOK
  <2>3. Explained(d)
    BY <2>1, <1>4 DEF IInv, LoanBalanceExplained
  <2>4. QED
    BY <1>2, <2>1, <2>2, <2>3, LoanUntouched
<1>5. ASSUME c \in Loan PROVE Explained(c)'
  <2>1. PICK balance \in ManualAmount : AddExistingDebt(c, balance)
    BY <1>5 DEF Loan, OpenCreditCard
  <2>2. balance \in Nat /\ balance > 0
    BY ManualAmountsPositive
  <2>3. /\ initialBalance'[c] = IF Receivable(c) THEN balance ELSE -balance
        /\ lent'[c] = 0
    BY <1>3, <2>1 DEF AddExistingDebt, Create, TypeOK
  <2>4. ~Standing(c) /\ PaymentInv
    BY <1>1 DEF Standing, IInv
  <2>5. PaidBy(c)' = {} /\ \A x : MoveOf(c, x)' = 0
    BY <1>2, <2>4, NothingOnDebt
  <2>6. /\ initialBalance'[c] + MoveOf(c, NoOperation)'
             = IF Receivable(c) THEN balance ELSE -balance
        /\ MoveOf(c, NoOperation)' \in Int
    BY <2>2, <2>3, <2>5
  <2>7. lent'[c] + Magnitude(initialBalance'[c]) = balance
    BY <2>2, <2>3 DEF Magnitude
  <2>8. QED
    BY <1>2, <2>2, <2>5, <2>6, <2>7, NewLoan
<1>6. LoanBalanceExplained'
  BY <1>4, <1>5 DEF LoanBalanceExplained
<1>7. QED
  BY <1>2, <1>6 DEF IInv

\* A loan comes with the transfer of its principal.
LEMMA OpenLoanMoney ==
  ASSUME IInv, PaymentInv', NEW c \in DebtAccount, NEW account \in Account,
         NEW amount \in ManualAmount, NEW x \in Operation,
         OpenLoan(c, account, amount, x)
  PROVE  IInv'
<1> DEFINE entries == LendEntries(c, account, amount)
           postings == {Posting(x, "transfer", entries)}
<1>1. /\ Settles(account, c) /\ PostDebt(postings) /\ UNCHANGED paymentVars
      /\ debtState[c] = "none" /\ debtState' = [debtState EXCEPT ![c] = "active"]
      /\ initialBalance' = [initialBalance EXCEPT ![c] = 0]
      /\ lent' = [lent EXCEPT ![c] = amount]
      /\ KindOf[c] # "credit_card"
  BY DEF OpenLoan, Create
<1>2. /\ Fits("transfer", entries)
      /\ \A e \in entries : e.account \in DebtAccount => e.account = c
      /\ EntrySum(entries, c) = IF Receivable(c) THEN amount ELSE -amount
  BY <1>1, SettlementMoves
<1>3. TypedPostings(postings)
  BY <1>1, OpeningPosting
<1>4. TypeOK /\ PaymentInv
  BY DEF IInv, PaymentInv
<1>5. /\ \A o \in Operation \ {x} : SameOperation(o)
      /\ opStatus[x] = "unused" /\ opStatus'[x] = "confirmed" /\ opSource'[x] = "debt"
      /\ opType'[x] = "transfer" /\ opEntries'[x] = entries
  <2>1. \A q \in postings : q.op = x /\ q.type = "transfer" /\ q.entries = entries
    BY DEF Posting
  <2>2. Posting(x, "transfer", entries) \in postings
    OBVIOUS
  <2> HIDE DEF postings, entries
  <2>3. QED
    BY <1>1, <1>3, <1>4, <2>1, <2>2, PostDebtFacts DEF TypeOK, SameOperation
<1> HIDE DEF postings, entries
<1>6. OperationsSound'
  <2>1. Sound(x)'
    BY <1>2, <1>5 DEF Sound, Loan, Fits
  <2>2. QED
    BY <1>5, <2>1, SoundKept DEF IInv, SameOperation, Recorded
<1>7. FinitelyMany'
  <2>1. FinitelyMany
    BY DEF IInv
  <2>2. \A o \in Operation \ {x, x} : opStatus'[o] = "confirmed" => opStatus[o] = "confirmed"
    BY <1>5 DEF SameOperation
  <2>3. \A q \in Payment \ {NoOperation} : payState'[q] = "recorded" => payState[q] = "recorded"
    BY <1>1 DEF paymentVars
  <2>4. QED
    BY <2>1, <2>2, <2>3, FinitelyManyKept
<1>8. \A p \in Payment : \A o \in PaymentOperations(p) :
        o \in Operation /\ o # x /\ opEntries'[o] = opEntries[o]
  BY <1>4, <1>5, PaymentOperationsExist DEF SameOperation, Recorded
<1>9. PrincipalsRepay'
  BY <1>1, <1>8, PrincipalsKept DEF IInv, paymentVars
<1>10. Ground /\ Ground'
  BY <1>6, <1>7, GroundHolds
<1>11. \A d, p : PaidOf(d, p)' = PaidOf(d, p)
  BY <1>1, <1>4, <1>8, PaidKept DEF paymentVars, PaymentOperations
<1>12. \A d, o : o # x => MoveOf(d, o)' = MoveOf(d, o)
  BY <1>5, MoveKept
<1>13. ASSUME NEW d \in Loan, Standing(d)', d # c PROVE Explained(d)'
  <2>1. d \in DebtAccount /\ Standing(d)
    BY <1>1, <1>4, <1>13 DEF Loan, Standing, TypeOK
  <2>2. initialBalance'[d] = initialBalance[d] /\ lent'[d] = lent[d]
    BY <1>1, <1>4, <1>13, <2>1 DEF TypeOK
  <2>3. Explained(d)
    BY <2>1, <1>13 DEF IInv, LoanBalanceExplained
  <2>4. MoveOf(d, x)' = MoveOf(d, x)
    BY <1>2, <1>5, <1>13, <2>1, MoveNone
  <2>5. \A o : MoveOf(d, o)' = MoveOf(d, o)
    BY <1>12, <2>4
  <2>6. QED
    BY <1>10, <1>11, <2>1, <2>2, <2>3, <2>5, LoanUntouched
<1>14. Explained(c)'
  <2>1. amount \in Nat
    BY ManualAmountsPositive
  <2>2. initialBalance'[c] = 0 /\ lent'[c] = amount
    BY <1>1, <1>4 DEF TypeOK
  <2>3. ~Standing(c)
    BY <1>1 DEF Standing
  <2>4. PaidBy(c) = {} /\ \A o : MoveOf(c, o) = 0
    BY <1>4, <2>3, NothingOnDebt
  <2>5. PaidBy(c)' = {}
    BY <1>1, <2>4 DEF PaidBy, Payments, paymentVars
  <2>6. \A o : o # x => MoveOf(c, o)' = 0
    BY <1>12, <2>4
  <2>7. MoveOf(c, x)' = IF Receivable(c) THEN amount ELSE -amount
    BY <1>2, <1>5 DEF MoveOf, Confirmed
  <2>8. /\ MoveOf(c, x)' \in Int
        /\ initialBalance'[c] + MoveOf(c, x)' = IF Receivable(c) THEN amount ELSE -amount
    BY <2>1, <2>2, <2>7
  <2>9. lent'[c] + Magnitude(initialBalance'[c]) = amount
    BY <2>1, <2>2 DEF Magnitude
  <2>10. QED
    BY <1>10, <2>1, <2>5, <2>6, <2>8, <2>9, NewLoan
<1>15. LoanBalanceExplained'
  BY <1>13, <1>14 DEF LoanBalanceExplained
<1>16. QED
  BY <1>6, <1>7, <1>9, <1>15 DEF IInv

\* Archiving and restoring move nothing.
LEMMA ArchiveMoney ==
  ASSUME IInv, PaymentInv', NEW c \in DebtAccount, Archive(c) \/ RestoreDebt(c)
  PROVE  IInv'
<1>1. /\ UNCHANGED <<ledgerVars, paymentVars, initialBalance, lent>>
      /\ \A d \in DebtAccount : Standing(d)' => Standing(d)
  BY DEF Archive, RestoreDebt, Standing, IInv, PaymentInv, TypeOK
<1>2. /\ OperationsSound' /\ PrincipalsRepay' /\ FinitelyMany' /\ Ground /\ Ground'
      /\ \A d, x : MoveOf(d, x)' = MoveOf(d, x) /\ PaidOf(d, x)' = PaidOf(d, x)
  BY <1>1, MoneyUntouched
<1>3. ASSUME NEW d \in Loan, Standing(d)' PROVE Explained(d)'
  <2>1. d \in DebtAccount /\ Standing(d)
    BY <1>1, <1>3 DEF Loan
  <2>2. Explained(d)
    BY <2>1, <1>3 DEF IInv, LoanBalanceExplained
  <2>3. initialBalance'[d] = initialBalance[d] /\ lent'[d] = lent[d]
    BY <1>1
  <2>4. QED
    BY <1>2, <2>1, <2>2, <2>3, LoanUntouched
<1>4. QED
  BY <1>2, <1>3 DEF IInv, LoanBalanceExplained

\* A deleted debt takes its opening transfer along, which moved no other debt.
LEMMA DeleteMoney ==
  ASSUME IInv, PaymentInv', NEW c \in DebtAccount, DeleteDebt(c)
  PROVE  IInv'
<1> DEFINE opening == {o \in OperationsOn(c) : opSource[o] = "debt"}
<1>1. /\ debtState' = [debtState EXCEPT ![c] = "deleted"]
      /\ opStatus' = [o \in Operation |-> IF o \in opening THEN "deleted" ELSE opStatus[o]]
      /\ opEntries' = [o \in Operation |-> IF o \in opening THEN {} ELSE opEntries[o]]
      /\ initialBalance' = [initialBalance EXCEPT ![c] = 0]
      /\ lent' = [lent EXCEPT ![c] = 0]
      /\ UNCHANGED <<opSource, opType>> /\ UNCHANGED paymentVars
      /\ Payments(c) = {}
  BY DEF DeleteDebt, Deletable
<1>2. TypeOK /\ PaymentInv
  BY DEF IInv, PaymentInv
<1>3. /\ \A o \in Operation \ opening : SameOperation(o)
      /\ \A o \in opening : /\ o \in Operation /\ Recorded(o)
                            /\ \E e \in opEntries[o] : e.account = c
                            /\ opStatus'[o] = "deleted" /\ opEntries'[o] = {}
  BY <1>1, <1>2 DEF SameOperation, OperationsOn, TypeOK, LedgerTypeOK
<1> HIDE DEF opening
<1>4. OperationsSound'
  <2>1. OperationsSound
    BY DEF IInv
  <2>2. \A o \in Operation : Recorded(o)' =>
          /\ Recorded(o) /\ opSource'[o] = opSource[o]
          /\ opType'[o] = opType[o] /\ opEntries'[o] = opEntries[o]
    BY <1>3 DEF Recorded, SameOperation
  <2>3. QED
    BY <2>1, <2>2, SoundKept
<1>5. FinitelyMany'
  <2>1. FinitelyMany
    BY DEF IInv
  <2>2. \A o \in Operation \ {NoOperation, NoOperation} :
          opStatus'[o] = "confirmed" => opStatus[o] = "confirmed"
    BY <1>3 DEF SameOperation
  <2>3. \A q \in Payment \ {NoOperation} : payState'[q] = "recorded" => payState[q] = "recorded"
    BY <1>1 DEF paymentVars
  <2>4. QED
    BY <2>1, <2>2, <2>3, FinitelyManyKept
<1>6. \A p \in Payment : \A o \in PaymentOperations(p) :
        o \in Operation /\ opEntries'[o] = opEntries[o]
  <2> SUFFICES ASSUME NEW p \in Payment, NEW o \in PaymentOperations(p)
               PROVE  o \in Operation /\ o \notin opening
    BY <1>3 DEF SameOperation
  <2>1. o \in Operation
    BY <1>2, PaymentOperationsExist
  <2>2. payState[p] # "none" /\ payDebt[p] # c
    BY <1>1, <1>2 DEF Payments, PaymentInv, PaymentsApart
  <2>3. \A e \in opEntries[o] : e.account \in DebtAccount => e.account = payDebt[p]
    BY <1>2 DEF PaymentInv, PaymentsApart
  <2>4. QED
    BY <1>3, <2>1, <2>2, <2>3
<1>7. PrincipalsRepay'
  BY <1>1, <1>6, PrincipalsKept DEF IInv, paymentVars
<1>8. Ground /\ Ground'
  BY <1>4, <1>5, GroundHolds
<1>9. ASSUME NEW d \in Loan, Standing(d)' PROVE Explained(d)'
  <2>1. d \in DebtAccount /\ Standing(d) /\ d # c
    BY <1>1, <1>2, <1>9 DEF Loan, Standing, TypeOK
  <2>2. Explained(d)
    BY <2>1, <1>9 DEF IInv, LoanBalanceExplained
  <2>3. initialBalance'[d] = initialBalance[d] /\ lent'[d] = lent[d]
    BY <1>1, <1>2, <2>1 DEF TypeOK
  <2>4. ASSUME NEW o PROVE MoveOf(d, o)' = MoveOf(d, o)
    <3>1. CASE o \in opening
      <4>1. Sound(o) /\ \E e \in opEntries[o] : e.account = c
        BY <1>3, <3>1 DEF IInv, OperationsSound
      <4>2. \A e \in opEntries[o] : e.account # d
        BY <2>1, <4>1 DEF Sound
      <4>3. \A e \in opEntries'[o] : e.account # d
        BY <1>3, <3>1
      <4>4. QED
        BY <4>2, <4>3, MoveNone
    <3>2. CASE o \notin opening
      BY <1>3, <3>2, MoveKept
    <3>3. QED
      BY <3>1, <3>2
  <2>5. \A p : PaidOf(d, p)' = PaidOf(d, p)
    BY <1>1, <1>2, <1>6, PaidKept DEF paymentVars, PaymentOperations
  <2>6. QED
    BY <1>8, <2>1, <2>2, <2>3, <2>4, <2>5, LoanUntouched
<1>10. QED
  BY <1>4, <1>5, <1>7, <1>9 DEF IInv, LoanBalanceExplained

\* Reversing a payment gives back the principal it repaid.
LEMMA ReverseMoney ==
  ASSUME IInv, PaymentInv', NEW p \in Payment, ReversePayment(p)
  PROVE  IInv'
<1>0. PICK x, i, c : x = payPrincipal[p] /\ i = payInterest[p] /\ c = payDebt[p]
  OBVIOUS
<1>1. /\ payState[p] = "recorded"
      /\ \A o \in PaymentOperations(p) : opStatus[o] = "confirmed"
      /\ opStatus' = [o \in Operation |->
                        IF o \in PaymentOperations(p) THEN "ignored" ELSE opStatus[o]]
      /\ payState' = [payState EXCEPT ![p] = "reversed"]
      /\ UNCHANGED <<opSource, opType, opEntries, payDebt, payPrincipal, payInterest>>
      /\ UNCHANGED debtVars
  BY DEF ReversePayment
<1>2. TypeOK /\ PaymentInv
  BY DEF IInv, PaymentInv
<1>3. /\ \A o \in Operation : o \notin PaymentOperations(p) => SameOperation(o)
      /\ \A o \in PaymentOperations(p) :
           o \in Operation /\ Recorded(o) /\ opStatus'[o] = "ignored"
      /\ \A o \in Operation : o # x /\ o # i => SameOperation(o)
  BY <1>0, <1>1, <1>2, PaymentOperationsExist DEF PaymentOperations, SameOperation
<1>4. OperationsSound'
  <2>1. OperationsSound
    BY DEF IInv
  <2>2. \A o \in Operation : Recorded(o)' =>
          /\ Recorded(o) /\ opSource'[o] = opSource[o]
          /\ opType'[o] = opType[o] /\ opEntries'[o] = opEntries[o]
    BY <1>1, <1>3 DEF Recorded, SameOperation
  <2>3. QED
    BY <2>1, <2>2, SoundKept
<1>5. FinitelyMany'
  <2>1. FinitelyMany
    BY DEF IInv
  <2>2. \A o \in Operation \ {x, i} : opStatus'[o] = "confirmed" => opStatus[o] = "confirmed"
    BY <1>0, <1>3 DEF SameOperation
  <2>3. \A q \in Payment \ {p} : payState'[q] = "recorded" => payState[q] = "recorded"
    BY <1>1, <1>2 DEF TypeOK
  <2>4. QED
    BY <2>1, <2>2, <2>3, FinitelyManyKept
<1>6. PrincipalsRepay'
  BY <1>1, PrincipalsKept DEF IInv, PaymentInv, TypeOK
<1>7. Ground /\ Ground'
  BY <1>4, <1>5, GroundHolds
<1>8. /\ x # NoOperation => /\ x \in Operation /\ x \in PaymentOperations(p)
                            /\ \E account \in Account, amount \in ManualAmount :
                                 /\ Settles(account, c)
                                 /\ opEntries[x] = RepayEntries(c, account, amount)
      /\ i # NoOperation => /\ \A e \in opEntries[i] : e.account \notin DebtAccount
      /\ c \in DebtAccount
  <2>1. payState[p] # "none"
    BY <1>1
  <2>2. c \in DebtAccount
    BY <1>0, <1>2, <2>1 DEF PaymentInv, DebtsStand
  <2>3. x # NoOperation => x \in PaymentOperations(p) /\ x \in Operation
    BY <1>0, <1>3 DEF PaymentOperations
  <2>4. QED
    BY <1>0, <2>1, <2>2, <2>3 DEF IInv, PrincipalsRepay
<1>9. ASSUME NEW d \in DebtAccount PROVE \A o : o # x => MoveOf(d, o)' = MoveOf(d, o)
  <2> SUFFICES ASSUME NEW o, o # x PROVE MoveOf(d, o)' = MoveOf(d, o)
    OBVIOUS
  <2>1. CASE o = i /\ o # NoOperation
    BY <1>1, <1>8, <2>1, MoveNone
  <2>2. CASE o # i \/ o = NoOperation
    BY <1>3, <2>2, MoveKept, NoOperationIsNone
  <2>3. QED
    BY <2>1, <2>2
<1>10. \A d, q : q # p => PaidOf(d, q)' = PaidOf(d, q)
  BY <1>1, <1>2, PaidKept DEF TypeOK
<1>11. \A d : PaidOf(d, p)' = 0
  BY <1>1, <1>2 DEF PaidOf, PaidBy, TypeOK
<1>12. \A d : PaidOf(d, p) = IF d = c /\ x # NoOperation
                              THEN Magnitude(EntrySum(opEntries[x], d)) ELSE 0
  BY <1>0, <1>1 DEF PaidOf, PaidBy, Payments
<1>13. MoveOf(c, x) = (IF x # NoOperation THEN EntrySum(opEntries[x], c) ELSE 0)
  BY <1>0, <1>1, <1>8, NoOperationIsNone DEF MoveOf, Confirmed
<1>14. \A d : MoveOf(d, x)' = 0
  <2>1. x \notin Confirmed'
    BY <1>3, <1>8, NoOperationIsNone DEF Confirmed
  <2>2. QED
    BY <2>1 DEF MoveOf
<1>15. ASSUME NEW d \in Loan, Standing(d)' PROVE Explained(d)'
  <2>1. d \in DebtAccount /\ Standing(d)
    BY <1>1, <1>15 DEF Loan, Standing, debtVars
  <2>2. Explained(d)
    BY <2>1, <1>15 DEF IInv, LoanBalanceExplained
  <2>3. initialBalance'[d] = initialBalance[d] /\ lent'[d] = lent[d]
    BY <1>1 DEF debtVars
  <2>4. CASE d # c \/ x = NoOperation
    <3>1. MoveOf(d, x)' = MoveOf(d, x)
      <4>1. CASE x = NoOperation
        BY <4>1, <1>14, NoOperationIsNone DEF MoveOf, Confirmed
      <4>2. CASE x # NoOperation
        <5>1. PICK account \in Account, amount \in ManualAmount :
                Settles(account, c) /\ opEntries[x] = RepayEntries(c, account, amount)
          BY <1>8, <4>2
        <5>2. \A e \in opEntries[x] : e.account \in DebtAccount => e.account = c
          BY <1>8, <5>1, SettlementMoves
        <5>3. \A e \in opEntries[x] : e.account # d
          BY <2>1, <2>4, <4>2, <5>2
        <5>4. QED
          BY <1>1, <5>3, MoveNone
      <4>3. QED
        BY <4>1, <4>2
    <3>2. PaidOf(d, p)' = PaidOf(d, p)
      BY <1>11, <1>12, <2>4
    <3>3. QED
      BY <1>7, <1>9, <1>10, <2>1, <2>2, <2>3, <3>1, <3>2, LoanUntouched
  <2>5. CASE d = c /\ x # NoOperation
    <3>1. PICK account \in Account, amount \in ManualAmount :
            Settles(account, c) /\ opEntries[x] = RepayEntries(c, account, amount)
      BY <1>8, <2>5
    <3>2. amount \in Nat /\ amount > 0
      BY ManualAmountsPositive
    <3>3. EntrySum(opEntries[x], d) = IF Receivable(d) THEN -amount ELSE amount
      BY <1>8, <2>5, <3>1, SettlementMoves
    <3> DEFINE repaid == -amount
    <3>4. PaidOf(d, p) = amount
      BY <1>12, <2>5, <3>2, <3>3 DEF Magnitude
    <3>5. MoveOf(d, x) = IF Receivable(d) THEN -amount ELSE amount
      BY <1>13, <2>5, <3>3
    <3>6. PaidOf(d, p)' = PaidOf(d, p) + repaid
      BY <1>11, <3>2, <3>4
    <3>7. MoveOf(d, x)' = MoveOf(d, x) + (IF Receivable(d) THEN -repaid ELSE repaid)
      BY <1>14, <3>2, <3>5
    <3>8. repaid \in Int /\ repaid <= Owed(d)
      <4>1. Owed(d) \in Int /\ Owed(d) >= 0
        BY <1>7, <2>1, <2>2, ExplainedIs
      <4>2. QED
        BY <3>2, <4>1
    <3> HIDE DEF repaid
    <3>9. QED
      BY <1>7, <1>9, <1>10, <2>1, <2>2, <2>3, <3>6, <3>7, <3>8, LoanStep
  <2>6. QED
    BY <2>4, <2>5
<1>16. QED
  BY <1>4, <1>5, <1>6, <1>15 DEF IInv, LoanBalanceExplained

\* What recording a payment posts.
PaymentPosted(c, account, principal, interest, o, i) ==
  /\ \A y \in Operation : /\ y = o => principal = 0
                          /\ y = i => interest = 0
                          => SameOperation(y)
  /\ principal > 0 =>
       /\ opStatus[o] = "unused" /\ opStatus'[o] = "confirmed" /\ opSource'[o] = "debt"
       /\ opType'[o] = "transfer"
       /\ opEntries'[o] = RepayEntries(c, account, principal)
  /\ interest > 0 =>
       /\ opStatus[i] = "unused" /\ opStatus'[i] = "confirmed" /\ opSource'[i] = "debt"
       /\ opType'[i] = InterestType(c)
       /\ opEntries'[i] = IncomeExpenseEntries(InterestType(c), account, interest)

\* RecordPayment posts that and nothing else.
LEMMA PaymentIsPosted ==
  ASSUME TypeOK, NEW c \in DebtAccount, NEW account \in Account, Settles(account, c),
         NEW principal \in ManualAmount \cup {0}, NEW interest \in ManualAmount \cup {0},
         NEW o \in Operation, NEW i \in Operation, o # i,
         PostDebt(PaymentPostings(c, account, principal, interest, o, i))
  PROVE  PaymentPosted(c, account, principal, interest, o, i)
<1> DEFINE postings == PaymentPostings(c, account, principal, interest, o, i)
           moved == RepayEntries(c, account, principal)
           charged == IncomeExpenseEntries(InterestType(c), account, interest)
<1>1. \A q \in postings : \/ q.op = o /\ q.type = "transfer" /\ q.entries = moved
                          \/ q.op = i /\ q.type = InterestType(c) /\ q.entries = charged
  BY DEF PaymentPostings, Posting
<1>2. /\ TypedPostings(postings)
      /\ \A y \in Operation : (\E q \in postings : q.op = y)
                <=> (y = o /\ principal > 0) \/ (y = i /\ interest > 0)
  BY PaymentPosting
<1>3. PostDebt(postings) /\ LedgerTypeOK
  BY DEF TypeOK
<1> HIDE DEF postings, moved, charged
<1>4. \A y \in Operation :
        \/ /\ \E q \in postings : /\ q.op = y
                                  /\ opType'[y] = q.type /\ opEntries'[y] = q.entries
           /\ opStatus[y] = "unused"
           /\ opStatus'[y] = "confirmed" /\ opSource'[y] = "debt"
        \/ (\A q \in postings : q.op # y) /\ SameOperation(y)
  BY <1>2, <1>3, PostDebtFacts DEF SameOperation
<1>5. /\ principal \in Nat /\ interest \in Nat
      /\ principal > 0 <=> principal # 0
      /\ interest > 0 <=> interest # 0
  BY ManualAmountsPositive
<1>6. \A y \in Operation : /\ y = o => principal = 0
                           /\ y = i => interest = 0
                           => SameOperation(y)
  BY <1>2, <1>4, <1>5
<1>7. ASSUME principal > 0
      PROVE  /\ opStatus[o] = "unused" /\ opStatus'[o] = "confirmed" /\ opSource'[o] = "debt"
             /\ opType'[o] = "transfer" /\ opEntries'[o] = moved
  <2>1. \E q \in postings : q.op = o
    BY <1>2, <1>7
  <2>2. QED
    BY <1>1, <1>4, <2>1
<1>8. ASSUME interest > 0
      PROVE  /\ opStatus[i] = "unused" /\ opStatus'[i] = "confirmed" /\ opSource'[i] = "debt"
             /\ opType'[i] = InterestType(c) /\ opEntries'[i] = charged
  <2>1. \E q \in postings : q.op = i
    BY <1>2, <1>8
  <2>2. QED
    BY <1>1, <1>4, <2>1
<1>9. QED
  BY <1>6, <1>7, <1>8 DEF PaymentPosted, moved, charged

\* A payment repays its principal and moves no other loan.
LEMMA RecordMoney ==
  ASSUME IInv, PaymentInv', NEW p \in Payment, NEW c \in DebtAccount, NEW account \in Account,
         NEW principal \in ManualAmount \cup {0}, NEW interest \in ManualAmount \cup {0},
         RecordPayment(p, c, account, principal, interest)
  PROVE  IInv'
<1>1. PICK o \in Operation, i \in Operation :
        /\ o # i
        /\ PostDebt(PaymentPostings(c, account, principal, interest, o, i))
        /\ payPrincipal' = [payPrincipal EXCEPT ![p] =
                              IF principal = 0 THEN NoOperation ELSE o]
        /\ payInterest' = [payInterest EXCEPT ![p] =
                             IF interest = 0 THEN NoOperation ELSE i]
  BY DEF RecordPayment
<1>2. /\ payState[p] = "none" /\ Settles(account, c) /\ debtState[c] = "active"
      /\ principal <= Outstanding(c)
      /\ payState' = [payState EXCEPT ![p] = "recorded"]
      /\ payDebt' = [payDebt EXCEPT ![p] = c]
      /\ UNCHANGED debtVars
  BY DEF RecordPayment
<1>3. TypeOK /\ PaymentInv
  BY DEF IInv, PaymentInv
<1>4. /\ principal \in Nat /\ interest \in Nat
      /\ principal > 0 <=> principal # 0
      /\ interest > 0 <=> interest # 0
      /\ principal > 0 => principal \in ManualAmount
      /\ interest > 0 => interest \in ManualAmount
      /\ account \notin DebtAccount
  BY <1>2, ManualAmountsPositive DEF Settles
<1>5. PaymentPosted(c, account, principal, interest, o, i)
  BY <1>1, <1>2, <1>3, PaymentIsPosted
<1>6. principal > 0 =>
        /\ Fits("transfer", RepayEntries(c, account, principal))
        /\ \A e \in RepayEntries(c, account, principal) :
             e.account \in DebtAccount => e.account = c
        /\ EntrySum(RepayEntries(c, account, principal), c)
             = IF Receivable(c) THEN -principal ELSE principal
  BY <1>2, <1>4, SettlementMoves
<1>7. interest > 0 =>
        /\ Fits(InterestType(c), IncomeExpenseEntries(InterestType(c), account, interest))
        /\ \A e \in IncomeExpenseEntries(InterestType(c), account, interest) :
             e.account \notin DebtAccount
  <2>1. InterestType(c) \in {"income", "expense"}
    BY DEF InterestType
  <2>2. QED
    BY <1>4, <2>1, IncomeExpenseFits
<1>8. /\ \A y \in Operation \ {o, i} : SameOperation(y)
      /\ principal = 0 => SameOperation(o)
      /\ interest = 0 => SameOperation(i)
  BY <1>1, <1>5 DEF PaymentPosted
<1>9. OperationsSound'
  <2>1. ASSUME principal > 0 PROVE Sound(o)'
    BY <1>5, <1>6, <2>1 DEF Sound, PaymentPosted, Fits, Loan
  <2>2. ASSUME interest > 0 PROVE Sound(i)'
    BY <1>5, <1>7, <2>2 DEF Sound, PaymentPosted, Fits, Loan
  <2>3. ASSUME NEW y \in Operation PROVE SameOperation(y) \/ Sound(y)'
    BY <1>4, <1>8, <2>1, <2>2
  <2>4. OperationsSound
    BY DEF IInv
  <2>5. QED
    BY <2>3, <2>4, SoundKept DEF SameOperation, Recorded
<1>10. FinitelyMany'
  <2>1. FinitelyMany
    BY DEF IInv
  <2>2. \A y \in Operation \ {o, i} : opStatus'[y] = "confirmed" => opStatus[y] = "confirmed"
    BY <1>8 DEF SameOperation
  <2>3. \A q \in Payment \ {p} : payState'[q] = "recorded" => payState[q] = "recorded"
    BY <1>2, <1>3 DEF TypeOK
  <2>4. QED
    BY <2>1, <2>2, <2>3, FinitelyManyKept
<1>11. \A q \in Payment \ {p} :
         /\ payState'[q] = payState[q] /\ payDebt'[q] = payDebt[q]
         /\ payPrincipal'[q] = payPrincipal[q] /\ payInterest'[q] = payInterest[q]
  BY <1>1, <1>2, <1>3 DEF TypeOK
<1>12. /\ payState'[p] = "recorded" /\ payDebt'[p] = c
       /\ payPrincipal'[p] = IF principal = 0 THEN NoOperation ELSE o
       /\ payInterest'[p] = IF interest = 0 THEN NoOperation ELSE i
  BY <1>1, <1>2, <1>3 DEF TypeOK
<1>13. \A q \in Payment : \A y \in PaymentOperations(q) :
         y \in Operation /\ opEntries'[y] = opEntries[y]
  <2> SUFFICES ASSUME NEW q \in Payment, NEW y \in PaymentOperations(q)
               PROVE  y \in Operation /\ SameOperation(y)
    BY DEF SameOperation
  <2>1. y \in Operation /\ opStatus[y] # "unused"
    BY <1>3, PaymentOperationsExist DEF Recorded
  <2>2. QED
    BY <1>4, <1>5, <1>8, <2>1 DEF PaymentPosted
<1>14. PrincipalsRepay'
  <2> SUFFICES ASSUME NEW q \in Payment, payState'[q] # "none"
               PROVE  /\ payPrincipal'[q] # NoOperation =>
                           \E a \in Account, amount \in ManualAmount :
                             /\ Settles(a, payDebt'[q])
                             /\ opEntries'[payPrincipal'[q]]
                                  = RepayEntries(payDebt'[q], a, amount)
                      /\ payInterest'[q] # NoOperation =>
                           \A e \in opEntries'[payInterest'[q]] : e.account \notin DebtAccount
    BY DEF PrincipalsRepay, Settles, RepayEntries, Receivable
  <2>1. CASE q = p
    BY <1>2, <1>4, <1>5, <1>7, <1>12, <2>1 DEF PaymentPosted
  <2>2. CASE q # p
    <3>1. /\ payPrincipal[q] # NoOperation =>
               /\ opEntries'[payPrincipal[q]] = opEntries[payPrincipal[q]]
               /\ \E a \in Account, amount \in ManualAmount :
                    /\ Settles(a, payDebt[q])
                    /\ opEntries[payPrincipal[q]] = RepayEntries(payDebt[q], a, amount)
          /\ payInterest[q] # NoOperation =>
               /\ opEntries'[payInterest[q]] = opEntries[payInterest[q]]
               /\ \A e \in opEntries[payInterest[q]] : e.account \notin DebtAccount
      BY <1>11, <1>13, <2>2 DEF IInv, PrincipalsRepay, PaymentOperations
    <3>2. QED
      BY <1>11, <2>2, <3>1
  <2>3. QED
    BY <2>1, <2>2
<1>15. Ground /\ Ground'
  BY <1>9, <1>10, GroundHolds
<1>16. ASSUME NEW d \in DebtAccount PROVE \A y : y # o => MoveOf(d, y)' = MoveOf(d, y)
  <2> SUFFICES ASSUME NEW y, y # o PROVE MoveOf(d, y)' = MoveOf(d, y)
    OBVIOUS
  <2>1. CASE y = i /\ interest > 0
    <3>1. /\ opStatus[i] = "unused"
          /\ opEntries'[i] = IncomeExpenseEntries(InterestType(c), account, interest)
      BY <1>5, <2>1 DEF PaymentPosted
    <3>2. \A e \in opEntries'[i] : e.account # d
      BY <1>7, <2>1, <3>1
    <3>3. QED
      BY <2>1, <3>1, <3>2, MoveNone
  <2>2. CASE ~(y = i /\ interest > 0)
    <3>1. y \in Operation => SameOperation(y)
      BY <1>4, <1>8, <2>2
    <3>2. QED
      BY <3>1, MoveKept
  <2>3. QED
    BY <2>1, <2>2
<1>17. \A d, q : q # p => PaidOf(d, q)' = PaidOf(d, q)
  BY <1>3, <1>11, <1>13, PaidKept DEF PaymentOperations
<1>18. \A d : PaidOf(d, p) = 0
  BY <1>2 DEF PaidOf, PaidBy, Payments
<1>19. \A d : PaidOf(d, p)' = IF d = c /\ principal > 0
                               THEN Magnitude(EntrySum(opEntries'[o], d)) ELSE 0
  <2>1. \A d : p \in PaidBy(d)' <=> d = c /\ payPrincipal'[p] # NoOperation
    BY <1>12 DEF PaidBy, Payments
  <2>2. \A d : PaidOf(d, p)' = IF p \in PaidBy(d)'
                               THEN Magnitude(EntrySum(opEntries'[payPrincipal'[p]], d)) ELSE 0
    BY DEF PaidOf, Magnitude
  <2>3. QED
    BY <1>4, <1>12, <2>1, <2>2, NoOperationIsNone
<1>20. ASSUME NEW d \in Loan, Standing(d)' PROVE Explained(d)'
  <2>1. d \in DebtAccount /\ Standing(d)
    BY <1>2, <1>20 DEF Loan, Standing, debtVars
  <2>2. Explained(d)
    BY <2>1, <1>20 DEF IInv, LoanBalanceExplained
  <2>3. initialBalance'[d] = initialBalance[d] /\ lent'[d] = lent[d]
    BY <1>2 DEF debtVars
  <2>4. CASE d # c \/ principal = 0
    <3>1. MoveOf(d, o)' = MoveOf(d, o)
      <4>1. CASE principal = 0
        BY <1>8, <4>1, MoveKept
      <4>2. CASE principal # 0
        <5>1. opStatus[o] = "unused" /\ \A e \in opEntries'[o] : e.account # d
          BY <1>4, <1>5, <1>6, <2>1, <2>4, <4>2 DEF PaymentPosted
        <5>2. QED
          BY <5>1, MoveNone
      <4>3. QED
        BY <4>1, <4>2
    <3>2. PaidOf(d, p)' = PaidOf(d, p)
      BY <1>4, <1>18, <1>19, <2>4
    <3>3. QED
      BY <1>15, <1>16, <1>17, <2>1, <2>2, <2>3, <3>1, <3>2, LoanUntouched
  <2>5. CASE d = c /\ principal > 0
    <3>1. /\ opStatus[o] = "unused" /\ opStatus'[o] = "confirmed"
          /\ opEntries'[o] = RepayEntries(c, account, principal)
      BY <1>5, <2>5 DEF PaymentPosted
    <3>2. EntrySum(opEntries'[o], d) = IF Receivable(d) THEN -principal ELSE principal
      BY <1>6, <2>5, <3>1
    <3>3. MoveOf(d, o) = 0 /\ MoveOf(d, o)' = IF Receivable(d) THEN -principal ELSE principal
      BY <3>1, <3>2 DEF MoveOf, Confirmed
    <3>4. PaidOf(d, p)' = principal
      BY <1>4, <1>19, <2>5, <3>2 DEF Magnitude
    <3>5. MoveOf(d, o)' = MoveOf(d, o) + (IF Receivable(d) THEN -principal ELSE principal)
      BY <1>4, <3>3
    <3>6. PaidOf(d, p)' = PaidOf(d, p) + principal
      BY <1>4, <1>18, <3>4
    <3>7. principal \in Int /\ principal <= Owed(d)
      <4>1. Outstanding(d) = Owed(d)
        BY <1>15, <2>1, <2>2, ExplainedIs
      <4>2. QED
        BY <1>2, <1>4, <2>5, <4>1
    <3>8. QED
      BY <1>15, <1>16, <1>17, <2>1, <2>2, <2>3, <3>5, <3>6, <3>7, LoanStep
  <2>6. QED
    BY <1>4, <2>4, <2>5
<1>21. QED
  BY <1>9, <1>10, <1>14, <1>20 DEF IInv, LoanBalanceExplained

-----------------------------------------------------------------------------
(* The invariant and its theorems.                                         *)

\* Nothing is lent at first.
LEMMA InitMoney == Init => IInv
<1> SUFFICES ASSUME Init PROVE IInv
  OBVIOUS
<1>1. PaymentInv
  BY InitInvariant
<1>2. Confirmed = {} /\ RecordedPayments = {}
  BY DEF Init, LedgerInit, Confirmed, RecordedPayments
<1>3. FinitelyMany
  BY <1>2, FS_EmptySet DEF FinitelyMany
<1>4. OperationsSound /\ PrincipalsRepay /\ LoanBalanceExplained
  BY DEF Init, LedgerInit, OperationsSound, Recorded, PrincipalsRepay, LoanBalanceExplained,
         Standing, Loan
<1>5. QED
  BY <1>1, <1>3, <1>4 DEF IInv

\* A step that changes nothing leaves every sum as it is.
LEMMA StutterMoney ==
  ASSUME IInv, PaymentInv', UNCHANGED vars
  PROVE  IInv'
<1>1. UNCHANGED <<ledgerVars, paymentVars>> /\ UNCHANGED <<debtState, initialBalance, lent>>
  BY DEF vars, debtVars
<1>2. /\ OperationsSound' /\ PrincipalsRepay' /\ FinitelyMany' /\ Ground /\ Ground'
      /\ \A d, x : MoveOf(d, x)' = MoveOf(d, x) /\ PaidOf(d, x)' = PaidOf(d, x)
  BY <1>1, MoneyUntouched
<1>3. ASSUME NEW d \in Loan, Standing(d)' PROVE Explained(d)'
  <2>1. d \in DebtAccount /\ Explained(d)
    BY <1>1, <1>3 DEF Loan, Standing, IInv, LoanBalanceExplained
  <2>2. QED
    BY <1>1, <1>2, <2>1, LoanUntouched
<1>4. QED
  BY <1>2, <1>3 DEF IInv, LoanBalanceExplained

\* Every step keeps the invariant.
LEMMA StepMoney == IInv /\ [Next]_vars => IInv'
<1> SUFFICES ASSUME IInv, [Next]_vars PROVE IInv'
  OBVIOUS
<1>1. PaymentInv'
  BY StepInvariant DEF IInv
<1>2. CASE DebtStep
  BY <1>1, <1>2, AddMoney, OpenLoanMoney, ArchiveMoney, DeleteMoney DEF DebtStep
<1>3. CASE PaymentStep
  <2>1. PICK p \in Payment :
          \/ \E d \in DebtAccount, account \in Account,
                principal, interest \in ManualAmount \cup {0} :
               RecordPayment(p, d, account, principal, interest)
          \/ ReversePayment(p)
    BY <1>3 DEF PaymentStep
  <2>2. QED
    BY <1>1, <2>1, RecordMoney, ReverseMoney
<1>4. CASE ManualStep
  BY <1>1, <1>4, ManualMoney
<1>5. CASE UNCHANGED vars
  BY <1>1, <1>5, StutterMoney
<1>6. QED
  BY <1>2, <1>3, <1>4, <1>5 DEF Next


\* What is owed on a loan is what it began with less what stands as paid.
THEOREM LoanBalancesExplained == Spec => []LoanBalanceExplained
<1>1. IInv => LoanBalanceExplained
  BY DEF IInv
<1>2. QED
  BY <1>1, InitMoney, StepMoney, PTL DEF Spec

\* Every operation, whoever posted it, keeps the shape of its type.
THEOREM OperationsFit == Spec => []EntriesFitType
<1>1. IInv => EntriesFitType
  BY DEF IInv, OperationsSound, Sound, EntriesFitType
<1>2. QED
  BY <1>1, InitMoney, StepMoney, PTL DEF Spec

\* What stands after every step: payments whole and apart, debts there, operations
\* of the shape of their type, and every loan explained.
THEOREM DebtInvariant == Spec => []IInv
BY InitMoney, StepMoney, PTL DEF Spec

-----------------------------------------------------------------------------
(* The reports.                                                            *)

\* What the web's total, the chat's totals and the balances add up.
PairSum(pairs) == MapThenSumSet(LAMBDA oe : Magnitude(oe[2].amount), pairs)
GainSum(S) == MapThenSumSet(LAMBDA o : IF SignedTotal(o) > 0 THEN SignedTotal(o) ELSE 0, S)
LossSum(S) == MapThenSumSet(LAMBDA o : IF SignedTotal(o) < 0 THEN -SignedTotal(o) ELSE 0, S)
AllSum(entries, S, A) == MapThenSumSet(LAMBDA a : AccountSum(entries, S, a), A)

\* The web's summary is two sums over pairs of an operation and its entry.
LEMMA MoneySummaryUnfolded ==
  \A accounts, currency :
    MoneySummary(accounts, currency) =
      [income  |-> PairSum({oe \in EntriesShown(accounts, currency) : oe[2].amount > 0}),
       expense |-> PairSum({oe \in EntriesShown(accounts, currency) : oe[2].amount < 0})]
BY DEF MoneySummary, PairSum, MapThenSumSet, MapThenFoldSet

Incomes(L) == {o \in L : opType[o] = "income" \/ SignedTotal(o) > 0}

\* The chat's summary is two sums over operations.
LEMMA OperationSummaryUnfolded ==
  \A accounts, currency :
    OperationSummary(accounts, currency) =
      [income  |-> GainSum(Incomes(OperationsListed(accounts, currency))),
       expense |-> LossSum(OperationsListed(accounts, currency)
                           \ Incomes(OperationsListed(accounts, currency)))]
BY DEF OperationSummary, Incomes, GainSum, LossSum, MapThenSumSet, MapThenFoldSet

\* The gain of all balances is a sum of sums.
LEMMA BalanceChangeUnfolded ==
  \A currency : BalanceChange(currency) = AllSum(opEntries, Confirmed, AccountsIn(currency))
BY DEF BalanceChange, AllSum, AccountSum, EntryOn, EntrySum, MapThenSumSet, MapThenFoldSet

\* The fold over pairs is the sum of the magnitudes.
LEMMA PairSumIs ==
  ASSUME NEW S, NEW f, Summable(f, S), \A oe \in S : f[oe] = Magnitude(oe[2].amount)
  PROVE  PairSum(S) = SumOver(f, S)
<1> DEFINE Round(g) ==
             [t \in SUBSET S |->
                IF t = {} THEN 0 ELSE Magnitude((CHOOSE oe \in t : TRUE)[2].amount)
                                      + g[t \ {CHOOSE oe \in t : TRUE}]]
           r == CHOOSE g : g = Round(g)
<1>1. PairSum(S) = r[S]
  BY DEF PairSum, MapThenSumSet, MapThenFoldSet
<1>2. ASSUME NEW g PROVE Round(g) = SumRound(f, S, g)
  <2>1. \A t \in SUBSET S : t # {} =>
          f[Taken(t)] = Magnitude((CHOOSE oe \in t : TRUE)[2].amount)
    BY TakenIsElement DEF Taken
  <2>2. QED
    BY <2>1 DEF SumRound, Taken
<1>3. (\E g : g = Round(g)) => r = Round(r)
  OBVIOUS
<1> HIDE DEF Round, r
<1>4. (\E g : g = SumRound(f, S, g)) => r = SumRound(f, S, r)
  BY <1>2, <1>3
<1>5. QED
  BY <1>1, <1>4, SumOfFold

\* The fold over what operations earned is its sum.
LEMMA GainSumIs ==
  ASSUME NEW S, NEW f, Summable(f, S),
         \A o \in S : f[o] = IF SignedTotal(o) > 0 THEN SignedTotal(o) ELSE 0
  PROVE  GainSum(S) = SumOver(f, S)
<1> DEFINE Gain(o) == IF SignedTotal(o) > 0 THEN SignedTotal(o) ELSE 0
           Round(g) ==
             [t \in SUBSET S |->
                IF t = {} THEN 0 ELSE Gain(CHOOSE o \in t : TRUE)
                                      + g[t \ {CHOOSE o \in t : TRUE}]]
           r == CHOOSE g : g = Round(g)
<1>1. GainSum(S) = r[S]
  BY DEF GainSum, MapThenSumSet, MapThenFoldSet
<1>2. ASSUME NEW g PROVE Round(g) = SumRound(f, S, g)
  <2>1. \A t \in SUBSET S : t # {} => f[Taken(t)] = Gain(CHOOSE o \in t : TRUE)
    BY TakenIsElement DEF Taken
  <2> HIDE DEF Gain
  <2>2. QED
    BY <2>1 DEF SumRound, Taken
<1>3. (\E g : g = Round(g)) => r = Round(r)
  OBVIOUS
<1> HIDE DEF Gain, Round, r
<1>4. (\E g : g = SumRound(f, S, g)) => r = SumRound(f, S, r)
  BY <1>2, <1>3
<1>5. QED
  BY <1>1, <1>4, SumOfFold

\* The fold over what operations spent is its sum.
LEMMA LossSumIs ==
  ASSUME NEW S, NEW f, Summable(f, S),
         \A o \in S : f[o] = IF SignedTotal(o) < 0 THEN -SignedTotal(o) ELSE 0
  PROVE  LossSum(S) = SumOver(f, S)
<1> DEFINE Loss(o) == IF SignedTotal(o) < 0 THEN -SignedTotal(o) ELSE 0
           Round(g) ==
             [t \in SUBSET S |->
                IF t = {} THEN 0 ELSE Loss(CHOOSE o \in t : TRUE)
                                      + g[t \ {CHOOSE o \in t : TRUE}]]
           r == CHOOSE g : g = Round(g)
<1>1. LossSum(S) = r[S]
  BY DEF LossSum, MapThenSumSet, MapThenFoldSet
<1>2. ASSUME NEW g PROVE Round(g) = SumRound(f, S, g)
  <2>1. \A t \in SUBSET S : t # {} => f[Taken(t)] = Loss(CHOOSE o \in t : TRUE)
    BY TakenIsElement DEF Taken
  <2> HIDE DEF Loss
  <2>2. QED
    BY <2>1 DEF SumRound, Taken
<1>3. (\E g : g = Round(g)) => r = Round(r)
  OBVIOUS
<1> HIDE DEF Loss, Round, r
<1>4. (\E g : g = SumRound(f, S, g)) => r = SumRound(f, S, r)
  BY <1>2, <1>3
<1>5. QED
  BY <1>1, <1>4, SumOfFold

\* The fold over accounts is the sum of what each gained.
LEMMA AllSumIs ==
  ASSUME NEW entries, NEW S, NEW A, NEW f, Summable(f, A),
         \A a \in A : f[a] = AccountSum(entries, S, a)
  PROVE  AllSum(entries, S, A) = SumOver(f, A)
<1> DEFINE Round(g) ==
             [t \in SUBSET A |->
                IF t = {} THEN 0 ELSE AccountSum(entries, S, CHOOSE a \in t : TRUE)
                                      + g[t \ {CHOOSE a \in t : TRUE}]]
           r == CHOOSE g : g = Round(g)
<1>1. AllSum(entries, S, A) = r[A]
  BY DEF AllSum, MapThenSumSet, MapThenFoldSet
<1>2. ASSUME NEW g PROVE Round(g) = SumRound(f, A, g)
  <2>1. \A t \in SUBSET A : t # {} =>
          f[Taken(t)] = AccountSum(entries, S, CHOOSE a \in t : TRUE)
    BY TakenIsElement DEF Taken
  <2>2. QED
    BY <2>1 DEF SumRound, Taken
<1>3. (\E g : g = Round(g)) => r = Round(r)
  OBVIOUS
<1> HIDE DEF Round, r
<1>4. (\E g : g = SumRound(f, A, g)) => r = SumRound(f, A, r)
  BY <1>2, <1>3
<1>5. QED
  BY <1>1, <1>4, SumOfFold

\* A table may be added up by its rows or by its columns.
LEMMA SumSwap ==
  ASSUME NEW A, IsFiniteSet(A), NEW S, IsFiniteSet(S),
         NEW t, \A a \in A, o \in S : t[a][o] \in Int
  PROVE  LET row == [a \in A |-> SumOver(t[a], S)]
             column == [o \in S |-> SumOver([a \in A |-> t[a][o]], A)]
         IN /\ Summable(row, A) /\ Summable(column, S)
            /\ SumOver(row, A) = SumOver(column, S)
<1> DEFINE row == [a \in A |-> SumOver(t[a], S)]
           turned == [o \in S |-> [a \in A |-> t[a][o]]]
           upTo == [B \in SUBSET A |-> [o \in S |-> SumOver(turned[o], B)]]
           good == {B \in SUBSET A : SumOver(row, B) = SumOver(upTo[B], S)}
<1>1. \A a \in A : Summable(t[a], S) /\ row[a] = SumOver(t[a], S)
  BY DEF Summable
<1>2. Summable(row, A)
  BY <1>1, SumType DEF Summable
<1>3. \A o \in S : /\ \A a \in A : turned[o][a] = t[a][o]
                   /\ Summable(turned[o], A)
  BY DEF Summable
<1> HIDE DEF row, turned
<1>4. ASSUME NEW B \in SUBSET A, NEW o \in S
      PROVE  Summable(turned[o], B) /\ upTo[B][o] = SumOver(turned[o], B) /\ upTo[B][o] \in Int
  <2>1. Summable(turned[o], B)
    BY <1>3, FS_Subset DEF Summable
  <2>2. QED
    BY <2>1, SumType
<1> HIDE DEF upTo
<1>5. \A B \in SUBSET A : Summable(upTo[B], S)
  BY <1>4 DEF Summable
<1>6. ASSUME NEW B \in SUBSET A, \A C \in SUBSET B : C # B => C \in good
      PROVE  B \in good
  <2>1. CASE B = {}
    <3>1. \A o \in S : upTo[B][o] = 0
      BY <1>4, <2>1, SumEmpty
    <3>2. SumOver(upTo[B], S) = 0
      BY <1>5, <3>1, SumZero
    <3>3. QED
      BY <2>1, <3>2, SumEmpty
  <2>2. CASE B # {}
    <3>1. PICK x \in B : TRUE
      BY <2>2
    <3> DEFINE C == B \ {x}
    <3>2. C \in SUBSET A /\ C \in good
      BY <1>6, <3>1
    <3>3. Summable(row, B)
      BY <1>2, FS_Subset DEF Summable
    <3>4. SumOver(row, B) = row[x] + SumOver(row, C)
      BY <3>1, <3>3, SumRemove
    <3>5. \A o \in S : upTo[B][o] = t[x][o] + upTo[C][o]
      <4> SUFFICES ASSUME NEW o \in S PROVE upTo[B][o] = t[x][o] + upTo[C][o]
        OBVIOUS
      <4>1. SumOver(turned[o], B) = turned[o][x] + SumOver(turned[o], C)
        BY <1>4, <3>1, SumRemove
      <4>2. /\ turned[o][x] = t[x][o]
            /\ upTo[B][o] = SumOver(turned[o], B) /\ upTo[C][o] = SumOver(turned[o], C)
        BY <1>3, <1>4, <3>1, <3>2
      <4>3. QED
        BY <4>1, <4>2
    <3> HIDE DEF C
    <3>6. Summable(t[x], S) /\ Summable(upTo[C], S)
      BY <1>1, <1>5, <3>1, <3>2
    <3>7. SumOver(upTo[B], S) = SumOver(t[x], S) + SumOver(upTo[C], S)
      BY <3>5, <3>6, SumAdd
    <3>8. SumOver(row, C) = SumOver(upTo[C], S) /\ row[x] = SumOver(t[x], S)
      BY <1>1, <3>1, <3>2
    <3>9. QED
      BY <3>4, <3>7, <3>8
  <2>3. QED
    BY <2>1, <2>2
<1> HIDE DEF good
<1>7. A \in good
  BY <1>6, SubsetInduction
<1>8. upTo[A] = [o \in S |-> SumOver([a \in A |-> t[a][o]], A)]
  BY DEF upTo, turned
<1>9. QED
  BY <1>2, <1>5, <1>7, <1>8 DEF good, row

\* The entry of an operation that has one, and its amount.
EntryOf(o) == CHOOSE e \in opEntries[o] : TRUE
Amount(o) == EntryOf(o).amount

\* An operation that affects profit has one entry, signed as its type says.
LEMMA ProfitEntry ==
  Ground =>
    \A o \in Confirmed : AffectsProfit(o) =>
      /\ opEntries[o] = {EntryOf(o)} /\ EntryOf(o) \in MoneyEntry /\ Amount(o) \in Int
      /\ SignedTotal(o) = Amount(o)
      /\ opType[o] = "income" <=> Amount(o) > 0
      /\ Amount(o) # 0
<1> SUFFICES ASSUME Ground, NEW o \in Confirmed, AffectsProfit(o)
             PROVE  /\ opEntries[o] = {EntryOf(o)} /\ EntryOf(o) \in MoneyEntry
                    /\ Amount(o) \in Int
                    /\ SignedTotal(o) = Amount(o)
                    /\ opType[o] = "income" <=> Amount(o) > 0
                    /\ Amount(o) # 0
  OBVIOUS
<1>1. /\ IncomeExpenseShape(opType[o], opEntries[o])
      /\ opEntries[o] \in SUBSET MoneyEntry
      /\ Fits(opType[o], opEntries[o])
  BY DEF Ground, OperationsSound, Sound, Confirmed, Recorded, Fits, AffectsProfit,
         TypeOK, LedgerTypeOK
<1>2. PICK e \in opEntries[o] :
        /\ opEntries[o] = {e}
        /\ IF opType[o] = "income" THEN e.amount > 0 ELSE e.amount < 0
  BY <1>1 DEF IncomeExpenseShape
<1>3. EntryOf(o) = e /\ e \in MoneyEntry /\ e.amount \in Int
  BY <1>1, <1>2 DEF EntryOf, MoneyEntry
<1>4. SignedTotal(o) = e.amount
  <2>1. {x \in opEntries[o] : x.account = e.account} = opEntries[o]
    BY <1>2
  <2>2. SignedTotal(o) = EntrySum(opEntries[o], e.account)
    BY <2>1 DEF SignedTotal, EntrySum
  <2>3. QED
    BY <1>1, <2>2, EntrySumValue
<1>5. QED
  BY <1>2, <1>3, <1>4 DEF Amount

\* What each operation adds to the income and to the expense.
Gains(L) == [o \in L |-> IF Amount(o) > 0 THEN Amount(o) ELSE 0]
Losses(L) == [o \in L |-> IF Amount(o) < 0 THEN -Amount(o) ELSE 0]

\* What the operations listed earned and spent can be summed.
LEMMA ListedSummable ==
  ASSUME Ground, NEW accounts, NEW currency
  PROVE  LET L == OperationsListed(accounts, currency)
         IN Summable(Gains(L), L) /\ Summable(Losses(L), L)
<1> DEFINE L == OperationsListed(accounts, currency)
<1>1. L \in SUBSET Confirmed /\ \A o \in L : AffectsProfit(o)
  BY DEF OperationsListed
<1>2. IsFiniteSet(L)
  BY <1>1, FS_Subset DEF Ground, FinitelyMany
<1>3. \A o \in L : Amount(o) \in Int
  BY <1>1, ProfitEntry
<1> HIDE DEF L
<1>4. QED
  BY <1>2, <1>3 DEF Summable, Gains, Losses, L

\* The chat's way.
LEMMA OperationsAddUp ==
  ASSUME Ground, NEW accounts, NEW currency
  PROVE  LET L == OperationsListed(accounts, currency)
         IN OperationSummary(accounts, currency)
              = [income |-> SumOver(Gains(L), L), expense |-> SumOver(Losses(L), L)]
<1> DEFINE L == OperationsListed(accounts, currency)
<1>1. L \in SUBSET Confirmed /\ \A o \in L : AffectsProfit(o)
  BY DEF OperationsListed
<1>2. Summable(Gains(L), L) /\ Summable(Losses(L), L)
  BY ListedSummable
<1> HIDE DEF L
<1> DEFINE earned == Incomes(L)
           spent == L \ Incomes(L)
<1>3. \A o \in L : /\ Amount(o) \in Int /\ SignedTotal(o) = Amount(o)
                   /\ o \in earned <=> Amount(o) > 0
                   /\ o \in spent <=> Amount(o) < 0
  BY <1>1, ProfitEntry DEF Incomes
<1>4. earned \in SUBSET L /\ spent \in SUBSET L
  BY DEF Incomes
<1> HIDE DEF earned, spent
<1>5. GainSum(earned) = SumOver(Gains(L), L)
  <2> DEFINE f == Gains(L)
  <2>1. Summable(f, earned)
    BY <1>2, <1>4, FS_Subset DEF Summable
  <2>2. /\ \A o \in earned : f[o] = IF SignedTotal(o) > 0 THEN SignedTotal(o) ELSE 0
        /\ \A o \in L \ earned : f[o] = 0
    BY <1>3, <1>4 DEF Gains
  <2>3. Summable(f, L)
    BY <1>2
  <2> HIDE DEF f
  <2>4. GainSum(earned) = SumOver(f, earned)
    BY <2>1, <2>2, GainSumIs
  <2>5. SumOver(f, L) = SumOver(f, earned)
    BY <1>4, <2>2, <2>3, SumSubset
  <2>6. QED
    BY <2>4, <2>5 DEF f
<1>6. LossSum(spent) = SumOver(Losses(L), L)
  <2> DEFINE f == Losses(L)
  <2>1. Summable(f, spent)
    BY <1>2, <1>4, FS_Subset DEF Summable
  <2>2. /\ \A o \in spent : f[o] = IF SignedTotal(o) < 0 THEN -SignedTotal(o) ELSE 0
        /\ \A o \in L \ spent : f[o] = 0
    BY <1>3, <1>4 DEF Losses
  <2>3. Summable(f, L)
    BY <1>2
  <2> HIDE DEF f
  <2>4. LossSum(spent) = SumOver(f, spent)
    BY <2>1, <2>2, LossSumIs
  <2>5. SumOver(f, L) = SumOver(f, spent)
    BY <1>4, <2>2, <2>3, SumSubset
  <2>6. QED
    BY <2>4, <2>5 DEF f
<1>7. OperationSummary(accounts, currency)
        = [income |-> GainSum(earned), expense |-> LossSum(spent)]
  BY OperationSummaryUnfolded DEF L, earned, spent
<1>8. QED
  BY <1>5, <1>6, <1>7 DEF L

\* The web's way.
LEMMA EntriesAddUp ==
  ASSUME Ground, NEW accounts, NEW currency
  PROVE  LET L == OperationsListed(accounts, currency)
         IN MoneySummary(accounts, currency)
              = [income |-> SumOver(Gains(L), L), expense |-> SumOver(Losses(L), L)]
<1> DEFINE L == OperationsListed(accounts, currency)
           shown == EntriesShown(accounts, currency)
           pair == [o \in L |-> <<o, EntryOf(o)>>]
           part == [x \in shown |-> Magnitude(x[2].amount)]
<1>1. \A o \in L : /\ o \in Confirmed /\ AffectsProfit(o)
                   /\ opEntries[o] = {EntryOf(o)} /\ Amount(o) \in Int
  BY ProfitEntry DEF OperationsListed
<1>2. shown = {pair[o] : o \in L}
  <2>1. ASSUME NEW x \in shown PROVE \E o \in L : x = pair[o]
    <3>1. PICK o \in Confirmed : x \in {o} \X opEntries[o]
      BY DEF EntriesShown
    <3>2. x = <<o, x[2]>> /\ x[1] = o /\ x[2] \in opEntries[o]
      BY <3>1
    <3>3. AffectsProfit(o) /\ x[2].account \in accounts /\ InCurrency(x[2], currency)
      BY <3>2 DEF EntriesShown
    <3>4. o \in L
      BY <3>2, <3>3 DEF OperationsListed
    <3>5. x[2] = EntryOf(o)
      BY <1>1, <3>2, <3>4
    <3> HIDE DEF L
    <3>6. QED
      BY <3>2, <3>4, <3>5
  <2>2. ASSUME NEW o \in L PROVE pair[o] \in shown
    <3>1. /\ o \in Confirmed /\ AffectsProfit(o) /\ EntryOf(o) \in opEntries[o]
          /\ EntryOf(o).account \in accounts /\ InCurrency(EntryOf(o), currency)
      BY <1>1 DEF OperationsListed
    <3> DEFINE x == <<o, EntryOf(o)>>
    <3>2. x \in {o} \X opEntries[o] /\ x[1] = o /\ x[2] = EntryOf(o)
      BY <3>1
    <3>3. pair[o] = x
      OBVIOUS
    <3> HIDE DEF x, pair
    <3>4. x \in shown
      BY <3>1, <3>2 DEF EntriesShown
    <3>5. QED
      BY <3>3, <3>4
  <2> HIDE DEF L, shown, pair
  <2>3. QED
    BY <2>1, <2>2
<1>3. \A o \in L : pair[o][1] = o /\ pair[o][2].amount = Amount(o)
  BY DEF Amount
<1>4. Summable(Gains(L), L) /\ Summable(Losses(L), L)
  BY ListedSummable
<1> HIDE DEF L, shown, pair
<1>5. \A o, y \in L : pair[o] = pair[y] => o = y
  BY <1>3
<1>6. PairSum({x \in shown : x[2].amount > 0}) = SumOver(Gains(L), L)
  <2> DEFINE S == {o \in L : Amount(o) > 0}
             f == Gains(L)
             P == {x \in shown : x[2].amount > 0}
  <2>1. S \in SUBSET L /\ \A o \in L \ S : f[o] = 0
    BY DEF Gains
  <2>2. Summable(f, L) /\ Summable(f, S)
    BY <1>4, <2>1, FS_Subset DEF Summable
  <2>3. P = {pair[o] : o \in S}
    BY <1>2, <1>3
  <2>4. \A o \in S : part[pair[o]] = f[o]
    <3> SUFFICES ASSUME NEW o \in S PROVE part[pair[o]] = f[o]
      OBVIOUS
    <3>1. pair[o] \in shown /\ pair[o][2].amount = Amount(o)
      BY <1>2, <1>3
    <3>2. Amount(o) \in Int /\ Amount(o) > 0
      BY <1>1
    <3>3. f[o] = Amount(o)
      BY <3>2 DEF Gains
    <3>4. QED
      BY <3>1, <3>2, <3>3 DEF Magnitude
  <2>5. \A x \in P : part[x] = Magnitude(x[2].amount)
    OBVIOUS
  <2> HIDE DEF S, f, P, part
  <2>6. \A o, y \in S : pair[o] = pair[y] => o = y
    BY <1>5, <2>1
  <2>7. Summable(part, P) /\ SumOver(part, P) = SumOver(f, S)
    BY <2>2, <2>3, <2>4, <2>6, SumImage
  <2>8. PairSum(P) = SumOver(part, P)
    BY <2>5, <2>7, PairSumIs
  <2>9. SumOver(f, L) = SumOver(f, S)
    BY <2>1, <2>2, SumSubset
  <2>10. QED
    BY <2>7, <2>8, <2>9 DEF f, P
<1>7. PairSum({x \in shown : x[2].amount < 0}) = SumOver(Losses(L), L)
  <2> DEFINE S == {o \in L : Amount(o) < 0}
             f == Losses(L)
             P == {x \in shown : x[2].amount < 0}
  <2>1. S \in SUBSET L /\ \A o \in L \ S : f[o] = 0
    BY DEF Losses
  <2>2. Summable(f, L) /\ Summable(f, S)
    BY <1>4, <2>1, FS_Subset DEF Summable
  <2>3. P = {pair[o] : o \in S}
    BY <1>2, <1>3
  <2>4. \A o \in S : part[pair[o]] = f[o]
    <3> SUFFICES ASSUME NEW o \in S PROVE part[pair[o]] = f[o]
      OBVIOUS
    <3>1. pair[o] \in shown /\ pair[o][2].amount = Amount(o)
      BY <1>2, <1>3
    <3>2. Amount(o) \in Int /\ Amount(o) < 0
      BY <1>1
    <3>3. f[o] = -Amount(o)
      BY <3>2 DEF Losses
    <3>4. QED
      BY <3>1, <3>2, <3>3 DEF Magnitude
  <2>5. \A x \in P : part[x] = Magnitude(x[2].amount)
    OBVIOUS
  <2> HIDE DEF S, f, P, part
  <2>6. \A o, y \in S : pair[o] = pair[y] => o = y
    BY <1>5, <2>1
  <2>7. Summable(part, P) /\ SumOver(part, P) = SumOver(f, S)
    BY <2>2, <2>3, <2>4, <2>6, SumImage
  <2>8. PairSum(P) = SumOver(part, P)
    BY <2>5, <2>7, PairSumIs
  <2>9. SumOver(f, L) = SumOver(f, S)
    BY <2>1, <2>2, SumSubset
  <2>10. QED
    BY <2>7, <2>8, <2>9 DEF f, P
<1>8. MoneySummary(accounts, currency)
        = [income |-> PairSum({x \in shown : x[2].amount > 0}),
           expense |-> PairSum({x \in shown : x[2].amount < 0})]
  BY MoneySummaryUnfolded DEF shown
<1>9. QED
  BY <1>6, <1>7, <1>8 DEF L

\* What an operation moves on all accounts of a currency: an income or expense
\* its amount, a transfer nothing.
LEMMA OperationMoves ==
  ASSUME Ground, NEW currency, NEW o \in Confirmed
  PROVE  LET A == AccountsIn(currency)
             moves == [a \in A |-> EntrySum(opEntries[o], a)]
         IN /\ Summable(moves, A)
            /\ SumOver(moves, A) = IF o \in OperationsListed(Account, currency)
                                   THEN Amount(o) ELSE 0
<1> DEFINE A == AccountsIn(currency)
           moves == [a \in A |-> EntrySum(opEntries[o], a)]
<1>1. opEntries[o] \in SUBSET MoneyEntry /\ Fits(opType[o], opEntries[o])
  BY DEF Ground, OperationsSound, Sound, Confirmed, Recorded, TypeOK, LedgerTypeOK
<1>2. IsFiniteSet(A)
  BY AccountsFinite, FS_Subset DEF AccountsIn
<1>3. Summable(moves, A)
  BY <1>1, <1>2, EntrySumValue DEF Summable
<1>4. /\ \A e \in opEntries[o] : e.account \in A => moves[e.account] = e.amount
      /\ \A a \in A : (\A e \in opEntries[o] : e.account # a) => moves[a] = 0
  BY <1>1, EntrySumValue
<1>5. \A e \in opEntries[o] : /\ e.account \in Account /\ e.amount \in Int
                              /\ e.account \in A <=> InCurrency(e, currency)
  BY <1>1 DEF MoneyEntry, AccountsIn, InCurrency
<1> HIDE DEF A, moves
<1>6. CASE AffectsProfit(o)
  <2> DEFINE e == EntryOf(o)
  <2>1. opEntries[o] = {e} /\ Amount(o) = e.amount /\ Amount(o) \in Int
    BY <1>6, ProfitEntry DEF Amount
  <2>2. e \in opEntries[o]
    BY <2>1
  <2> HIDE DEF e
  <2>3. o \in OperationsListed(Account, currency) <=> e.account \in A
    <3>1. e.account \in Account /\ (e.account \in A <=> InCurrency(e, currency))
      BY <1>5, <2>2
    <3>2. o \in OperationsListed(Account, currency) <=>
            \E x \in opEntries[o] : x.account \in Account /\ InCurrency(x, currency)
      BY <1>6 DEF OperationsListed
    <3>3. QED
      BY <2>1, <3>1, <3>2
  <2>4. CASE e.account \in A
    <3> DEFINE a == e.account
    <3>1. moves[a] = Amount(o) /\ moves[a] \in Int
      BY <1>4, <2>1, <2>2, <2>4
    <3>2. {a} \in SUBSET A /\ \A x \in A \ {a} : moves[x] = 0
      BY <1>4, <2>1, <2>4
    <3> HIDE DEF a
    <3>3. SumOver(moves, A) = SumOver(moves, {a})
      BY <1>3, <3>2, SumSubset
    <3>4. SumOver(moves, {a}) = Amount(o)
      BY <3>1, SumSingle
    <3>5. QED
      BY <1>3, <2>3, <2>4, <3>3, <3>4 DEF A, moves
  <2>5. CASE e.account \notin A
    <3>1. \A x \in A : moves[x] = 0
      BY <1>4, <2>1, <2>5
    <3>2. SumOver(moves, A) = 0
      BY <1>3, <3>1, SumZero
    <3>3. QED
      BY <1>3, <2>3, <2>5, <3>2 DEF A, moves
  <2>6. QED
    BY <2>4, <2>5
<1>7. CASE ~AffectsProfit(o)
  <2>1. TransferShape(opEntries[o])
    BY <1>1, <1>7 DEF AffectsProfit, Fits
  <2>2. PICK e \in opEntries[o], f \in opEntries[o] :
          /\ opEntries[o] = {e, f} /\ e.account # f.account
          /\ SameCurrency(e.account, f.account) /\ e.amount + f.amount = 0
    BY <2>1 DEF TransferShape
  <2>3. o \notin OperationsListed(Account, currency)
    BY <1>7 DEF OperationsListed
  <2>4. e.account \in A <=> f.account \in A
    <3>1. /\ e.account \in A <=> InCurrency(e, currency)
          /\ f.account \in A <=> InCurrency(f, currency)
      BY <1>5
    <3>2. QED
      BY <2>2, <3>1 DEF InCurrency, SameCurrency
  <2>5. SumOver(moves, A) = 0
    <3>1. CASE e.account \in A
      <4> DEFINE a == e.account
                 b == f.account
                 both == {a, b}
      <4>1. /\ both \in SUBSET A /\ a # b
            /\ \A x \in A \ both : moves[x] = 0
            /\ moves[a] = e.amount /\ moves[b] = f.amount
        BY <1>4, <2>2, <2>4, <3>1
      <4>2. moves[a] \in Int /\ moves[b] \in Int /\ moves[a] + moves[b] = 0
        <5>1. e.amount \in Int /\ f.amount \in Int
          BY <1>5
        <5>2. QED
          BY <2>2, <4>1, <5>1
      <4>3. both \ {a} = {b} /\ a \in both
        BY <4>1
      <4> HIDE DEF a, b, both
      <4>4. SumOver(moves, A) = SumOver(moves, both)
        BY <1>3, <4>1, SumSubset
      <4>5. Summable(moves, both)
        BY <1>3, <4>1, FS_Subset DEF Summable
      <4>6. SumOver(moves, both) = moves[a] + SumOver(moves, {b})
        BY <4>3, <4>5, SumRemove
      <4>7. SumOver(moves, {b}) = moves[b]
        BY <4>2, SumSingle
      <4>8. QED
        BY <4>2, <4>4, <4>6, <4>7
    <3>2. CASE e.account \notin A
      <4>1. \A x \in A : moves[x] = 0
        BY <1>4, <2>2, <2>4, <3>2
      <4>2. QED
        BY <1>3, <4>1, SumZero
    <3>3. QED
      BY <3>1, <3>2
  <2>6. QED
    BY <1>3, <2>3, <2>5 DEF A, moves
<1>8. QED
  BY <1>6, <1>7

\* The balances of a currency gained the income less the expense.
LEMMA BalancesAddUp ==
  ASSUME Ground, NEW currency
  PROVE  LET L == OperationsListed(Account, currency)
         IN BalanceChange(currency) = SumOver(Gains(L), L) - SumOver(Losses(L), L)
<1> DEFINE A == AccountsIn(currency)
           L == OperationsListed(Account, currency)
           S == Confirmed
           t == [a \in A |-> [o \in S |-> EntrySum(opEntries[o], a)]]
           row == [a \in A |-> SumOver(t[a], S)]
           column == [o \in S |-> SumOver([a \in A |-> t[a][o]], A)]
<1>1. IsFiniteSet(A) /\ IsFiniteSet(S)
  BY AccountsFinite, FS_Subset DEF AccountsIn, Ground, FinitelyMany
<1>2. ASSUME NEW o \in S PROVE /\ \A a \in A : t[a][o] \in Int
                               /\ column[o] = IF o \in L THEN Amount(o) ELSE 0
  <2> DEFINE moves == [a \in A |-> EntrySum(opEntries[o], a)]
  <2>1. Summable(moves, A) /\ SumOver(moves, A) = IF o \in L THEN Amount(o) ELSE 0
    BY OperationMoves
  <2>2. \A a \in A : t[a][o] = moves[a] /\ moves[a] \in Int
    BY <2>1 DEF Summable
  <2>3. [a \in A |-> t[a][o]] = moves
    OBVIOUS
  <2>4. QED
    BY <2>1, <2>2, <2>3
<1>3. \A a \in A, o \in S : t[a][o] \in Int
  BY <1>2
<1>4. \A a \in A : row[a] = AccountSum(opEntries, S, a)
  <2> SUFFICES ASSUME NEW a \in A PROVE row[a] = AccountSum(opEntries, S, a)
    OBVIOUS
  <2> DEFINE f == t[a]
  <2>1. Summable(f, S) /\ \A o \in S : f[o] = EntrySum(opEntries[o], a)
    BY <1>1, <1>3 DEF Summable
  <2>2. row[a] = SumOver(f, S)
    OBVIOUS
  <2> HIDE DEF f, row, t
  <2>3. AccountSum(opEntries, S, a) = SumOver(f, S)
    BY <2>1, AccountSumIs
  <2>4. QED
    BY <2>2, <2>3
<1>5. /\ Summable(row, A) /\ Summable(column, S)
      /\ SumOver(row, A) = SumOver(column, S)
  <2> HIDE DEF A, S, t
  <2>1. QED
    BY <1>1, <1>3, SumSwap
<1>6. L \in SUBSET S /\ \A o \in S : column[o] = IF o \in L THEN Amount(o) ELSE 0
  BY <1>2 DEF OperationsListed
<1>7. BalanceChange(currency) = AllSum(opEntries, S, A)
  BY BalanceChangeUnfolded
<1>8. Summable(Gains(L), L) /\ Summable(Losses(L), L)
  BY ListedSummable
<1>9. \A o \in L : Amount(o) \in Int
  BY ProfitEntry DEF OperationsListed
<1> HIDE DEF A, L, S, t, row, column
<1>10. AllSum(opEntries, S, A) = SumOver(row, A)
  BY <1>4, <1>5, AllSumIs
<1>11. SumOver(column, S) = SumOver(column, L)
  BY <1>5, <1>6, SumSubset
<1> DEFINE gains == Gains(L)
           losses == Losses(L)
<1>12. \A o \in L : gains[o] = column[o] + losses[o]
  BY <1>6, <1>9 DEF Gains, Losses
<1>13. Summable(column, L)
  BY <1>5, <1>6, FS_Subset DEF Summable
<1> HIDE DEF gains, losses
<1>14. Summable(losses, L) /\ Summable(gains, L)
  BY <1>8 DEF gains, losses
<1>15. SumOver(gains, L) = SumOver(column, L) + SumOver(losses, L)
  BY <1>12, <1>13, <1>14, SumAdd
<1>16. SumOver(gains, L) \in Int /\ SumOver(column, L) \in Int /\ SumOver(losses, L) \in Int
  BY <1>13, <1>14, SumType
<1>17. BalanceChange(currency) = SumOver(column, L)
  BY <1>5, <1>7, <1>10, <1>11
<1>18. BalanceChange(currency) = SumOver(gains, L) - SumOver(losses, L)
  BY <1>15, <1>16, <1>17
<1>19. QED
  BY <1>18 DEF L, gains, losses

\* The web's and the chat's figures agree, and explain what the balances gained.
THEOREM TheReportsAgree == Spec => []ReportsAgree
<1>1. ASSUME IInv PROVE ReportsAgree
  <2>1. Ground
    BY <1>1, GroundHolds
  <2>2. ASSUME NEW currency, NEW accounts
        PROVE  MoneySummary(accounts, currency) = OperationSummary(accounts, currency)
    BY <2>1, OperationsAddUp, EntriesAddUp
  <2>3. ASSUME NEW currency
        PROVE  BalanceChange(currency) = MoneySummary(Account, currency).income
                                         - MoneySummary(Account, currency).expense
    <3> DEFINE L == OperationsListed(Account, currency)
    <3>1. MoneySummary(Account, currency)
            = [income |-> SumOver(Gains(L), L), expense |-> SumOver(Losses(L), L)]
      BY <2>1, EntriesAddUp
    <3>2. BalanceChange(currency) = SumOver(Gains(L), L) - SumOver(Losses(L), L)
      BY <2>1, BalancesAddUp
    <3> HIDE DEF L
    <3>3. QED
      BY <3>1, <3>2
  <2>4. QED
    BY <2>2, <2>3 DEF ReportsAgree
<1>2. QED
  BY <1>1, InitMoney, StepMoney, PTL DEF Spec
=============================================================================
