------------------------------- MODULE Ledger -------------------------------
(***************************************************************************)
(* The operations of one workspace's ledger: what features/ledger keeps in *)
(* the tables operations and money_entries, and the manual commands on it. *)
(* Every command locks the workspace row before it reads (the API through  *)
(* get_api_request_context, the chat through require_bound_workspace) and  *)
(* commits once, so a command is one step.                                 *)
(*                                                                         *)
(* An operation is described by one function per column.  Categories,      *)
(* properties, descriptions and dates are left out: nothing here depends   *)
(* on them.  Operation identifiers are UUIDs, so a deleted identifier is   *)
(* never taken again.                                                      *)
(***************************************************************************)
EXTENDS Integers, FiniteSets

CONSTANTS Operation,      \* identifiers the history may use (a bound)
          Account,
          Currency,
          CurrencyOf,     \* the currency of each account
          ManualAmount,   \* amounts a user may type (a bound)
          Key,            \* idempotency keys clients generate
          NoKey,          \* a command sent without a key
          ManualRequest   \* the fingerprint of any manual command

ASSUME AccountsHaveCurrency == CurrencyOf \in [Account -> Currency]
ASSUME ManualAmountsPositive == ManualAmount \subseteq Nat \ {0}
ASSUME NoKeyIsNoKey == NoKey \notin Key

VARIABLES opStatus,   \* unused, confirmed, ignored or deleted
          opSource,   \* which commands may correct it
          opType,     \* income, expense or transfer
          opEntries,  \* its money entries, signed, one per account
          opKey,      \* idempotency_key, unique in the workspace
          opRequest   \* idempotency_fingerprint and the import metadata

ledgerVars == <<opStatus, opSource, opType, opEntries, opKey, opRequest>>

\* The code never writes draft, needs_review or duplicate to an operation.
OperationStatus == {"unused", "confirmed", "ignored", "deleted"}
OperationSource == {"manual", "bank_pdf", "debt"}
OperationType == {"income", "expense", "transfer"}

Entry(account, amount) == [account |-> account, amount |-> amount]
MoneyEntry == [account : Account, amount : Int]

LedgerTypeOK ==
  /\ opStatus \in [Operation -> OperationStatus]
  /\ opSource \in [Operation -> OperationSource]
  /\ opType \in [Operation -> OperationType]
  /\ opEntries \in [Operation -> SUBSET MoneyEntry]
  /\ opKey \in [Operation -> Key \cup {NoKey}]

LedgerInit ==
  /\ opStatus = [o \in Operation |-> "unused"]
  /\ opSource = [o \in Operation |-> "manual"]
  /\ opType = [o \in Operation |-> "income"]
  /\ opEntries = [o \in Operation |-> {}]
  /\ opKey = [o \in Operation |-> NoKey]
  /\ opRequest = [o \in Operation |-> ManualRequest]

\* The row exists in the table.
Recorded(o) == opStatus[o] \in {"confirmed", "ignored"}

\* No recorded operation holds the key: a command under a held key is
\* answered as a replay or refused as a conflict, and changes nothing.
KeyFree(key) ==
  key = NoKey \/ \A o \in Operation : Recorded(o) => opKey[o] # key

-----------------------------------------------------------------------------
(* Posting *)

SameCurrency(a, b) == CurrencyOf[a] = CurrencyOf[b]

IncomeExpenseEntries(type, account, amount) ==
  {Entry(account, IF type = "income" THEN amount ELSE -amount)}

TransferEntries(from, to, amount) == {Entry(from, -amount), Entry(to, amount)}

\* A new operation is confirmed from the start.
Post(o, source, type, entries, key, request) ==
  /\ opStatus[o] = "unused"
  /\ KeyFree(key)
  /\ opStatus' = [opStatus EXCEPT ![o] = "confirmed"]
  /\ opSource' = [opSource EXCEPT ![o] = source]
  /\ opType' = [opType EXCEPT ![o] = type]
  /\ opEntries' = [opEntries EXCEPT ![o] = entries]
  /\ opKey' = [opKey EXCEPT ![o] = key]
  /\ opRequest' = [opRequest EXCEPT ![o] = request]

-----------------------------------------------------------------------------
(* Manual commands.  expected_version only refuses commands, so the steps  *)
(* below are those whose version was current.                              *)

CreateIncomeExpense(o, type, account, amount, key) ==
  /\ type \in {"income", "expense"}
  /\ Post(o, "manual", type, IncomeExpenseEntries(type, account, amount),
          key, ManualRequest)

CreateTransfer(o, from, to, amount, key) ==
  /\ from # to
  /\ SameCurrency(from, to)
  /\ Post(o, "manual", "transfer", TransferEntries(from, to, amount),
          key, ManualRequest)

\* Mutant: imported operations can be edited too.
ReplaceAny(o, type, entries) ==
  /\ opStatus[o] = "confirmed"
  /\ opType' = [opType EXCEPT ![o] = type]
  /\ opEntries' = [opEntries EXCEPT ![o] = entries]
  /\ UNCHANGED <<opStatus, opSource, opKey, opRequest>>

\* can_edit; the type may change together with the entries.
Replace(o, type, entries) ==
  /\ opSource[o] = "manual"
  /\ opStatus[o] = "confirmed"
  /\ opType' = [opType EXCEPT ![o] = type]
  /\ opEntries' = [opEntries EXCEPT ![o] = entries]
  /\ UNCHANGED <<opStatus, opSource, opKey, opRequest>>

UpdateAsIncomeExpense(o, type, account, amount) ==
  /\ type \in {"income", "expense"}
  /\ Replace(o, type, IncomeExpenseEntries(type, account, amount))

UpdateAsTransfer(o, from, to, amount) ==
  /\ from # to
  /\ SameCurrency(from, to)
  /\ Replace(o, "transfer", TransferEntries(from, to, amount))

Cancel(o) ==
  /\ opSource[o] = "manual"
  /\ opStatus[o] = "confirmed"
  /\ opStatus' = [opStatus EXCEPT ![o] = "ignored"]
  /\ UNCHANGED <<opSource, opType, opEntries, opKey, opRequest>>

Restore(o) ==
  /\ opSource[o] = "manual"
  /\ opStatus[o] = "ignored"
  /\ opStatus' = [opStatus EXCEPT ![o] = "confirmed"]
  /\ UNCHANGED <<opSource, opType, opEntries, opKey, opRequest>>

\* The ledger's part of deleting: the row, its entries and its key are gone.
Erase(o) ==
  /\ opSource[o] = "manual"
  /\ opStatus[o] = "ignored"
  /\ opStatus' = [opStatus EXCEPT ![o] = "deleted"]
  /\ opEntries' = [opEntries EXCEPT ![o] = {}]
  /\ opKey' = [opKey EXCEPT ![o] = NoKey]
  /\ UNCHANGED <<opSource, opType, opRequest>>

\* Every manual command except the deletion, which also touches statement
\* rows and is a step of ImportReview.
ManualCommand ==
  \E o \in Operation :
    \/ \E type \in {"income", "expense"}, account \in Account,
          amount \in ManualAmount :
         \/ \E key \in Key \cup {NoKey} :
              CreateIncomeExpense(o, type, account, amount, key)
         \/ UpdateAsIncomeExpense(o, type, account, amount)
    \/ \E from, to \in Account, amount \in ManualAmount :
         \/ \E key \in Key \cup {NoKey} : CreateTransfer(o, from, to, amount, key)
         \/ UpdateAsTransfer(o, from, to, amount)
    \/ Cancel(o)
    \/ Restore(o)

-----------------------------------------------------------------------------
(* What an operation's entries must look like.                             *)

TransferShape(entries) ==
  \E e, f \in entries : /\ entries = {e, f}
                        /\ e.account # f.account
                        /\ SameCurrency(e.account, f.account)
                        /\ e.amount + f.amount = 0

IncomeExpenseShape(type, entries) ==
  \E e \in entries : /\ entries = {e}
                     /\ IF type = "income" THEN e.amount > 0 ELSE e.amount < 0

Fits(type, entries) == IF type = "transfer" THEN TransferShape(entries)
                                            ELSE IncomeExpenseShape(type, entries)

\* DOMAIN_MODEL.md, invariant 4: a transfer's entries sum to zero, on two
\* accounts of one currency; an income adds money to one account and an
\* expense takes it from one.  It must survive an edit that turns one type
\* into another, and every import posting.
EntriesFitType ==
  \A o \in Operation : Recorded(o) => Fits(opType[o], opEntries[o])

\* Two recorded operations never share an idempotency key, whichever command
\* each came from: a retried key can be answered from one operation only.
OneOperationPerKey ==
  \A o, p \in Operation :
    Recorded(o) /\ Recorded(p) /\ opKey[o] # NoKey /\ opKey[o] = opKey[p]
      => o = p
=============================================================================
