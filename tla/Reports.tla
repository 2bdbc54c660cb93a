------------------------------- MODULE Reports -------------------------------
(***************************************************************************)
(* What the reports say of the ledger, features/reports.  The web overview *)
(* adds up money entries in the database (repository.py), the chat's       *)
(* monthly summary and the category pages add up operations in memory      *)
(* (service.py): the same figures by two ways.  Reading changes nothing,   *)
(* so the figures are operators over the state of Debts.                   *)
(*                                                                         *)
(* Periods, categories and properties restrict both ways alike and are     *)
(* left out; ordinary accounts begin with no money.                        *)
(***************************************************************************)
EXTENDS Debts

ASSUME AccountsFinite == IsFiniteSet(Account)

\* Mutant: what a debt posts counts as profit, principal included.
AffectsProfitOfDebts(o) == opType[o] # "transfer" \/ opSource[o] = "debt"

\* affects_profit, set with the type at every posting and every edit
AffectsProfit(o) == opType[o] # "transfer"

InCurrency(entry, currency) == CurrencyOf[entry.account] = currency

EntriesShown(accounts, currency) ==
  {oe \in UNION {{o} \X opEntries[o] : o \in Confirmed} :
     /\ AffectsProfit(oe[1])
     /\ oe[2].account \in accounts /\ InCurrency(oe[2], currency)}

\* read_money_summary: the entries by their sign
MoneySummary(accounts, currency) ==
  LET Total(entries) == MapThenSumSet(LAMBDA oe : Magnitude(oe[2].amount), entries)
      shown == EntriesShown(accounts, currency)
  IN [income  |-> Total({oe \in shown : oe[2].amount > 0}),
      expense |-> Total({oe \in shown : oe[2].amount < 0})]

\* operation_signed_total, of all entries of an operation
SignedTotal(o) == MapThenSumSet(LAMBDA e : e.amount, opEntries[o])

\* An operation is listed when one of its entries is asked for.
OperationsListed(accounts, currency) ==
  {o \in Confirmed :
     /\ AffectsProfit(o)
     /\ \E e \in opEntries[o] : e.account \in accounts /\ InCurrency(e, currency)}

\* summarize_income_expense: the operations by their type, or else their sign
OperationSummary(accounts, currency) ==
  LET listed == OperationsListed(accounts, currency)
      incomes == {o \in listed : opType[o] = "income" \/ SignedTotal(o) > 0}
      Gain(o) == IF SignedTotal(o) > 0 THEN SignedTotal(o) ELSE 0
      Loss(o) == IF SignedTotal(o) < 0 THEN -SignedTotal(o) ELSE 0
  IN [income  |-> MapThenSumSet(Gain, incomes),
      expense |-> MapThenSumSet(Loss, listed \ incomes)]

AccountsIn(currency) == {a \in Account : CurrencyOf[a] = currency}

\* balance_change of the overview: closing less opening balances
BalanceChange(currency) ==
  MapThenSumSet(LAMBDA a : MapThenSumSet(LAMBDA o : EntryOn(o, a), Confirmed),
                AccountsIn(currency))

\* The web and the chat show one income and one expense, of all accounts and of
\* each, and profit explains what all balances gained: transfers, loans and
\* repayments move money between accounts and are no profit, interest is.
ReportsAgree ==
  \A currency \in Currency :
    /\ \A accounts \in {Account} \cup {{a} : a \in Account} :
         MoneySummary(accounts, currency) = OperationSummary(accounts, currency)
    /\ LET summary == MoneySummary(Account, currency)
       IN BalanceChange(currency) = summary.income - summary.expense
=============================================================================
