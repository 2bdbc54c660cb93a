------------------------------- MODULE MCDebts -------------------------------
(* Instances of Debts for TLC: an ordinary account, money lent, a mortgage *)
(* and a credit card; the configurations choose among them.                *)
EXTENDS Reports, TLC

CONSTANTS cash, loan, mortgage, card, rub

MCCurrencyOf == [x \in Account |-> rub]
MCKindOf == [d \in DebtAccount |-> CASE d = loan     -> "loan_receivable"
                                     [] d = mortgage -> "mortgage"
                                     [] d = card     -> "credit_card"]

Interchangeable == Permutations(Operation) \cup Permutations(Payment)
=============================================================================
