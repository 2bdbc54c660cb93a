--------------------------- MODULE MCImportReview ---------------------------
(* Instances of ImportReview for TLC.  Each group of definitions below is one *)
(* situation; the configurations choose among them.                           *)
EXTENDS ImportBooking, TLC

CONSTANTS a, b, rub, d1, d2, r1, r2, h1, h2

MCCurrencyOf == [x \in Account |-> rub]

\* Two statements of account a with overlapping periods: the second one
\* repeats the transaction of the first.
OverlapDocumentOf == r1 :> d1 @@ r2 :> d2
OverlapAccount == d1 :> a @@ d2 :> a
OverlapAmountOf == r1 :> -1 @@ r2 :> -1
OverlapHashOf == r1 :> h1 @@ r2 :> h1
OverlapFingerprintOf == OverlapHashOf

\* Statements of two accounts that show the two sides of one transfer.
TwoSidesDocumentOf == r1 :> d1 @@ r2 :> d2
TwoSidesAccount == d1 :> a @@ d2 :> b
TwoSidesAmountOf == r1 :> -1 @@ r2 :> 1
TwoSidesHashOf == r1 :> h1 @@ r2 :> h2
TwoSidesFingerprintOf == TwoSidesHashOf

Interchangeable == Permutations(Operation) \cup Permutations(Key)
=============================================================================
