---------------------------- MODULE ImportBooking ----------------------------
(***************************************************************************)
(* ImportReview implements StatementBooking: a transaction is a dedupe     *)
(* hash, and it is booked as the operation that the row which carries the  *)
(* hash and is linked is linked to.                                        *)
(***************************************************************************)
EXTENDS ImportReview

RowsLinkedWith(h) == {r \in Row : HashOf[r] = h /\ Linked(r)}

BookedAs ==
  [h \in Hash |-> IF RowsLinkedWith(h) = {} THEN NoOperation
                  ELSE rowLink[CHOOSE r \in RowsLinkedWith(h) : TRUE]]

KindOf ==
  [o \in Operation |->
     IF ~Recorded(o) THEN opStatus[o]
     ELSE IF opSource[o] # "bank_pdf" THEN "manual"
     ELSE IF opStatus[o] = "confirmed" THEN "imported" ELSE "undone"]

Booking == INSTANCE StatementBooking
             WITH Transaction <- Hash, booking <- BookedAs, kind <- KindOf

\* Import review keeps the promise of StatementBooking.  Parsing, mapping,
\* rules, reviewing, ignoring and deleting documents change no booking; a
\* confirmation, a link, an undo or a deletion changes the bookings of one
\* operation, all of them where the promise says so, and never takes a
\* transaction from one operation to another.
StatementsBooked == Booking!Spec

==============================================================================
