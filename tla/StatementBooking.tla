-------------------------- MODULE StatementBooking --------------------------
(***************************************************************************)
(* What import review promises about the money on bank statements, without *)
(* statements, rows, duplicates or commands: a transaction that the bank   *)
(* printed, on however many statements, is booked as at most one operation *)
(* of the ledger.  An imported operation comes with the transactions it is *)
(* made of and goes with all of them, for good.  An operation the user     *)
(* made may be given transactions and lose them again.                     *)
(***************************************************************************)
CONSTANTS Transaction, Operation, NoOperation

VARIABLES booking,  \* the operation each transaction is booked as
          kind      \* what has become of each operation

vars == <<booking, kind>>

Kind == {"unused", "imported", "undone", "manual", "deleted"}

Booked(o) == {t \in Transaction : booking[t] = o}

Unbooked(t) == booking[t] = NoOperation

Book(ts, o) ==
  booking' = [t \in Transaction |-> IF t \in ts THEN o ELSE booking[t]]

Become(o, k) == kind' = [kind EXCEPT ![o] = k]

Init ==
  /\ booking = [t \in Transaction |-> NoOperation]
  /\ kind = [o \in Operation |-> "unused"]

\* An income, an expense, or a transfer with one side or both on statements.
PostImported(o, ts) ==
  /\ kind[o] = "unused"
  /\ ts # {}
  /\ \A t \in ts : Unbooked(t)
  /\ Book(ts, o)
  /\ Become(o, "imported")

UndoImported(o) ==
  /\ kind[o] = "imported"
  /\ Book(Booked(o), NoOperation)
  /\ Become(o, "undone")

RecordManual(o) ==
  /\ kind[o] = "unused"
  /\ Become(o, "manual")
  /\ UNCHANGED booking

Attach(o, t) ==
  /\ kind[o] = "manual"
  /\ Unbooked(t)
  /\ Book({t}, o)
  /\ UNCHANGED kind

Detach(o, t) ==
  /\ kind[o] = "manual"
  /\ t \in Booked(o)
  /\ Book({t}, NoOperation)
  /\ UNCHANGED kind

DeleteManual(o) ==
  /\ kind[o] = "manual"
  /\ Book(Booked(o), NoOperation)
  /\ Become(o, "deleted")

\* Everything else that is done to statements and operations.
OtherCommand == UNCHANGED vars

Command(o) ==
  \/ \E ts \in SUBSET Transaction : PostImported(o, ts)
  \/ UndoImported(o)
  \/ RecordManual(o)
  \/ \E t \in Transaction : Attach(o, t) \/ Detach(o, t)
  \/ DeleteManual(o)

Next == OtherCommand \/ \E o \in Operation : Command(o)

Spec == Init /\ [][Next]_vars

=============================================================================
