--------------------------- MODULE TelegramPolling ---------------------------
(***************************************************************************)
(* The polling worker of features/chat_integrations/polling.py, the other  *)
(* way updates reach the chat service.  The worker keeps its offset and    *)
(* the identifiers it has seen in memory only; Telegram forgets an update  *)
(* when a getUpdates call carries a larger offset.  An exception anywhere  *)
(* ends the worker, and it is started again with nothing in memory.        *)
(***************************************************************************)
EXTENDS Integers

CONSTANTS MaxUpdate,   \* updates users send (a bound)
          MaxCrashes   \* worker failures (a bound)

ASSUME BoundsAreNatural == MaxUpdate \in Nat /\ MaxCrashes \in Nat

VARIABLES arrived,    \* Telegram has updates 1..arrived
          confirmed,  \* and has dropped those up to this one
          lastOffset, \* next_offset - 1, 0 when the worker has no offset
          seen,       \* seen_update_ids
          next, last, \* what is left of the batch: next..last
          effects,    \* history: commits of each update's command
          pending,    \* the update being handled, 0 if none
          crashes

pollingVars == <<arrived, confirmed, lastOffset, seen, next, last, effects, pending,
          crashes>>

UpdateId == 1..MaxUpdate

PollingTypeOK ==
  /\ arrived \in 0..MaxUpdate
  /\ confirmed \in 0..arrived
  /\ lastOffset \in 0..MaxUpdate
  /\ seen \subseteq UpdateId
  /\ next \in 1..(MaxUpdate + 1)
  /\ last \in 0..arrived
  /\ effects \in [UpdateId -> Nat]
  /\ pending \in 0..MaxUpdate
  /\ crashes \in 0..MaxCrashes

PollingInit ==
  /\ arrived = 0 /\ confirmed = 0
  /\ lastOffset = 0 /\ seen = {}
  /\ next = 1 /\ last = 0 /\ pending = 0
  /\ effects = [u \in UpdateId |-> 0]
  /\ crashes = 0

Arrive ==
  /\ arrived < MaxUpdate
  /\ arrived' = arrived + 1
  /\ UNCHANGED <<confirmed, lastOffset, seen, next, last, effects, pending, crashes>>

BatchDone == pending = 0 /\ next > last

\* Telegram answers with the oldest updates it has, if it has any; the offset
\* confirms what lies below it.
GetUpdates ==
  /\ BatchDone
  /\ LET kept == IF lastOffset > confirmed THEN lastOffset ELSE confirmed
     IN /\ confirmed' = kept
        /\ next' = kept + 1
        /\ last' \in kept..arrived
        /\ last' = kept => kept = arrived
  /\ UNCHANGED <<arrived, lastOffset, seen, effects, pending, crashes>>

\* Mutant: the worker forgets which updates it has handled.
TakeUpForgetful ==
  /\ pending = 0 /\ next <= last
  /\ next' = next + 1
  /\ pending' = next
  /\ UNCHANGED <<arrived, confirmed, lastOffset, seen, last, effects, crashes>>

\* The offset and the seen set move before the update is handled.
TakeUp ==
  /\ pending = 0 /\ next <= last
  /\ lastOffset' = next
  /\ next' = next + 1
  /\ IF next \in seen THEN UNCHANGED <<seen, pending>>
                      ELSE seen' = seen \cup {next} /\ pending' = next
  /\ UNCHANGED <<arrived, confirmed, last, effects, crashes>>

\* ChatEventService commits the command and the reply is sent.
Handle ==
  /\ pending # 0
  /\ effects' = [effects EXCEPT ![pending] = @ + 1]
  /\ pending' = 0
  /\ UNCHANGED <<arrived, confirmed, lastOffset, seen, next, last, crashes>>

\* Mutant: the worker survives a failed update.
FailAndGoOn ==
  /\ pending # 0
  /\ crashes < MaxCrashes
  /\ pending' = 0
  /\ crashes' = crashes + 1
  /\ UNCHANGED <<arrived, confirmed, lastOffset, seen, next, last, effects>>

\* Before the command commits, after it, or in getUpdates.
WorkerFails ==
  /\ crashes < MaxCrashes
  /\ \/ UNCHANGED effects
     \/ pending # 0 /\ effects' = [effects EXCEPT ![pending] = @ + 1]
  /\ lastOffset' = 0 /\ seen' = {}
  /\ next' = 1 /\ last' = 0 /\ pending' = 0
  /\ crashes' = crashes + 1
  /\ UNCHANGED <<arrived, confirmed>>

PollingNext == Arrive \/ GetUpdates \/ TakeUp \/ Handle \/ WorkerFails

PollingSpec == PollingInit /\ [][PollingNext]_pollingVars

\* The worker runs for ever and is restarted when it dies.
PollingFairness == WF_pollingVars(GetUpdates \/ TakeUp \/ Handle)

PollingFairSpec == PollingSpec /\ PollingFairness

-----------------------------------------------------------------------------
(* Properties                                                              *)

\* Telegram never drops an update whose command was not committed, although
\* the worker moves its offset before it handles the update: the offset is
\* sent only after the whole batch, and dies with a worker that fails.
ConfirmedOnlyIfApplied == \A u \in 1..confirmed : effects[u] > 0

\* A command is repeated only by a worker restarted since: with no failure it
\* runs once.
RepeatsJustified == \A u \in UpdateId : effects[u] <= 1 + crashes

\* The commands of a chat take effect for the first time in the order they
\* were sent.
FirstEffectsInOrder ==
  \A u, v \in UpdateId : u < v /\ effects[v] > 0 => effects[u] > 0

\* However often the worker dies, every update that arrived is handled.
EventuallyHandled == \A u \in UpdateId : arrived >= u ~> effects[u] > 0

\* What the worker has done at any time: nothing that Telegram forgot is
\* undone, nothing is repeated without a crash, and first effects come in order.
PollingConsistent ==
  PollingTypeOK /\ ConfirmedOnlyIfApplied /\ RepeatsJustified /\ FirstEffectsInOrder
=============================================================================
