--------------------------- MODULE TelegramWebhook ---------------------------
(***************************************************************************)
(* The Telegram webhook: features/chat_integrations/webhook.py and its     *)
(* table telegram_webhook_updates.  Telegram repeats a request until it is *)
(* answered with success; the table keeps an update from being processed   *)
(* by two requests, with a lease that lets a dead one be taken over.       *)
(*                                                                         *)
(* A Worker is a request the server is serving.  Its statements run in     *)
(* transactions of their own: the claim, the commit of the chat command,   *)
(* and the final mark.  What the command changes is left to the modules of *)
(* the commands; here it counts how often it was applied.                  *)
(***************************************************************************)
EXTENDS Integers

CONSTANTS Update, Worker, NoWorker, NoUpdate,
          MaxFaults   \* failed or lost requests per behaviour (a bound)

ASSUME NullsAreNotValues == NoWorker \notin Worker /\ NoUpdate \notin Update
ASSUME MaxFaultsIsNatural == MaxFaults \in Nat

VARIABLES status,    \* the row's status, none before the row exists
          attempts,  \* attempt_count
          leased,    \* updates claimed less than five minutes ago
          phase,     \* how far each request is
          handles,   \* the update each request carries
          awaiting,  \* the request whose answer Telegram waits for
          acked,     \* updates Telegram got a success answer for
          applied,   \* history: commits of the update's command
          failures,  \* history: failed attempts
          expiries,  \* history: leases that ran out on a live attempt
          finished,  \* history: updates that were completed once
          faults

rowVars == <<status, attempts, leased>>
telegramVars == <<awaiting, acked>>
historyVars == <<applied, failures, expiries, finished, faults>>
webhookVars == <<rowVars, telegramVars, historyVars, phase, handles>>

Status == {"none", "processing", "completed", "failed"}
Phase == {"idle", "handling", "applied", "completed"}

WebhookTypeOK ==
  /\ status \in [Update -> Status]
  /\ attempts \in [Update -> Nat]
  /\ leased \subseteq Update
  /\ phase \in [Worker -> Phase]
  /\ handles \in [Worker -> Update \cup {NoUpdate}]
  /\ \A w \in Worker : phase[w] # "idle" => handles[w] \in Update
  /\ awaiting \in [Update -> Worker \cup {NoWorker}]
  /\ acked \subseteq Update
  /\ applied \in [Update -> Nat]
  /\ failures \in [Update -> Nat]
  /\ expiries \in [Update -> Nat]
  /\ finished \subseteq Update
  /\ faults \in 0..MaxFaults

WebhookInit ==
  /\ status = [u \in Update |-> "none"]
  /\ attempts = [u \in Update |-> 0]
  /\ leased = {}
  /\ phase = [w \in Worker |-> "idle"]
  /\ handles = [w \in Worker |-> NoUpdate]
  /\ awaiting = [u \in Update |-> NoWorker]
  /\ acked = {}
  /\ applied = [u \in Update |-> 0]
  /\ failures = [u \in Update |-> 0]
  /\ expiries = [u \in Update |-> 0]
  /\ finished = {}
  /\ faults = 0

-----------------------------------------------------------------------------
(* Deliveries.  Telegram has one request per update under way and repeats  *)
(* it until it is acknowledged.  A delivery of an update that another      *)
(* request holds is refused with 503 and changes nothing.                  *)

Deliverable(u) == u \notin acked /\ awaiting[u] = NoWorker

\* Mutant: a claim ignores the lease.
ClaimableAnyTime(u) == status[u] # "completed"

\* Mutant: only a failed attempt may be repeated.
ClaimableIfFailed(u) == status[u] \in {"none", "failed"}

\* Mutant: whatever is not being processed may be taken up.
ClaimableUnlessProcessing(u) == status[u] # "processing" \/ u \notin leased

Claimable(u) ==
  \/ status[u] \in {"none", "failed"}
  \/ status[u] = "processing" /\ u \notin leased

\* claim: one transaction, under the row's lock or the insert's.
Claim(u, w) ==
  /\ Deliverable(u)
  /\ Claimable(u)
  /\ phase[w] = "idle"
  /\ status' = [status EXCEPT ![u] = "processing"]
  /\ attempts' = [attempts EXCEPT ![u] = @ + 1]
  /\ leased' = leased \cup {u}
  /\ phase' = [phase EXCEPT ![w] = "handling"]
  /\ handles' = [handles EXCEPT ![w] = u]
  /\ awaiting' = [awaiting EXCEPT ![u] = w]
  /\ UNCHANGED <<acked, historyVars>>

\* A repeated delivery of a completed update is acknowledged at once.
AcknowledgeCompleted(u) ==
  /\ Deliverable(u)
  /\ status[u] = "completed"
  /\ acked' = acked \cup {u}
  /\ UNCHANGED <<rowVars, awaiting, historyVars, phase, handles>>

-----------------------------------------------------------------------------
(* Requests                                                                *)

\* ChatEventService commits the command and the reply is sent.
Apply(w) ==
  LET u == handles[w]
  IN /\ phase[w] = "handling"
     /\ phase' = [phase EXCEPT ![w] = "applied"]
     /\ applied' = [applied EXCEPT ![u] = @ + 1]
     /\ UNCHANGED <<rowVars, telegramVars, handles, failures, expiries,
                    finished, faults>>

\* Mutant: the update is marked before its command has run.
MarkCompletedEarly(w) ==
  LET u == handles[w]
  IN /\ phase[w] \in {"handling", "applied"}
     /\ phase' = [phase EXCEPT ![w] = "completed"]
     /\ status' = [status EXCEPT ![u] = "completed"]
     /\ finished' = finished \cup {u}
     /\ UNCHANGED <<attempts, leased, telegramVars, handles, applied,
                    failures, expiries, faults>>

\* mark_completed, whatever the row's status is by now.
MarkCompleted(w) ==
  LET u == handles[w]
  IN /\ phase[w] = "applied"
     /\ phase' = [phase EXCEPT ![w] = "completed"]
     /\ status' = [status EXCEPT ![u] = "completed"]
     /\ finished' = finished \cup {u}
     /\ UNCHANGED <<attempts, leased, telegramVars, handles, applied,
                    failures, expiries, faults>>

StopWaitingFor(w) ==
  awaiting' = [u \in Update |-> IF awaiting[u] = w THEN NoWorker ELSE awaiting[u]]

Respond(w) ==
  LET u == handles[w]
  IN /\ phase[w] = "completed"
     /\ phase' = [phase EXCEPT ![w] = "idle"]
     /\ acked' = IF awaiting[u] = w THEN acked \cup {u} ELSE acked
     /\ StopWaitingFor(w)
     /\ UNCHANGED <<rowVars, handles, historyVars>>

\* An exception before the mark, the command committed or not: mark_failed,
\* whatever the row's status is by now, and an error answer.
Fail(w) ==
  LET u == handles[w]
  IN /\ phase[w] \in {"handling", "applied"}
     /\ faults < MaxFaults
     /\ phase' = [phase EXCEPT ![w] = "idle"]
     /\ status' = [status EXCEPT ![u] = "failed"]
     /\ failures' = [failures EXCEPT ![u] = @ + 1]
     /\ faults' = faults + 1
     /\ StopWaitingFor(w)
     /\ UNCHANGED <<attempts, leased, handles, acked, applied, expiries, finished>>

\* The process dies, or the statement that marks the row fails.
Crash(w) ==
  /\ phase[w] # "idle"
  /\ faults < MaxFaults
  /\ phase' = [phase EXCEPT ![w] = "idle"]
  /\ faults' = faults + 1
  /\ StopWaitingFor(w)
  /\ UNCHANGED <<rowVars, handles, acked, applied, failures, expiries, finished>>

\* Telegram gives a slow request up; the request goes on.
TimeOut(u) ==
  /\ awaiting[u] # NoWorker
  /\ awaiting' = [awaiting EXCEPT ![u] = NoWorker]
  /\ UNCHANGED <<rowVars, acked, historyVars, phase, handles>>

\* Five minutes have passed since the last claim.
Expire(u) ==
  /\ u \in leased
  /\ leased' = leased \ {u}
  /\ expiries' = [expiries EXCEPT ![u] = @ + 1]
  /\ UNCHANGED <<status, attempts, telegramVars, phase, handles, applied,
                 failures, finished, faults>>

Deliver(u) == AcknowledgeCompleted(u) \/ \E w \in Worker : Claim(u, w)
Progress(w) == Apply(w) \/ MarkCompleted(w) \/ Respond(w)

WebhookNext ==
  \/ \E u \in Update : Deliver(u) \/ TimeOut(u) \/ Expire(u)
  \/ \E w \in Worker : Progress(w) \/ Fail(w) \/ Crash(w)

WebhookSpec == WebhookInit /\ [][WebhookNext]_webhookVars

\* Telegram repeats, requests that do not fail go on, and time passes.
WebhookFairness ==
  /\ \A u \in Update : WF_webhookVars(Deliver(u)) /\ WF_webhookVars(Expire(u))
  /\ \A w \in Worker : WF_webhookVars(Progress(w))

WebhookFairSpec == WebhookSpec /\ WebhookFairness

-----------------------------------------------------------------------------
(* Properties                                                              *)

\* No update is lost: Telegram hears success only for an update whose command
\* was committed, whichever attempt answers and whatever the others did.
AcknowledgedOnlyIfApplied == \A u \in acked : applied[u] > 0

\* Every attempt beyond the first is paid for by a failed attempt or by a
\* lease that ran out, and no attempt commits the command twice: without
\* either of them a command runs at most once, however often it is delivered.
AttemptsJustified ==
  \A u \in Update : /\ attempts[u] <= 1 + failures[u] + expiries[u]
                    /\ applied[u] <= attempts[u]

\* While the lease of an update in processing lives, one request at most
\* handles it, unless a lease of the update has run out before.
OneHandlerPerLease ==
  \A v, w \in Worker :
    /\ phase[v] \in {"handling", "applied"}
    /\ phase[w] \in {"handling", "applied"}
    /\ handles[v] = handles[w]
    /\ expiries[handles[v]] = 0
    => v = w

\* Crashes, failures, refusals and slow answers notwithstanding, every update
\* is acknowledged in the end.
EventuallyAcknowledged == \A u \in Update : <>(u \in acked)

\* CHAT_INTEGRATIONS.md says that completed updates are not processed again.  A
\* request that outlived its lease may still fail after another one completed
\* the update, and mark_failed overwrites the status; it is processed again
\* then, but only then.
CompletedRepeatsJustified ==
  [][\A u \in finished : attempts'[u] # attempts[u] => expiries[u] > 0]_webhookVars

\* Whatever is repeated has a failure or an expired lease behind it, and
\* without an expired lease one request at a time handles an update.
WebhookConsistent == WebhookTypeOK /\ AttemptsJustified /\ OneHandlerPerLease
=============================================================================
