--------------------------- MODULE DeductionQueue ---------------------------
(***************************************************************************)
(* The billing queue: app/services/deduction_queue.py, its producer        *)
(* app/services/metering_service.py (report_usage) and the loop of         *)
(* app/main.py that drives it, all on one asyncio loop of one process.     *)
(*                                                                         *)
(* Every action is the code between two awaits.  The marketplace is an     *)
(* external service that handles a request at any time after it was sent,  *)
(* also after the sender timed out or died, and that charges an            *)
(* Idempotency-Key at most once.                                           *)
(***************************************************************************)
EXTENDS Naturals, FiniteSets

CONSTANTS Keys,         \* idempotency keys
          Calls,        \* invocations of report_usage
          KeyOf,        \* KeyOf[c]: the key call c derives from its message
          Loop,         \* the queue processor, as a sender of requests
          NoKey,        \* no row in hand
          MAX_ATTEMPTS, \* deduction_queue.MAX_ATTEMPTS
          BatchSize,    \* deduction_queue.CLAIM_BATCH_SIZE
          AutoReload,   \* auto-reload is switched on: check_auto_reload awaits
          MonitorRuns,  \* something calls monitor_expired_leases
          MaxCrashes    \* bound: process deaths

ASSUME BillingAssumption ==
    /\ IsFiniteSet(Keys)
    /\ KeyOf \in [Calls -> Keys]
    /\ Loop \notin Calls
    /\ NoKey \notin Keys
    /\ MAX_ATTEMPTS \in Nat \ {0}
    /\ BatchSize \in Nat \ {0}
    /\ {AutoReload, MonitorRuns} \subseteq BOOLEAN
    /\ MaxCrashes \in Nat

VARIABLES
    status,   \* the row's status column, "absent" before enqueue
    attempts, \* its attempt_count column
    born,     \* its created_at column, as a rank
    backoff,  \* keys whose next_retry_at is still ahead
    expired,  \* keys whose leased_at is more than LEASE_TTL old
    pc,       \* where process_all_pending stands
    todo,     \* items of the batch not yet settled
    seen,     \* attempt_count as the claim read it
    cur,      \* the item being sent or settled
    reply,    \* what each sender is waiting for or has received
    stray,    \* keys of requests in flight that nobody waits for
    charges,  \* the marketplace's ledger
    call,     \* what became of each report_usage
    monitor,  \* where monitor_expired_leases stands
    frozen,   \* the event loop is blocked on a row lock
    crashes,  \* process deaths so far
    sends     \* history: requests the queue has sent for a key

rowVars  == <<status, attempts, born, backoff, expired>>
loopVars == <<pc, todo, seen, cur>>
vars == <<rowVars, loopVars, reply, stray, charges, call, monitor, frozen,
          crashes, sends>>

Statuses == {"absent", "pending", "processing", "completed",
             "failed_terminal", "failed_retryable", "dead_letter"}

\* How _attempt_send classifies an answer: 200, 402, 400/401/403/404, any
\* other status or an unreadable body outside 5xx, and 5xx/timeout/network.
Answers == {"ok", "funds", "client", "odd", "retry"}

Senders == Calls \cup {Loop}

KeySent(s) == IF s = Loop THEN cur ELSE KeyOf[s]

IsOldest(k, S) == k \in S /\ \A j \in S : born[k] <= born[j]

Rows(st) == {k \in Keys : status[k] = st}

Present == {k \in Keys : status[k] # "absent"}

\* The row whose UPDATE is open while check_auto_reload is awaited.
Locked(k) == pc = "reload" /\ cur = k

-----------------------------------------------------------------------------
Init ==
    /\ status = [k \in Keys |-> "absent"]
    /\ attempts = [k \in Keys |-> 0]
    /\ born = [k \in Keys |-> 0]
    /\ backoff = {}
    /\ expired = {}
    /\ pc = "idle"
    /\ todo = {}
    /\ seen = [k \in Keys |-> 0]
    /\ cur = NoKey
    /\ reply = [s \in Senders |-> "none"]
    /\ stray = {}
    /\ charges = [k \in Keys |-> 0]
    /\ call = [c \in Calls |-> "new"]
    /\ monitor = "idle"
    /\ frozen = FALSE
    /\ crashes = 0
    /\ sends = [k \in Keys |-> 0]

-----------------------------------------------------------------------------
(* Producer: metering_service.report_usage *)

\* INSERT; a duplicate key raises IntegrityError and leaves the row alone.
Enqueue(k) ==
    IF status[k] = "absent"
    THEN /\ status' = [status EXCEPT ![k] = "pending"]
         /\ born' = [born EXCEPT ![k] = Cardinality(Present)]
    ELSE UNCHANGED <<status, born>>

\* Mutant: the send goes out although no row was committed for it.
ReportUsageUnrecorded(c) ==
    /\ ~frozen
    /\ call[c] = "new"
    /\ call' = [call EXCEPT ![c] = "sending"]
    /\ reply' = [reply EXCEPT ![c] = "waiting"]
    /\ UNCHANGED <<rowVars, loopVars, stray, charges, monitor, frozen,
                   crashes, sends>>

\* report_usage up to its await: enqueue, whatever it returns, and the
\* synchronous send.
ReportUsage(c) ==
    /\ ~frozen
    /\ call[c] = "new"
    /\ ~Locked(KeyOf[c])
    /\ Enqueue(KeyOf[c])
    /\ call' = [call EXCEPT ![c] = "sending"]
    /\ reply' = [reply EXCEPT ![c] = "waiting"]
    /\ UNCHANGED <<attempts, backoff, expired, loopVars, stray, charges, monitor,
                   frozen, crashes, sends>>

\* Mutant: the UPDATE has lost its status IN (pending, processing).
MarkAnyRow(k, st) == status' = [status EXCEPT ![k] = st]

\* mark_completed and mark_failed_terminal touch open rows only.
Mark(k, st) ==
    status' = IF status[k] \in {"pending", "processing"}
              THEN [status EXCEPT ![k] = st] ELSE status

\* Mutant: failing open is reported as a deduction that succeeded.
ReportReturnsOptimistic(c) ==
    /\ ~frozen
    /\ call[c] = "sending"
    /\ reply[c] \in Answers
    /\ call' = [call EXCEPT ![c] = "success"]
    /\ reply' = [reply EXCEPT ![c] = "none"]
    /\ UNCHANGED <<rowVars, loopVars, stray, charges, monitor, frozen,
                   crashes, sends>>

\* report_usage from its await to its return.  An unexpected answer is
\* neither retried nor marked: the row stays for the queue.
ReportReturns(c) ==
    /\ ~frozen
    /\ call[c] = "sending"
    /\ reply[c] \in Answers
    /\ \/ /\ reply[c] = "ok"
          /\ ~Locked(KeyOf[c])
          /\ Mark(KeyOf[c], "completed")
          /\ call' = [call EXCEPT ![c] = "success"]
       \/ /\ reply[c] = "funds"
          /\ ~Locked(KeyOf[c])
          /\ Mark(KeyOf[c], "failed_terminal")
          /\ call' = [call EXCEPT ![c] = "refused"]
       \/ /\ reply[c] = "client"
          /\ ~Locked(KeyOf[c])
          /\ Mark(KeyOf[c], "failed_terminal")
          /\ call' = [call EXCEPT ![c] = "failed_open"]
       \/ /\ reply[c] \in {"odd", "retry"}
          /\ call' = [call EXCEPT ![c] = "failed_open"]
          /\ UNCHANGED status
    /\ reply' = [reply EXCEPT ![c] = "none"]
    /\ UNCHANGED <<attempts, born, backoff, expired, loopVars, stray, charges, monitor,
                   frozen, crashes, sends>>

\* The row is locked by the worker's open transaction, which only this same
\* event loop could commit: the synchronous statement never returns.
BlockOnRowLock(c) ==
    /\ ~frozen
    /\ Locked(KeyOf[c])
    /\ \/ call[c] = "new"
       \/ call[c] = "sending" /\ reply[c] \in {"ok", "funds", "client"}
    /\ frozen' = TRUE
    /\ UNCHANGED <<rowVars, loopVars, reply, stray, charges, call, monitor,
                   crashes, sends>>

-----------------------------------------------------------------------------
(* Consumer: queue_processor_loop and process_all_pending *)

\* Mutant: only rows never tried are selected.
ClaimFreshRows ==
    /\ ~frozen
    /\ pc = "idle"
    /\ \E k \in Rows("pending") :
         /\ attempts[k] = 0
         /\ todo' = {k}
         /\ status' = [status EXCEPT ![k] = "processing"]
    /\ seen' = [k \in Keys |-> 0]
    /\ pc' = "next"
    /\ UNCHANGED <<attempts, born, backoff, expired, cur, reply, stray, charges,
                   call, monitor, frozen, crashes, sends>>

\* SELECT .. pending, next_retry_at <= now, oldest first, LIMIT, and the
\* UPDATE to processing: one transaction.
Claim ==
    /\ ~frozen
    /\ pc = "idle"
    /\ \E S \in SUBSET Rows("pending") :
         /\ S # {}
         /\ \/ Cardinality(S) = BatchSize
            \/ S = Rows("pending") /\ Cardinality(S) < BatchSize
         /\ \A k \in S, j \in Rows("pending") \ S : born[k] <= born[j]
         /\ todo' = S
         /\ status' = [k \in Keys |-> IF k \in S THEN "processing" ELSE status[k]]
    /\ expired' = expired \ todo'
    /\ seen' = [k \in Keys |-> IF k \in todo' THEN attempts[k] ELSE 0]
    /\ pc' = "next"
    /\ UNCHANGED <<attempts, born, backoff, cur, reply, stray, charges, call,
                   monitor, frozen, crashes, sends>>

\* "if not items: return 0": the pass ends before its tail transaction.
NothingToClaim ==
    /\ ~frozen
    /\ pc = "idle"
    /\ Rows("pending") = {}
    /\ UNCHANGED vars

\* The next item is sent from the claimed copy; its row is not read again.
Send ==
    /\ ~frozen
    /\ pc = "next"
    /\ \E k \in todo :
         /\ IsOldest(k, todo)
         /\ cur' = k
         /\ sends' = [sends EXCEPT ![k] = @ + 1]
    /\ reply' = [reply EXCEPT ![Loop] = "waiting"]
    /\ pc' = "sending"
    /\ UNCHANGED <<rowVars, todo, seen, stray, charges, call, monitor, frozen,
                   crashes>>

\* Mutant: a client error counts as sent.
SettleOkLenient ==
    /\ reply[Loop] \in {"ok", "client"}
    /\ pc' = "next"
    /\ status' = [status EXCEPT ![cur] = "completed"]
    /\ todo' = todo \ {cur}
    /\ cur' = NoKey
    /\ UNCHANGED <<attempts, backoff>>

\* The worker writes by id, whatever the row's status and worker_id are now.
SettleOk ==
    /\ reply[Loop] = "ok"
    /\ IF AutoReload
       THEN /\ pc' = "reload"
            /\ UNCHANGED <<status, todo, cur>>
       ELSE /\ pc' = "next"
            /\ status' = [status EXCEPT ![cur] = "completed"]
            /\ todo' = todo \ {cur}
            /\ cur' = NoKey
    /\ UNCHANGED <<attempts, backoff>>

\* Mutant: a terminal answer is logged and the row forgotten.
SettleTerminalForgets ==
    /\ reply[Loop] \in {"funds", "client", "odd"}
    /\ todo' = todo \ {cur}
    /\ cur' = NoKey
    /\ pc' = "next"
    /\ UNCHANGED <<status, attempts, backoff>>

SettleTerminal ==
    /\ reply[Loop] \in {"funds", "client", "odd"}
    /\ status' = [status EXCEPT ![cur] = "failed_terminal"]
    /\ todo' = todo \ {cur}
    /\ cur' = NoKey
    /\ pc' = "next"
    /\ UNCHANGED <<attempts, backoff>>

\* Mutant: > in place of >=.
SettleRetryableOnceMore ==
    /\ reply[Loop] = "retry"
    /\ attempts' = [attempts EXCEPT ![cur] = seen[cur] + 1]
    /\ status' = [status EXCEPT ![cur] = IF seen[cur] + 1 > MAX_ATTEMPTS
                                        THEN "dead_letter"
                                        ELSE "failed_retryable"]
    /\ backoff' = backoff \cup {cur}
    /\ todo' = todo \ {cur}
    /\ cur' = NoKey
    /\ pc' = "next"

SettleRetryable ==
    /\ reply[Loop] = "retry"
    /\ attempts' = [attempts EXCEPT ![cur] = seen[cur] + 1]
    /\ IF seen[cur] + 1 >= MAX_ATTEMPTS
       THEN /\ status' = [status EXCEPT ![cur] = "dead_letter"]
            /\ UNCHANGED backoff
       ELSE /\ status' = [status EXCEPT ![cur] = "failed_retryable"]
            /\ backoff' = backoff \cup {cur}
    /\ todo' = todo \ {cur}
    /\ cur' = NoKey
    /\ pc' = "next"

Settle ==
    /\ ~frozen
    /\ pc = "sending"
    /\ SettleOk \/ SettleTerminal \/ SettleRetryable
    /\ reply' = [reply EXCEPT ![Loop] = "none"]
    /\ UNCHANGED <<born, expired, seen, stray, charges, call, monitor, frozen,
                   crashes, sends>>

\* check_auto_reload returns and the transaction that marked the row commits.
CommitCompleted ==
    /\ ~frozen
    /\ pc = "reload"
    /\ status' = [status EXCEPT ![cur] = "completed"]
    /\ todo' = todo \ {cur}
    /\ cur' = NoKey
    /\ pc' = "next"
    /\ UNCHANGED <<attempts, born, backoff, expired, seen, reply, stray, charges, call,
                   monitor, frozen, crashes, sends>>

\* Mutant: the pass ends with items of its batch left.
TailTooEarly ==
    /\ ~frozen
    /\ pc = "next"
    /\ pc' = "idle"
    /\ UNCHANGED <<rowVars, todo, seen, cur, reply, stray, charges, call,
                   monitor, frozen, crashes, sends>>

\* The tail transaction: failed_retryable rows whose backoff is over.
Tail ==
    /\ ~frozen
    /\ pc = "next"
    /\ todo = {}
    /\ status' = [k \in Keys |->
                    IF /\ status[k] = "failed_retryable"
                       /\ k \notin backoff
                       /\ attempts[k] < MAX_ATTEMPTS
                    THEN "pending" ELSE status[k]]
    /\ pc' = "idle"
    /\ UNCHANGED <<attempts, born, backoff, expired, todo, seen, cur, reply, stray,
                   charges, call, monitor, frozen, crashes, sends>>

BackoffElapses(k) ==
    /\ k \in backoff
    /\ backoff' = backoff \ {k}
    /\ UNCHANGED <<status, attempts, born, expired, loopVars, reply, stray, charges,
                   call, monitor, frozen, crashes, sends>>

-----------------------------------------------------------------------------
(* monitor_expired_leases: two transactions *)

LeaseExpires(k) ==
    /\ MonitorRuns
    /\ status[k] = "processing"
    /\ k \notin expired
    /\ expired' = expired \cup {k}
    /\ UNCHANGED <<status, attempts, born, backoff, loopVars, reply, stray,
                   charges, call, monitor, frozen, crashes, sends>>

\* Mutant: a lease on its last attempt is skipped.
ExpiredUnderBudget ==
    {k \in Rows("processing") \cap expired : attempts[k] + 1 < MAX_ATTEMPTS}

ExpiredLeases == Rows("processing") \cap expired

\* Mutant: the reset forgets to count the attempt.
ResetUncounted ==
    /\ MonitorRuns
    /\ monitor = "idle"
    /\ ExpiredLeases # {}
    /\ status' = [k \in Keys |->
                    IF k \in ExpiredLeases THEN "pending" ELSE status[k]]
    /\ expired' = expired \ ExpiredLeases
    /\ monitor' = "sweep"
    /\ UNCHANGED <<attempts, born, backoff, loopVars, reply, stray, charges,
                   call, frozen, crashes, sends>>

\* The statement waits for a row that the worker's open transaction holds.
ResetExpiredLeases ==
    /\ MonitorRuns
    /\ ~frozen
    /\ monitor = "idle"
    /\ ExpiredLeases # {}
    /\ \A k \in ExpiredLeases : ~Locked(k)
    /\ status' = [k \in Keys |->
                    IF k \in ExpiredLeases THEN "pending" ELSE status[k]]
    /\ attempts' = [k \in Keys |->
                      IF k \in ExpiredLeases THEN attempts[k] + 1 ELSE attempts[k]]
    /\ expired' = expired \ ExpiredLeases
    /\ monitor' = "sweep"
    /\ UNCHANGED <<born, backoff, loopVars, reply, stray, charges, call,
                   frozen, crashes, sends>>

DeadLetterSweep ==
    /\ ~frozen
    /\ monitor = "sweep"
    /\ status' = [k \in Keys |->
                    IF status[k] = "pending" /\ attempts[k] >= MAX_ATTEMPTS
                    THEN "dead_letter" ELSE status[k]]
    /\ monitor' = "idle"
    /\ UNCHANGED <<attempts, born, backoff, expired, loopVars, reply, stray, charges,
                   call, frozen, crashes, sends>>

-----------------------------------------------------------------------------
(* The marketplace and the network: external *)

\* The ledger takes credits for a key once; a replay of the key is answered
\* but not charged.  5xx and unreadable answers say nothing about the charge.
Ledger(k, a) ==
    \/ /\ a \in {"ok", "odd", "retry"}
       /\ charges' = [charges EXCEPT ![k] = IF @ = 0 THEN 1 ELSE @]
    \/ /\ a \in {"odd", "retry", "client"}
       /\ UNCHANGED charges
    \/ /\ a = "funds"
       /\ charges[k] = 0
       /\ UNCHANGED charges

MarketAnswers(s) ==
    /\ reply[s] = "waiting"
    /\ \E a \in Answers :
         /\ Ledger(KeySent(s), a)
         /\ reply' = [reply EXCEPT ![s] = a]
    /\ UNCHANGED <<rowVars, loopVars, stray, call, monitor, frozen, crashes,
                   sends>>

\* Mutant: report_usage posts without a timeout.
TimesOutQueueOnly(s) ==
    /\ s = Loop
    /\ reply[s] = "waiting"
    /\ reply' = [reply EXCEPT ![s] = "retry"]
    /\ stray' = stray \cup {KeySent(s)}
    /\ UNCHANGED <<rowVars, loopVars, charges, call, monitor, frozen, crashes,
                   sends>>

\* httpx gives up after 10 s; the request may still be on its way.
TimesOut(s) ==
    /\ reply[s] = "waiting"
    /\ reply' = [reply EXCEPT ![s] = "retry"]
    /\ stray' = stray \cup {KeySent(s)}
    /\ UNCHANGED <<rowVars, loopVars, charges, call, monitor, frozen, crashes,
                   sends>>

\* A request nobody waits for arrives, or is lost.
StrayHandled(k) ==
    /\ k \in stray
    /\ stray' = stray \ {k}
    /\ \/ \E a \in Answers : Ledger(k, a)
       \/ UNCHANGED charges
    /\ UNCHANGED <<rowVars, loopVars, reply, call, monitor, frozen, crashes,
                   sends>>

-----------------------------------------------------------------------------
\* The process dies (or is cancelled at shutdown) and starts again: tasks and
\* the open transaction are gone, committed rows and requests in flight stay.
CrashRestart ==
    /\ crashes < MaxCrashes
    /\ crashes' = crashes + 1
    /\ pc' = "idle"
    /\ todo' = {}
    /\ cur' = NoKey
    /\ stray' = stray \cup {KeySent(s) : s \in {r \in Senders : reply[r] = "waiting"}}
    /\ reply' = [s \in Senders |-> "none"]
    /\ call' = [c \in Calls |-> IF call[c] = "sending" THEN "lost" ELSE call[c]]
    /\ monitor' = "idle"
    /\ frozen' = FALSE
    /\ UNCHANGED <<rowVars, seen, charges, sends>>

CallStep(c) == ReportUsage(c) \/ ReportReturns(c) \/ BlockOnRowLock(c)

LoopStep == Claim \/ NothingToClaim \/ Send \/ Settle \/ CommitCompleted \/ Tail

MonitorStep == ResetExpiredLeases \/ DeadLetterSweep

Next ==
    \/ \E c \in Calls : CallStep(c)
    \/ LoopStep
    \/ MonitorStep
    \/ \E s \in Senders : MarketAnswers(s) \/ TimesOut(s)
    \/ \E k \in Keys : StrayHandled(k) \/ BackoffElapses(k) \/ LeaseExpires(k)
    \/ CrashRestart

Spec == Init /\ [][Next]_vars

\* The loop task is scheduled again after every await, httpx enforces its
\* timeout, and time passes.  Whether a call is made, what the marketplace
\* answers and whether the process dies is not ours to promise.
Fairness ==
    /\ WF_vars(LoopStep)
    /\ WF_vars(MonitorStep)
    /\ \A c \in Calls : WF_vars(ReportReturns(c))
    /\ \A s \in Senders : WF_vars(TimesOut(s))
    /\ \A k \in Keys : WF_vars(BackoffElapses(k)) /\ WF_vars(LeaseExpires(k))

FairSpec == Spec /\ Fairness

-----------------------------------------------------------------------------
TypeOK ==
    /\ status \in [Keys -> Statuses]
    /\ attempts \in [Keys -> Nat]
    /\ born \in [Keys -> Nat]
    /\ backoff \in SUBSET Keys
    /\ expired \in SUBSET Keys
    /\ pc \in {"idle", "next", "sending", "reload"}
    /\ todo \in SUBSET Keys
    /\ seen \in [Keys -> Nat]
    /\ cur \in Keys \cup {NoKey}
    /\ pc \in {"sending", "reload"} => cur \in todo
    /\ pc = "idle" => todo = {}
    /\ reply \in [Senders -> {"none", "waiting"} \cup Answers]
    /\ reply[Loop] # "none" => pc = "sending"
    /\ stray \in SUBSET Keys
    /\ charges \in [Keys -> Nat]
    /\ call \in [Calls -> {"new", "sending", "success", "refused",
                           "failed_open", "lost"}]
    /\ monitor \in {"idle", "sweep"}
    /\ frozen \in BOOLEAN
    /\ crashes \in Nat
    /\ sends \in [Keys -> Nat]

\* A row the reconciliation counts as billed was really charged, whichever of
\* the queue worker and report_usage closed it and in whatever order.
CompletedIsCharged == \A k \in Keys : status[k] = "completed" => charges[k] = 1

\* Money moves only for a key whose deduction row was committed first, so a
\* crash at any point leaves a record of every charge.
ChargedIsRecorded == \A k \in Keys : charges[k] > 0 => status[k] # "absent"

\* The queue sends a key at most MAX_ATTEMPTS times, over restarts too, and
\* parks it in dead_letter exactly when the budget is spent.
RetryBudget ==
    \A k \in Keys :
        /\ sends[k] <= MAX_ATTEMPTS
        /\ status[k] = "failed_retryable" => attempts[k] < MAX_ATTEMPTS
        /\ status[k] = "dead_letter" => attempts[k] = MAX_ATTEMPTS

\* Every request the queue sends is paid for by an attempt, except the latest:
\* also when the monitor takes a row back from a worker that still holds it
\* and the worker then writes the count it read at the claim.
SendsArePaidFor == \A k \in Keys : sends[k] <= attempts[k] + 1

\* Without a crash a row is "processing" only while the live batch holds it.
LeaseHasHolder ==
    crashes = 0 => \A k \in Keys : status[k] = "processing" => k \in todo

\* A row that reached a final status and that no live batch holds is never
\* touched again: not by the tail, the monitor, a late report or a restart.
Final == {"completed", "failed_terminal", "dead_letter"}

SettledStays ==
    [][\A k \in Keys :
         status[k] \in Final /\ k \notin todo => status'[k] = status[k]]_vars

\* The keys some report_usage reported as deducted.
Confirmed == {KeyOf[c] : c \in {d \in Calls : call[d] = "success"}}

\* The queue with its producer keeps the exactly-once promise.
Promise == INSTANCE ExactlyOnceBilling WITH
              recorded  <- Present,
              charges   <- charges,
              confirmed <- Confirmed

KeepsPromise == Promise!Spec

\* A pending row is always served: claimed, or closed by its own report.
PendingIsServed == \A k \in Keys : status[k] = "pending" ~> status[k] # "pending"

\* report_usage always comes back to the chat session that awaits it.
CallReturns == \A c \in Calls : call[c] = "sending" ~> call[c] # "sending"

\* A lease ends: by its worker, or by expiry when the worker died.
LeaseEnds == \A k \in Keys : status[k] = "processing" ~> status[k] # "processing"

\* main.py:112: a background task "never lets it crash the API".
ApiStaysUp == ~frozen
=============================================================================
