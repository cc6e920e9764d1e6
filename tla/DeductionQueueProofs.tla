------------------------ MODULE DeductionQueueProofs ------------------------
(***************************************************************************)
(* For every number of keys, calls, attempts and crashes: the types, the   *)
(* billing safety invariant and the refinement of ExactlyOnceBilling.      *)
(***************************************************************************)
EXTENDS DeductionQueue, FiniteSetTheorems, TLAPS

\* The created_at rank of a new row is a natural number.
LEMMA RankIsNat == Cardinality(Present) \in Nat
  BY BillingAssumption, FS_Subset, FS_CardinalityType DEF Present

\* One answer moves a key's ledger entry from 0 to 1 or not at all.
LEMMA LedgerStep ==
  ASSUME NEW k \in Keys, NEW a, charges \in [Keys -> Nat], Ledger(k, a)
  PROVE  /\ charges' \in [Keys -> Nat]
         /\ \/ charges' = charges
            \/ charges[k] = 0 /\ charges' = [charges EXCEPT ![k] = 1]
         /\ a = "ok" => charges'[k] > 0
  BY DEF Ledger

\* Whoever waits for an answer sent a key.
LEMMA WaiterSentKey ==
  ASSUME TypeOK, NEW s \in Senders, reply[s] = "waiting"
  PROVE  KeySent(s) \in Keys
  BY BillingAssumption DEF TypeOK, KeySent, Senders

-----------------------------------------------------------------------------
LEMMA TypeInit == Init => TypeOK
<1> SUFFICES ASSUME Init PROVE TypeOK
  OBVIOUS
<1>1. reply \in [Senders -> {"none", "waiting"} \cup Answers]
  BY DEF Init
<1>2. reply[Loop] = "none"
  BY DEF Init, Senders
<1>3. call \in [Calls -> {"new", "sending", "success", "refused",
                         "failed_open", "lost"}]
  BY DEF Init
<1> QED BY <1>1, <1>2, <1>3 DEF Init, TypeOK, Statuses

LEMMA TypeStep == TypeOK /\ [Next]_vars => TypeOK'
<1> SUFFICES ASSUME TypeOK, [Next]_vars
             PROVE  TypeOK'
  OBVIOUS
<1> USE BillingAssumption DEF TypeOK, rowVars, loopVars
<1>1. ASSUME NEW c \in Calls, ReportUsage(c)
      PROVE  TypeOK'
  BY <1>1, RankIsNat DEF ReportUsage, Enqueue, Statuses, Senders, Answers
<1>2. ASSUME NEW c \in Calls, ReportReturns(c)
      PROVE  TypeOK'
  BY <1>2 DEF ReportReturns, Mark, Statuses, Senders
<1>3. ASSUME NEW c \in Calls, BlockOnRowLock(c)
      PROVE  TypeOK'
  BY <1>3 DEF BlockOnRowLock
<1>4. CASE Claim
  BY <1>4 DEF Claim, Rows, Statuses
<1>5. CASE NothingToClaim
  BY <1>5 DEF NothingToClaim, vars
<1>6. CASE Send
  BY <1>6 DEF Send, IsOldest, Senders
<1>7. CASE Settle
  <2>1. CASE SettleOk
    BY <1>7, <2>1 DEF Settle, SettleOk, Statuses, Senders
  <2>2. CASE SettleTerminal
    BY <1>7, <2>2 DEF Settle, SettleTerminal, Statuses, Senders
  <2>3. CASE SettleRetryable
    BY <1>7, <2>3 DEF Settle, SettleRetryable, Statuses, Senders
  <2> QED BY <1>7, <2>1, <2>2, <2>3 DEF Settle
<1>8. CASE CommitCompleted
  BY <1>8 DEF CommitCompleted, Statuses
<1>9. CASE Tail
  BY <1>9 DEF Tail, Statuses
<1>10. ASSUME NEW k \in Keys, BackoffElapses(k)
       PROVE  TypeOK'
  BY <1>10 DEF BackoffElapses
<1>11. ASSUME NEW k \in Keys, LeaseExpires(k)
       PROVE  TypeOK'
  BY <1>11 DEF LeaseExpires
<1>12. CASE ResetExpiredLeases
  BY <1>12 DEF ResetExpiredLeases, Statuses
<1>13. CASE DeadLetterSweep
  BY <1>13 DEF DeadLetterSweep, Statuses
<1>14. ASSUME NEW s \in Senders, MarketAnswers(s)
       PROVE  TypeOK'
  BY <1>14, WaiterSentKey, LedgerStep DEF MarketAnswers
<1>15. ASSUME NEW s \in Senders, TimesOut(s)
       PROVE  TypeOK'
  BY <1>15, WaiterSentKey DEF TimesOut, Answers
<1>16. ASSUME NEW k \in Keys, StrayHandled(k)
       PROVE  TypeOK'
  BY <1>16, LedgerStep DEF StrayHandled
<1>17. CASE CrashRestart
  <2>1. stray' \in SUBSET Keys
    BY <1>17, WaiterSentKey DEF CrashRestart
  <2>2. reply' \in [Senders -> {"none", "waiting"} \cup Answers]
    BY <1>17 DEF CrashRestart
  <2>3. reply'[Loop] = "none"
    BY <1>17 DEF CrashRestart, Senders
  <2>4. call' \in [Calls -> {"new", "sending", "success", "refused",
                            "failed_open", "lost"}]
    BY <1>17 DEF CrashRestart
  <2>5. /\ UNCHANGED <<rowVars, seen, charges, sends>>
        /\ pc' = "idle" /\ todo' = {} /\ cur' = NoKey
        /\ monitor' = "idle" /\ frozen' = FALSE /\ crashes' = crashes + 1
    BY <1>17 DEF CrashRestart
  <2>6. /\ status' \in [Keys -> Statuses]
        /\ attempts' \in [Keys -> Nat]
        /\ born' \in [Keys -> Nat]
        /\ seen' \in [Keys -> Nat]
        /\ charges' \in [Keys -> Nat]
        /\ sends' \in [Keys -> Nat]
    BY <2>5
  <2>7. backoff' \in SUBSET Keys /\ expired' \in SUBSET Keys
    BY <2>5
  <2>8. todo' \in SUBSET Keys /\ cur' \in Keys \cup {NoKey} /\ crashes' \in Nat
    BY <2>5
  <2>9. monitor' \in {"idle", "sweep"} /\ frozen' \in BOOLEAN
    BY <2>5
  <2> QED BY <2>1, <2>2, <2>3, <2>4, <2>5, <2>6, <2>7, <2>8, <2>9
<1>18. CASE UNCHANGED vars
  BY <1>18 DEF vars
<1> QED
  BY <1>1, <1>2, <1>3, <1>4, <1>5, <1>6, <1>7, <1>8, <1>9, <1>10, <1>11,
     <1>12, <1>13, <1>14, <1>15, <1>16, <1>17, <1>18
  DEF Next, CallStep, LoopStep, MonitorStep

\* The table, the batch, the requests in flight and the calls keep their
\* types, whatever the sizes of the constants.
THEOREM TypeCorrect == Spec => []TypeOK
  BY TypeInit, TypeStep, PTL DEF Spec

-----------------------------------------------------------------------------
(* Why no charge is lost or invented: an "ok" in anybody's hands means the  *)
(* ledger moved, and a request anywhere means the row exists.               *)

OkMeansCharged ==
    /\ \A k \in Keys : charges[k] <= 1
    /\ \A s \in Senders : reply[s] = "ok" => charges[KeySent(s)] = 1
    /\ pc = "reload" => charges[cur] = 1
    /\ \A c \in Calls : call[c] = "success" => charges[KeyOf[c]] = 1

RequestsAreRecorded ==
    /\ todo \subseteq Present
    /\ stray \subseteq Present
    /\ \A c \in Calls : reply[c] # "none" => KeyOf[c] \in Present

BillingInv ==
    /\ OkMeansCharged
    /\ CompletedIsCharged
    /\ RequestsAreRecorded
    /\ ChargedIsRecorded

LEMMA BillingInit == Init => BillingInv
  BY BillingAssumption
  DEF Init, BillingInv, OkMeansCharged, CompletedIsCharged, Senders,
      RequestsAreRecorded, ChargedIsRecorded, Present

\* Answering a request for a recorded key keeps the accounts straight.
LEMMA LedgerKeepsBilling ==
  ASSUME TypeOK, BillingInv, NEW k \in Present, NEW a, Ledger(k, a)
  PROVE  /\ \A j \in Keys : charges[j] = 1 => charges'[j] = 1
         /\ \A j \in Keys : charges'[j] <= 1
         /\ \A j \in Keys : charges'[j] > 0 => j \in Present
         /\ a = "ok" => charges'[k] = 1
<1>1. k \in Keys /\ charges \in [Keys -> Nat]
  BY DEF Present, TypeOK
<1>2. \A j \in Keys : charges[j] <= 1 /\ (charges[j] > 0 => j \in Present)
  BY DEF BillingInv, OkMeansCharged, ChargedIsRecorded, Present
<1> QED BY <1>1, <1>2, LedgerStep

LEMMA BillingStep == TypeOK /\ BillingInv /\ [Next]_vars => BillingInv'
<1> SUFFICES ASSUME TypeOK, BillingInv, [Next]_vars
             PROVE  BillingInv'
  OBVIOUS
<1> USE BillingAssumption
    DEF TypeOK, BillingInv, OkMeansCharged, CompletedIsCharged, Senders,
        RequestsAreRecorded, ChargedIsRecorded, Present, KeySent, rowVars,
        loopVars
<1>1. ASSUME NEW c \in Calls, ReportUsage(c)
      PROVE  BillingInv'
  BY <1>1 DEF ReportUsage, Enqueue
<1>2. ASSUME NEW c \in Calls, ReportReturns(c)
      PROVE  BillingInv'
  BY <1>2 DEF ReportReturns, Mark
<1>3. ASSUME NEW c \in Calls, BlockOnRowLock(c)
      PROVE  BillingInv'
  BY <1>3 DEF BlockOnRowLock
<1>4. CASE Claim
  BY <1>4 DEF Claim, Rows
<1>5. CASE NothingToClaim
  BY <1>5 DEF NothingToClaim, vars
<1>6. CASE Send
  BY <1>6 DEF Send
<1>7. CASE Settle
  <2>1. CASE SettleOk
    BY <1>7, <2>1 DEF Settle, SettleOk
  <2>2. CASE SettleTerminal
    BY <1>7, <2>2 DEF Settle, SettleTerminal
  <2>3. CASE SettleRetryable
    BY <1>7, <2>3 DEF Settle, SettleRetryable
  <2> QED BY <1>7, <2>1, <2>2, <2>3 DEF Settle
<1>8. CASE CommitCompleted
  BY <1>8 DEF CommitCompleted
<1>9. CASE Tail
  BY <1>9 DEF Tail
<1>10. ASSUME NEW k \in Keys, BackoffElapses(k)
       PROVE  BillingInv'
  BY <1>10 DEF BackoffElapses
<1>11. ASSUME NEW k \in Keys, LeaseExpires(k)
       PROVE  BillingInv'
  BY <1>11 DEF LeaseExpires
<1>12. CASE ResetExpiredLeases
  BY <1>12 DEF ResetExpiredLeases, ExpiredLeases, Rows
<1>13. CASE DeadLetterSweep
  BY <1>13 DEF DeadLetterSweep
<1>14. ASSUME NEW s \in Senders, MarketAnswers(s)
       PROVE  BillingInv'
  <2>1. KeySent(s) \in Present
    BY <1>14 DEF MarketAnswers
  <2>2. PICK a \in Answers : /\ Ledger(KeySent(s), a)
                             /\ reply' = [reply EXCEPT ![s] = a]
    BY <1>14 DEF MarketAnswers
  <2> QED BY <1>14, <2>1, <2>2, LedgerKeepsBilling DEF MarketAnswers
<1>15. ASSUME NEW s \in Senders, TimesOut(s)
       PROVE  BillingInv'
  BY <1>15 DEF TimesOut
<1>16. ASSUME NEW k \in Keys, StrayHandled(k)
       PROVE  BillingInv'
  <2>1. k \in Present
    BY <1>16 DEF StrayHandled
  <2> QED BY <1>16, <2>1, LedgerKeepsBilling DEF StrayHandled
<1>17. CASE CrashRestart
  BY <1>17 DEF CrashRestart
<1>18. CASE UNCHANGED vars
  BY <1>18 DEF vars
<1> QED
  BY <1>1, <1>2, <1>3, <1>4, <1>5, <1>6, <1>7, <1>8, <1>9, <1>10, <1>11,
     <1>12, <1>13, <1>14, <1>15, <1>16, <1>17, <1>18
  DEF Next, CallStep, LoopStep, MonitorStep

LEMMA BillingInvariant == Spec => []BillingInv
  BY TypeInit, TypeStep, BillingInit, BillingStep, PTL DEF Spec

\* Reconciliation may trust the completed rows: each was charged.
THEOREM CompletedRowsAreCharged == Spec => []CompletedIsCharged
<1>1. BillingInv => CompletedIsCharged
  BY DEF BillingInv
<1> QED BY <1>1, BillingInvariant, PTL

\* No charge without a committed row, at whatever point the process dies.
THEOREM ChargesAreRecorded == Spec => []ChargedIsRecorded
<1>1. BillingInv => ChargedIsRecorded
  BY DEF BillingInv
<1> QED BY <1>1, BillingInvariant, PTL

-----------------------------------------------------------------------------
(* The refinement: enqueue records, the marketplace charges, report_usage   *)
(* confirms, and everything else is invisible.                              *)

LEMMA PromiseInit == Init => Promise!Init
  BY DEF Init, Promise!Init, Present, Confirmed

\* A step that takes no row from or to "absent", changes no charge and ends no
\* call in success is a stuttering step of the promise.
LEMMA Invisible ==
  ASSUME UNCHANGED charges,
         \A k \in Keys : status'[k] = "absent" <=> status[k] = "absent",
         \A c \in Calls : call'[c] = "success" <=> call[c] = "success"
  PROVE  UNCHANGED Promise!vars
  BY DEF Promise!vars, Present, Confirmed

\* An answer is a charge of a recorded key, or nothing.
LEMMA AnswerIsCharge ==
  ASSUME TypeOK, NEW k \in Present, NEW a, Ledger(k, a),
         UNCHANGED <<status, call>>
  PROVE  [Promise!Next]_(Promise!vars)
<1>1. k \in Keys /\ Present' = Present /\ Confirmed' = Confirmed
  BY DEF Present, Confirmed
<1>2. CASE charges' = charges
  BY <1>1, <1>2 DEF Promise!vars
<1>3. CASE charges[k] = 0 /\ charges' = [charges EXCEPT ![k] = 1]
  BY <1>1, <1>3 DEF Promise!Next, Promise!Charge
<1> QED BY <1>1, <1>2, <1>3, LedgerStep DEF TypeOK

LEMMA PromiseStep ==
  TypeOK /\ BillingInv /\ [Next]_vars => [Promise!Next]_(Promise!vars)
<1> SUFFICES ASSUME TypeOK, BillingInv, [Next]_vars
             PROVE  [Promise!Next]_(Promise!vars)
  OBVIOUS
<1> USE BillingAssumption
<1>1. ASSUME NEW c \in Calls, ReportUsage(c)
      PROVE  [Promise!Next]_(Promise!vars)
  <2>1. Present' = Present \cup {KeyOf[c]} /\ charges' = charges
    BY <1>1 DEF ReportUsage, Enqueue, Present, TypeOK
  <2>2. Confirmed' = Confirmed
    BY <1>1 DEF ReportUsage, Confirmed, TypeOK
  <2> QED BY <2>1, <2>2 DEF Promise!Next, Promise!Record
<1>2. ASSUME NEW c \in Calls, ReportReturns(c)
      PROVE  [Promise!Next]_(Promise!vars)
  <2>1. Present' = Present /\ charges' = charges
    BY <1>2 DEF ReportReturns, Mark, Present, TypeOK
  <2>2. CASE reply[c] = "ok"
    <3>1. Confirmed' = Confirmed \cup {KeyOf[c]}
      BY <1>2, <2>2 DEF ReportReturns, Confirmed, TypeOK
    <3>2. charges[KeyOf[c]] = 1
      BY <2>2 DEF BillingInv, OkMeansCharged, Senders, KeySent
    <3> QED BY <2>1, <3>1, <3>2 DEF Promise!Next, Promise!Confirm
  <2>3. CASE reply[c] # "ok"
    <3>1. Confirmed' = Confirmed
      BY <1>2, <2>3 DEF ReportReturns, Confirmed, TypeOK
    <3> QED BY <2>1, <3>1 DEF Promise!vars
  <2> QED BY <2>2, <2>3
<1>3. ASSUME NEW c \in Calls, BlockOnRowLock(c)
      PROVE  [Promise!Next]_(Promise!vars)
  BY <1>3, Invisible DEF BlockOnRowLock, rowVars
<1>4. CASE LoopStep
  <2>1. UNCHANGED <<charges, call>>
    BY <1>4 DEF LoopStep, Claim, NothingToClaim, Send, Settle, CommitCompleted,
                Tail, vars
  <2>2. \A k \in Keys : status'[k] = "absent" <=> status[k] = "absent"
    <3> USE DEF BillingInv, RequestsAreRecorded, Present, TypeOK
    <3>1. CASE Claim
      BY <3>1 DEF Claim, Rows
    <3>2. CASE NothingToClaim \/ Send
      BY <3>2 DEF NothingToClaim, Send, vars, rowVars
    <3>3. CASE Settle
      BY <3>3 DEF Settle, SettleOk, SettleTerminal, SettleRetryable
    <3>4. CASE CommitCompleted
      BY <3>4 DEF CommitCompleted
    <3>5. CASE Tail
      BY <3>5 DEF Tail
    <3> QED BY <1>4, <3>1, <3>2, <3>3, <3>4, <3>5 DEF LoopStep
  <2> QED BY <2>1, <2>2, Invisible
<1>5. CASE MonitorStep
  BY <1>5, Invisible
  DEF MonitorStep, ResetExpiredLeases, ExpiredLeases, Rows, DeadLetterSweep
<1>6. ASSUME NEW k \in Keys, BackoffElapses(k) \/ LeaseExpires(k)
      PROVE  [Promise!Next]_(Promise!vars)
  BY <1>6, Invisible DEF BackoffElapses, LeaseExpires
<1>7. ASSUME NEW s \in Senders, MarketAnswers(s)
      PROVE  [Promise!Next]_(Promise!vars)
  <2>1. KeySent(s) \in Present
    BY <1>7 DEF MarketAnswers, BillingInv, RequestsAreRecorded, TypeOK, KeySent,
                Senders
  <2> QED BY <1>7, <2>1, AnswerIsCharge DEF MarketAnswers, rowVars
<1>8. ASSUME NEW s \in Senders, TimesOut(s)
      PROVE  [Promise!Next]_(Promise!vars)
  BY <1>8, Invisible DEF TimesOut, rowVars
<1>9. ASSUME NEW k \in Keys, StrayHandled(k)
      PROVE  [Promise!Next]_(Promise!vars)
  <2>1. k \in Present
    BY <1>9 DEF StrayHandled, BillingInv, RequestsAreRecorded
  <2>2. CASE UNCHANGED charges
    BY <1>9, <2>2, Invisible DEF StrayHandled, rowVars
  <2>3. CASE \E a \in Answers : Ledger(k, a)
    BY <1>9, <2>1, <2>3, AnswerIsCharge DEF StrayHandled, rowVars
  <2> QED BY <1>9, <2>2, <2>3 DEF StrayHandled
<1>10. CASE CrashRestart
  BY <1>10, Invisible DEF CrashRestart, rowVars, TypeOK
<1>11. CASE UNCHANGED vars
  BY <1>11, Invisible DEF vars, rowVars
<1> QED
  BY <1>1, <1>2, <1>3, <1>4, <1>5, <1>6, <1>7, <1>8, <1>9, <1>10, <1>11
  DEF Next, CallStep

\* The queue, its producer and the marketplace together implement the
\* exactly-once promise through every interleaving, timeout and restart.
THEOREM QueueKeepsPromise == Spec => KeepsPromise
  BY TypeInit, TypeStep, BillingInit, BillingStep, PromiseInit, PromiseStep, PTL
  DEF Spec, KeepsPromise, Promise!Spec

-----------------------------------------------------------------------------
(* The retry budget, without the lease monitor, which main.py never starts. *)

InHand(k) == pc \in {"sending", "reload"} /\ cur = k

BudgetOf(k) ==
    /\ attempts[k] <= MAX_ATTEMPTS
    /\ sends[k] <= attempts[k] + 1
    /\ attempts[k] = MAX_ATTEMPTS =>
         status[k] = "dead_letter" /\ k \notin todo /\ sends[k] <= attempts[k]
    /\ status[k] = "dead_letter" => attempts[k] = MAX_ATTEMPTS
    /\ k \in todo =>
         /\ seen[k] = attempts[k]
         /\ status[k] \in {"processing", "completed", "failed_terminal"}
    /\ status[k] \in {"absent", "pending", "failed_retryable"} /\ k \notin todo
         => sends[k] <= attempts[k]
    /\ k \in todo /\ ~InHand(k) => sends[k] <= attempts[k]

BudgetInv == monitor = "idle" /\ \A k \in Keys : BudgetOf(k)

LEMMA BudgetInit == Init => BudgetInv
  BY BillingAssumption DEF Init, BudgetInv, BudgetOf, InHand

LEMMA BudgetStep ==
  ASSUME ~MonitorRuns
  PROVE  TypeOK /\ BudgetInv /\ [Next]_vars => BudgetInv'
<1> SUFFICES ASSUME TypeOK, BudgetInv, [Next]_vars
             PROVE  BudgetInv'
  OBVIOUS
<1> USE BillingAssumption DEF TypeOK, BudgetInv, BudgetOf, InHand, rowVars,
                              loopVars
<1>1. ASSUME NEW c \in Calls, ReportUsage(c)
      PROVE  BudgetInv'
  BY <1>1 DEF ReportUsage, Enqueue
<1>2. ASSUME NEW c \in Calls, ReportReturns(c)
      PROVE  BudgetInv'
  BY <1>2 DEF ReportReturns, Mark
<1>3. CASE Claim
  BY <1>3 DEF Claim, Rows
<1>4. CASE Send
  BY <1>4 DEF Send, IsOldest
<1>5. CASE Settle
  <2>1. CASE SettleOk
    BY <1>5, <2>1 DEF Settle, SettleOk
  <2>2. CASE SettleTerminal
    BY <1>5, <2>2 DEF Settle, SettleTerminal
  <2>3. CASE SettleRetryable
    BY <1>5, <2>3 DEF Settle, SettleRetryable
  <2> QED BY <1>5, <2>1, <2>2, <2>3 DEF Settle
<1>6. CASE CommitCompleted
  BY <1>6 DEF CommitCompleted
<1>7. CASE Tail
  BY <1>7 DEF Tail
<1>8. CASE CrashRestart
  BY <1>8 DEF CrashRestart
<1>9. CASE MonitorStep
  BY <1>9 DEF MonitorStep, ResetExpiredLeases, DeadLetterSweep
<1>10. ASSUME NEW k \in Keys, BackoffElapses(k) \/ LeaseExpires(k)
       PROVE  BudgetInv'
  BY <1>10 DEF BackoffElapses, LeaseExpires
<1>11. ASSUME NEW s \in Senders, MarketAnswers(s) \/ TimesOut(s)
       PROVE  BudgetInv'
  BY <1>11 DEF MarketAnswers, TimesOut
<1>12. ASSUME NEW k \in Keys, StrayHandled(k)
       PROVE  BudgetInv'
  BY <1>12 DEF StrayHandled
<1>13. ASSUME NEW c \in Calls, BlockOnRowLock(c)
       PROVE  BudgetInv'
  BY <1>13 DEF BlockOnRowLock
<1>14. CASE UNCHANGED vars \/ NothingToClaim
  BY <1>14 DEF vars, NothingToClaim
<1> QED
  BY <1>1, <1>2, <1>3, <1>4, <1>5, <1>6, <1>7, <1>8, <1>9, <1>10, <1>11,
     <1>12, <1>13, <1>14
  DEF Next, CallStep, LoopStep

\* Over any number of restarts the queue sends a key at most MAX_ATTEMPTS
\* times, although it settles from an attempt_count read before the await.
THEOREM RetriesAreBounded ==
  ASSUME ~MonitorRuns
  PROVE  Spec => []RetryBudget
<1>1. TypeOK /\ BudgetInv => RetryBudget
  BY BillingAssumption DEF TypeOK, BudgetInv, BudgetOf, RetryBudget, Statuses
<1> QED BY <1>1, TypeInit, TypeStep, BudgetInit, BudgetStep, PTL DEF Spec

-----------------------------------------------------------------------------
(* Leases, and what is sent, with the lease monitor at work *)

\* A row turns processing only with its batch, and leaves the batch with a
\* status of its own.
LEMMA HolderStep == TypeOK /\ LeaseHasHolder /\ [Next]_vars => LeaseHasHolder'
<1> SUFFICES ASSUME TypeOK, LeaseHasHolder, [Next]_vars
             PROVE  LeaseHasHolder'
  OBVIOUS
<1> USE BillingAssumption DEF TypeOK, LeaseHasHolder, rowVars, loopVars
<1>1. ASSUME NEW c \in Calls, CallStep(c)
      PROVE  LeaseHasHolder'
  BY <1>1 DEF CallStep, ReportUsage, Enqueue, ReportReturns, Mark,
              BlockOnRowLock
<1>2. CASE Claim
  BY <1>2 DEF Claim, Rows
<1>3. CASE NothingToClaim \/ Send
  BY <1>3 DEF NothingToClaim, vars, Send
<1>4. CASE Settle
  <2>1. CASE SettleOk
    BY <1>4, <2>1 DEF Settle, SettleOk
  <2>2. CASE SettleTerminal
    BY <1>4, <2>2 DEF Settle, SettleTerminal
  <2>3. CASE SettleRetryable
    BY <1>4, <2>3 DEF Settle, SettleRetryable
  <2> QED BY <1>4, <2>1, <2>2, <2>3 DEF Settle
<1>5. CASE CommitCompleted
  BY <1>5 DEF CommitCompleted
<1>6. CASE Tail
  BY <1>6 DEF Tail
<1>7. CASE MonitorStep
  BY <1>7 DEF MonitorStep, ResetExpiredLeases, ExpiredLeases, Rows,
              DeadLetterSweep
<1>8. CASE CrashRestart
  BY <1>8 DEF CrashRestart
<1>9. CASE ~(\/ \E c \in Calls : CallStep(c)
             \/ LoopStep \/ MonitorStep \/ CrashRestart)
  BY <1>9 DEF Next, MarketAnswers, TimesOut, StrayHandled, BackoffElapses,
              LeaseExpires, vars
<1> QED BY <1>1, <1>2, <1>3, <1>4, <1>5, <1>6, <1>7, <1>8, <1>9 DEF LoopStep

\* While the process lives a claimed row is in the worker's batch: no answer,
\* report or reset leaves one that only the lease could free (LeaseHasHolder).
THEOREM LeasesAreHeld == Spec => []LeaseHasHolder
<1>1. Init => LeaseHasHolder
  BY DEF Init, LeaseHasHolder
<1> QED BY <1>1, TypeInit, TypeStep, HolderStep, PTL DEF Spec

\* The count the worker read at the claim is never ahead of the row's, and
\* behind it where the monitor has taken the row back; a row that can be
\* claimed has paid for all that was sent.
PaidOf(k) ==
    /\ sends[k] <= attempts[k] + 1
    /\ k \in todo =>
         /\ seen[k] <= attempts[k]
         /\ sends[k] <= seen[k] + 1
         /\ ~InHand(k) => sends[k] <= seen[k]
         /\ status[k] \notin {"absent", "failed_retryable"}
         /\ status[k] = "pending" => seen[k] + 1 <= attempts[k]
    /\ k \notin todo /\ status[k] \in {"absent", "pending", "failed_retryable"}
         => sends[k] <= attempts[k]

PaidInv == \A k \in Keys : PaidOf(k)

LEMMA PaidStep == TypeOK /\ PaidInv /\ [Next]_vars => PaidInv'
<1> SUFFICES ASSUME TypeOK, PaidInv, [Next]_vars
             PROVE  PaidInv'
  OBVIOUS
<1> USE BillingAssumption DEF TypeOK, PaidInv, PaidOf, InHand, rowVars, loopVars
<1>1. ASSUME NEW c \in Calls, ReportUsage(c)
      PROVE  PaidInv'
  BY <1>1 DEF ReportUsage, Enqueue
<1>2. ASSUME NEW c \in Calls, ReportReturns(c)
      PROVE  PaidInv'
  BY <1>2 DEF ReportReturns, Mark
<1>3. ASSUME NEW c \in Calls, BlockOnRowLock(c)
      PROVE  PaidInv'
  BY <1>3 DEF BlockOnRowLock
<1>4. CASE Claim
  BY <1>4 DEF Claim, Rows
<1>5. CASE NothingToClaim
  BY <1>5 DEF NothingToClaim, vars
<1>6. CASE Send
  BY <1>6 DEF Send, IsOldest
<1>7. CASE Settle
  <2>1. CASE SettleOk
    BY <1>7, <2>1 DEF Settle, SettleOk
  <2>2. CASE SettleTerminal
    BY <1>7, <2>2 DEF Settle, SettleTerminal
  <2>3. CASE SettleRetryable
    BY <1>7, <2>3 DEF Settle, SettleRetryable
  <2> QED BY <1>7, <2>1, <2>2, <2>3 DEF Settle
<1>8. CASE CommitCompleted
  BY <1>8 DEF CommitCompleted
<1>9. CASE Tail
  BY <1>9 DEF Tail
<1>10. CASE ResetExpiredLeases
  BY <1>10 DEF ResetExpiredLeases, ExpiredLeases, Rows
<1>11. CASE DeadLetterSweep
  BY <1>11 DEF DeadLetterSweep
<1>12. CASE CrashRestart
  BY <1>12 DEF CrashRestart
<1>13. CASE ~(\/ \E c \in Calls : CallStep(c)
              \/ LoopStep \/ MonitorStep \/ CrashRestart)
  BY <1>13 DEF Next, MarketAnswers, TimesOut, StrayHandled, BackoffElapses,
               LeaseExpires, vars
<1> QED
  BY <1>1, <1>2, <1>3, <1>4, <1>5, <1>6, <1>7, <1>8, <1>9, <1>10, <1>11,
     <1>12, <1>13
  DEF CallStep, LoopStep, MonitorStep

\* With the monitor taking rows back from workers that go on all the same, no
\* request of the queue but the latest goes uncounted (SendsArePaidFor).
THEOREM SendsAreCounted == Spec => []SendsArePaidFor
<1>1. Init => PaidInv
  BY BillingAssumption DEF Init, PaidInv, PaidOf, InHand
<1>2. PaidInv => SendsArePaidFor
  BY DEF PaidInv, PaidOf, SendsArePaidFor
<1> QED BY <1>1, <1>2, TypeInit, TypeStep, PaidStep, PTL DEF Spec

-----------------------------------------------------------------------------
LEMMA SettledStep ==
  TypeOK /\ [Next]_vars =>
    \A k \in Keys : status[k] \in Final /\ k \notin todo => status'[k] = status[k]
<1> SUFFICES ASSUME TypeOK, [Next]_vars,
                    NEW k \in Keys, status[k] \in Final, k \notin todo
             PROVE  status'[k] = status[k]
  OBVIOUS
<1> USE BillingAssumption DEF TypeOK, Final, rowVars, loopVars
<1>1. ASSUME NEW c \in Calls, CallStep(c)
      PROVE  status'[k] = status[k]
  BY <1>1 DEF CallStep, ReportUsage, Enqueue, ReportReturns, Mark,
              BlockOnRowLock
<1>2. CASE LoopStep
  BY <1>2 DEF LoopStep, Claim, Rows, NothingToClaim, vars, Send, Settle,
              SettleOk, SettleTerminal, SettleRetryable, CommitCompleted, Tail
<1>3. CASE MonitorStep
  BY <1>3 DEF MonitorStep, ResetExpiredLeases, ExpiredLeases, Rows,
              DeadLetterSweep
<1>4. CASE ~((\E c \in Calls : CallStep(c)) \/ LoopStep \/ MonitorStep)
  BY <1>4 DEF Next, MarketAnswers, TimesOut, StrayHandled, BackoffElapses,
              LeaseExpires, CrashRestart, vars
<1> QED BY <1>1, <1>2, <1>3, <1>4

\* Nothing reopens a closed row that no live batch holds: not the tail, the
\* monitor, a late report_usage, a late answer or a restart.
THEOREM ClosedRowsStayClosed == Spec => SettledStays
  BY TypeInit, TypeStep, SettledStep, PTL DEF Spec, SettledStays
=============================================================================
