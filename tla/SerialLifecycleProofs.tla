------------------------ MODULE SerialLifecycleProofs ------------------------
(***************************************************************************)
(* What holds of the serial record for any number of metered requests,     *)
(* refusals, outages and restarts, and for every threshold and queue cap.  *)
(***************************************************************************)
EXTENDS SerialLifecycle, TLAPS

\* The operations passed on trust never outnumber the failures counted: each
\* was preceded by a record_failure, and only an answer resets the counter.
TrustIsCounted == onTrust <= fails

SerialInv ==
    /\ TypeOK
    /\ ServingHasToken
    /\ DegradedIffFailing
    /\ TrustIsCounted
    /\ TrustIsBounded

-----------------------------------------------------------------------------
\* Wherever startup() or the loop goes on, the manager's state is well typed.
LEMMA GoOnTypes ==
    ASSUME NEW next \in {"startup", "version", "loop"},
           NEW v \in {"none", "same", "old"},
           GoOn(next, v)
    PROVE  /\ manager' \in {"activate", "stopped", "refresh", "idle"}
           /\ resume' \in {"startup", "version", "loop"}
           /\ version' \in {"none", "same", "old"}
  BY DEF GoOn, Await

\* An answer starts the count of trusted operations again.
LEMMA AnswerTypes ==
    ASSUME TypeOK, NEW code, Answered(code)
    PROVE  /\ onTrust' = 0
           /\ refusals' \in 0..MaxRefusals
           /\ crashes' \in 0..MaxCrashes
           /\ online' \in BOOLEAN
  BY SerialAssumption DEF Answered, TypeOK

\* Without one, the outside world stays as it was.
LEMMA NoAnswerTypes ==
    ASSUME TypeOK, NoAnswer
    PROVE  /\ refusals' \in 0..MaxRefusals
           /\ crashes' \in 0..MaxCrashes
           /\ online' \in BOOLEAN
  BY DEF NoAnswer, outside, TypeOK

\* A counted failure keeps what the record promises, and raises the counter
\* unless it is at the threshold.
LEMMA FailureKeepsRecord ==
    ASSUME SerialInv, RecordFailure
    PROVE  /\ state' \in States
           /\ install' \in BOOLEAN
           /\ boot' \in BOOLEAN
           /\ fails' \in 0..FAILURE_THRESHOLD
           /\ ServingHasToken'
           /\ DegradedIffFailing'
           /\ fails < FAILURE_THRESHOLD => fails' = fails + 1
           /\ fails' >= fails
  BY SerialAssumption
  DEF SerialInv, RecordFailure, TypeOK, States, ServingHasToken,
      DegradedIffFailing

\* So does a success.
LEMMA SuccessKeepsRecord ==
    ASSUME SerialInv, RecordSuccess
    PROVE  /\ state' \in States
           /\ install' \in BOOLEAN
           /\ boot' \in BOOLEAN
           /\ fails' = 0
           /\ ServingHasToken'
           /\ DegradedIffFailing'
  BY SerialAssumption
  DEF SerialInv, RecordSuccess, TypeOK, States, ServingHasToken,
      DegradedIffFailing

\* Activation and refusal set both tokens.
LEMMA ActiveTypes ==
    ASSUME ToActive
    PROVE  /\ state' = "active" /\ fails' = 0
           /\ install' /\ install' \in BOOLEAN
           /\ ~boot' /\ boot' \in BOOLEAN
  BY Zenon DEF ToActive

LEMMA UnprovisionedTypes ==
    ASSUME ToUnprovisioned
    PROVE  /\ state' = "unprovisioned" /\ fails' = 0
           /\ install' \in BOOLEAN /\ boot' \in BOOLEAN
  BY Zenon DEF ToUnprovisioned

\* The offline queue never outgrows its cap.
LEMMA QueueTypes ==
    ASSUME TypeOK, QueueOffline
    PROVE  pending' \in 0..MAX_QUEUE_ENTRIES
<1>1. CASE pending < MAX_QUEUE_ENTRIES
  <2>1. pending' = pending + 1
    BY <1>1 DEF QueueOffline
  <2> QED
    BY <1>1, <2>1, SerialAssumption DEF TypeOK
<1>2. CASE ~(pending < MAX_QUEUE_ENTRIES)
  <2>1. pending' = pending
    BY <1>2, Zenon DEF QueueOffline
  <2> QED
    BY <2>1 DEF TypeOK
<1> QED
  BY <1>1, <1>2

-----------------------------------------------------------------------------
LEMMA SerialInit == Init => SerialInv
<1> SUFFICES ASSUME Init PROVE SerialInv
  OBVIOUS
<1>1. TypeOK
  <2>1. boot \in BOOLEAN /\ install \in BOOLEAN /\ online \in BOOLEAN
    BY Zenon DEF Init
  <2>2. state \in {"unprovisioned", "provisioned"}
    BY DEF Init
  <2> QED
    BY <2>1, <2>2, SerialAssumption DEF Init, TypeOK, States
<1>2. state \notin {"active", "degraded"}
  BY DEF Init
<1> QED
  BY <1>1, <1>2, SerialAssumption
  DEF Init, SerialInv, ServingHasToken, DegradedIffFailing, TrustIsCounted,
      TrustIsBounded

\* One step per action; a handler has one step per answer it may get.
LEMMA SerialStep == SerialInv /\ [Next]_vars => SerialInv'
<1> SUFFICES ASSUME SerialInv, [Next]_vars PROVE SerialInv'
  OBVIOUS
<1> USE SerialAssumption
    DEF SerialInv, TypeOK, States, ServingHasToken, DegradedIffFailing,
        TrustIsCounted, TrustIsBounded
<1>1. CASE Startup
  <2>1. UNCHANGED <<install, boot, fails, request, pending, history, outside>>
    BY <1>1 DEF Startup
  <2>2. CASE state = "unprovisioned" /\ ~boot
    BY <1>1, <2>1, <2>2 DEF Startup, Await, history, outside
  <2>3. CASE ~(state = "unprovisioned" /\ ~boot)
    <3>1. /\ GoOn("startup", version)
          /\ state' = IF state = "unprovisioned" THEN "provisioned" ELSE state
      BY <1>1, <2>3 DEF Startup
    <3>2. /\ manager' \in {"activate", "stopped", "refresh", "idle"}
          /\ resume' \in {"startup", "version", "loop"}
          /\ version' \in {"none", "same", "old"}
      BY <3>1, GoOnTypes
    <3> QED
      BY <2>1, <3>1, <3>2 DEF history, outside
  <2> QED
    BY <2>2, <2>3
<1>2. CASE Wake
  BY <1>2 DEF Wake, Await, record, history, outside
<1>3. CASE Provisioned
  <2>1. UNCHANGED <<request, pending>>
    BY <1>3 DEF Provisioned
  <2>2. CASE Answered(201) /\ state' = "provisioned" /\ boot' = TRUE
              /\ Await("activate", resume) /\ UNCHANGED <<install, fails, version>>
    BY <2>1, <2>2, AnswerTypes DEF Await
  <2>3. CASE NoAnswer /\ UNCHANGED onTrust /\ KeepRecord /\ GoOn(resume, version)
    BY <2>1, <2>3, NoAnswerTypes, GoOnTypes DEF KeepRecord
  <2> QED
    BY <1>3, <2>2, <2>3 DEF Provisioned
<1>4. CASE Activated
  <2>1. UNCHANGED <<request, pending>>
    BY <1>4 DEF Activated
  <2>2. CASE Answered(200) /\ ToActive /\ GoOn(resume, "same")
    BY <2>1, <2>2, AnswerTypes, GoOnTypes, ActiveTypes
  <2>3. CASE Answered(401) /\ ToUnprovisioned /\ GoOn(resume, version)
    BY <2>1, <2>3, AnswerTypes, GoOnTypes, UnprovisionedTypes
  <2>4. CASE NoAnswer /\ UNCHANGED onTrust /\ KeepRecord /\ GoOn(resume, version)
    BY <2>1, <2>4, NoAnswerTypes, GoOnTypes DEF KeepRecord
  <2> QED
    BY <1>4, <2>2, <2>3, <2>4 DEF Activated
<1>5. CASE Refreshed
  <2>1. /\ UNCHANGED <<boot, fails, request, pending>>
        /\ version' = "same" /\ manager' = "idle" /\ resume' = "loop"
    BY <1>5 DEF Refreshed, Await
  <2>2. CASE Answered(200) /\ install' = TRUE /\ UNCHANGED state
    <3>1. install' /\ install' \in BOOLEAN
      BY <2>2, Zenon
    <3> QED
      BY <2>1, <2>2, <3>1, AnswerTypes
  <2>3. CASE Answered(401) /\ install' = FALSE /\ state' = "provisioned"
    <3>1. install' \in BOOLEAN
      BY <2>3, Zenon
    <3> QED
      BY <2>1, <2>3, <3>1, AnswerTypes
  <2>4. CASE NoAnswer /\ UNCHANGED <<install, state, onTrust>>
    BY <2>1, <2>4, NoAnswerTypes
  <2> QED
    BY <1>5, <2>2, <2>3, <2>4 DEF Refreshed
<1>6. CASE Polled
  <2>1. UNCHANGED <<version, resume, request, pending>>
    BY <1>6 DEF Polled
  <2>2. CASE Answered(200) /\ RecordSuccess /\ manager' \in {"idle", "register"}
    BY <2>1, <2>2, AnswerTypes, SuccessKeepsRecord
  <2>3. CASE /\ Answered(200)
              /\ state' = "migrated"
              /\ fails' = 0
              /\ manager' = "idle"
              /\ UNCHANGED <<install, boot>>
    BY <2>1, <2>3, AnswerTypes
  <2>4. CASE Answered(401) /\ ToUnprovisioned /\ manager' = "idle"
    BY <2>1, <2>4, AnswerTypes, UnprovisionedTypes
  <2>5. CASE NoAnswer /\ RecordFailure /\ manager' = "idle" /\ UNCHANGED onTrust
    BY <2>1, <2>5, NoAnswerTypes, FailureKeepsRecord
  <2> QED
    BY <1>6, <2>2, <2>3, <2>4, <2>5 DEF Polled
<1>7. CASE Registered
  BY <1>7 DEF Registered, ToMigrated, history, outside
<1>8. ASSUME NEW r \in Requests, AllowOffline(r)
      PROVE  SerialInv'
  <2>1. QueueOffline /\ UNCHANGED <<record, manager, resume, request, onTrust, outside>>
    BY <1>8 DEF AllowOffline
  <2> QED
    BY <2>1, QueueTypes DEF record, outside
<1>9. ASSUME NEW r \in Requests, Meter(r)
      PROVE  SerialInv'
  <2>1. /\ request' = [request EXCEPT ![r] = "sent"]
        /\ UNCHANGED <<record, manager, resume, pending, history, outside>>
    BY <1>9 DEF Meter
  <2> QED
    BY <2>1 DEF record, history, outside
<1>10. ASSUME NEW r \in Requests, Metered(r)
       PROVE  SerialInv'
  <2>1. /\ request' \in [Requests -> {"idle", "sent"}]
        /\ UNCHANGED <<version, manager, resume>>
    BY <1>10 DEF Metered
  <2>2. CASE Answered(200) /\ RecordSuccess /\ UNCHANGED pending
    BY <2>1, <2>2, AnswerTypes, SuccessKeepsRecord
  <2>3. CASE Answered(200) /\ ToMigrated /\ UNCHANGED pending
    BY <2>1, <2>3, AnswerTypes DEF ToMigrated
  <2>4. CASE Answered(401) /\ ToUnprovisioned /\ UNCHANGED pending
    BY <2>1, <2>4, AnswerTypes, UnprovisionedTypes
  <2>5. CASE NoAnswer /\ OfflinePolicy(r)
    <3>1. RecordFailure
      BY <2>5 DEF OfflinePolicy
    <3>2. CASE QueueOffline /\ UNCHANGED onTrust
      BY <2>1, <2>5, <3>1, <3>2, NoAnswerTypes, FailureKeepsRecord, QueueTypes
    <3>3. CASE /\ onTrust' = IF fails' < FAILURE_THRESHOLD THEN onTrust + 1
                             ELSE onTrust
               /\ UNCHANGED pending
      <4>1. onTrust' \in Nat /\ onTrust' <= fails' /\ onTrust' < FAILURE_THRESHOLD
        BY <3>1, <3>3, FailureKeepsRecord
      <4> QED
        BY <2>1, <2>5, <3>1, <3>3, <4>1, NoAnswerTypes, FailureKeepsRecord
    <3> QED
      BY <2>5, <3>2, <3>3 DEF OfflinePolicy
  <2> QED
    BY <1>10, <2>2, <2>3, <2>4, <2>5 DEF Metered
<1>11. CASE Switch
  <2>1. online' \in BOOLEAN
    BY <1>11, Zenon DEF Switch
  <2> QED
    BY <1>11, <2>1 DEF Switch, record, history
<1>12. CASE CrashRestart
  <2>1. version' \in {"none", "same", "old"} /\ crashes' \in 0..MaxCrashes
    BY <1>12 DEF CrashRestart
  <2>2. request' \in [Requests -> {"idle", "sent"}]
    BY <1>12 DEF CrashRestart
  <2> QED
    BY <1>12, <2>1, <2>2 DEF CrashRestart, history
<1>13. CASE UNCHANGED vars
  BY <1>13 DEF vars, record, history, outside
<1> QED
  BY <1>1, <1>2, <1>3, <1>4, <1>5, <1>6, <1>7, <1>8, <1>9, <1>10, <1>11, <1>12,
     <1>13
  DEF Next, ManagerStep

LEMMA SerialInvariant == Spec => []SerialInv
  BY SerialInit, SerialStep, PTL DEF Spec

-----------------------------------------------------------------------------
\* The record, the tasks and the counters keep their types, whatever the
\* marketplace answers and however startup and requests interleave.
THEOREM SerialTypes == Spec => []TypeOK
  BY SerialInvariant, PTL DEF SerialInv

\* An installation that serves holds an install token and no bootstrap token:
\* no late answer or refused refresh leaves it active without credentials.
THEOREM ServiceHasToken == Spec => []ServingHasToken
  BY SerialInvariant, PTL DEF SerialInv

\* DEGRADED is exactly what the counter of consecutive failures says, however
\* many requests and polls count at once.
THEOREM DegradedIsFailing == Spec => []DegradedIffFailing
  BY SerialInvariant, PTL DEF SerialInv

\* The free data use an outage allows is bounded by the failure threshold, for
\* any number of concurrent requests and over restarts.
THEOREM FreeUseIsBounded == Spec => []TrustIsBounded
  BY SerialInvariant, PTL DEF SerialInv

\* A settled migration is for good (startup's early return, the loop's branch
\* for MIGRATED, the ledger strategy).
THEOREM MigrationIsFinal == Spec => MigrationLasts
<1>1. ASSUME SettledMigration, [Next]_vars
      PROVE  SettledMigration'
  <2> USE <1>1 DEF SettledMigration
  <2>1. CASE Startup
    BY <2>1 DEF Startup, GoOn, Await
  <2>2. CASE CrashRestart
    BY <2>2 DEF CrashRestart
  <2>3. CASE Switch
    BY <2>3 DEF Switch, record
  <2>4. CASE UNCHANGED vars
    BY <2>4 DEF vars, record
  <2>5. ~Wake /\ ~Provisioned /\ ~Activated /\ ~Refreshed /\ ~Polled /\ ~Registered
    BY DEF Wake, Provisioned, Activated, Refreshed, Polled, Registered
  <2>6. \A r \in Requests : ~AllowOffline(r) /\ ~Meter(r) /\ ~Metered(r)
    BY DEF AllowOffline, Meter, Metered
  <2> QED
    BY <2>1, <2>2, <2>3, <2>4, <2>5, <2>6 DEF Next, ManagerStep
<1>2. [Next]_vars => [SettledMigration => SettledMigration']_vars
  BY <1>1
<1> QED
  BY <1>2, PTL DEF Spec, MigrationLasts
=============================================================================
