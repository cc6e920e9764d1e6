--------------------------- MODULE SerialLifecycle ---------------------------
(***************************************************************************)
(* The installation's serial: app/services/serial_store.py (the persistent *)
(* record), activation_manager.py (the background task that provisions,    *)
(* activates, refreshes and polls) and serial_metering.py (the check every *)
(* metered request makes), with the append side of offline_queue.py.       *)
(*                                                                         *)
(* All of it runs on one asyncio loop; an action is the code between two   *)
(* awaits.  Each transition saves serial.json before the next await, so    *)
(* the file and the record agree whenever another task runs.  The startup  *)
(* sequence is a background task: requests are metered while it waits.     *)
(* The marketplace is external: it answers what it likes while reachable.  *)
(***************************************************************************)
EXTENDS Naturals

CONSTANTS Requests,          \* metered requests that may be in progress
          CategoryOf,        \* CategoryOf[r]: "setup" or "data"
          FAILURE_THRESHOLD, \* serial_store.FAILURE_THRESHOLD
          MAX_QUEUE_ENTRIES, \* offline_queue.MAX_QUEUE_ENTRIES
          MaxRefusals,       \* bound: 401 answers
          MaxCrashes         \* bound: process deaths

ASSUME SerialAssumption ==
    /\ CategoryOf \in [Requests -> {"setup", "data"}]
    /\ FAILURE_THRESHOLD \in Nat \ {0}
    /\ MAX_QUEUE_ENTRIES \in Nat
    /\ MaxRefusals \in Nat
    /\ MaxCrashes \in Nat

VARIABLES
    state,    \* SerialState.state
    install,  \* install_token is set
    boot,     \* serial and bootstrap_token are set
    fails,    \* consecutive_failures, up to FAILURE_THRESHOLD
    version,  \* last_app_version against this build's: "none", "same", "old"
    manager,  \* what the activation manager awaits
    resume,   \* where it goes on once activated or refused
    request,  \* "sent" while its meter call is awaited
    pending,  \* entries in pending_usage.jsonl
    onTrust,  \* history: data operations allowed since the last answer
    online,   \* the marketplace is reachable
    refusals, \* 401 answers so far
    crashes   \* process deaths so far

record  == <<state, install, boot, fails, version>>
history == <<onTrust>>
outside == <<online, refusals, crashes>>
vars == <<record, manager, resume, request, pending, history, outside>>

States == {"unprovisioned", "provisioned", "active", "degraded", "migrated"}

\* No serial.json, one the installer wrote without a state, or one made from
\* the environment.
Init ==
    /\ boot \in BOOLEAN
    /\ state \in {"unprovisioned"} \cup IF boot THEN {"provisioned"} ELSE {}
    /\ install = FALSE
    /\ fails = 0
    /\ version = "none"
    /\ manager = "startup"
    /\ resume = "loop"
    /\ request = [r \in Requests |-> "idle"]
    /\ pending = 0
    /\ onTrust = 0
    /\ online \in BOOLEAN
    /\ refusals = 0
    /\ crashes = 0

-----------------------------------------------------------------------------
(* SerialStore: the transitions *)

RecordSuccess ==
    /\ fails' = 0
    /\ state' = IF state = "degraded" THEN "active" ELSE state
    /\ UNCHANGED <<install, boot>>

\* Mutant: > in place of >=.
RecordFailureLate ==
    /\ fails' = IF fails < FAILURE_THRESHOLD THEN fails + 1 ELSE fails
    /\ state' = IF state = "active" /\ fails + 1 > FAILURE_THRESHOLD
                THEN "degraded" ELSE state
    /\ UNCHANGED <<install, boot>>

\* Only the comparison with the threshold is ever read: count up to it.
RecordFailure ==
    /\ fails' = IF fails < FAILURE_THRESHOLD THEN fails + 1 ELSE fails
    /\ state' = IF state = "active" /\ fails' >= FAILURE_THRESHOLD
                THEN "degraded" ELSE state
    /\ UNCHANGED <<install, boot>>

ToActive ==
    /\ state' = "active"
    /\ install' = TRUE
    /\ boot' = FALSE
    /\ fails' = 0

ToMigrated == state' = "migrated" /\ UNCHANGED <<install, boot, fails>>

ToUnprovisioned ==
    /\ state' = "unprovisioned"
    /\ install' = FALSE
    /\ boot' = FALSE
    /\ fails' = 0

KeepRecord == UNCHANGED <<state, install, boot, fails>>

-----------------------------------------------------------------------------
(* The marketplace, as far as the client can tell *)

\* An answer arrives.  401 is the refusal of a token, current or not.
Answered(code) ==
    /\ online
    /\ IF code = 401
       THEN refusals < MaxRefusals /\ refusals' = refusals + 1
       ELSE UNCHANGED refusals
    /\ onTrust' = 0
    /\ UNCHANGED <<online, crashes>>

\* SerialClient has used up its retries.
NoAnswer == ~online /\ UNCHANGED outside

-----------------------------------------------------------------------------
(* ActivationManager *)

Await(what, next) == manager' = what /\ resume' = next

\* What follows an await, on the record as the handler left it.  "loop" is
\* the next sleep of the background loop; "startup" the rest of startup() from
\* its check for MIGRATED, "version" from its version check.  v is the
\* last_app_version so far.
GoOn(next, v) ==
    LET activates == next = "startup" /\ state' = "provisioned" /\ boot'
        migrated  == next = "startup" /\ state' = "migrated"
        checks    == next # "loop" /\ ~activates /\ ~migrated
        refreshes == checks /\ state' = "active" /\ v = "old" /\ install'
    IN \/ activates /\ Await("activate", "version") /\ version' = v
       \/ migrated /\ Await("stopped", "loop") /\ version' = v
       \/ refreshes /\ Await("refresh", "loop") /\ version' = v
       \/ /\ ~activates /\ ~migrated /\ ~refreshes
          /\ Await("idle", "loop")
          /\ version' = IF checks /\ state' = "active" THEN "same" ELSE v

\* startup() to its first await.
Startup ==
    /\ manager = "startup"
    /\ UNCHANGED <<install, boot, fails>>
    /\ IF state = "unprovisioned" /\ ~boot
       THEN Await("provision", "startup") /\ UNCHANGED <<state, version>>
       ELSE /\ state' = IF state = "unprovisioned" THEN "provisioned" ELSE state
            /\ GoOn("startup", version)
    /\ UNCHANGED <<request, pending, history, outside>>

\* Mutant: the loop polls in ACTIVE only.
WakeActiveOnly ==
    /\ manager = "idle"
    /\ \/ state = "provisioned" /\ boot /\ Await("activate", "loop")
       \/ state = "active" /\ install /\ Await("poll", "loop")
       \/ state = "unprovisioned" /\ Await("provision", "loop")
    /\ UNCHANGED <<record, request, pending, history, outside>>

\* Mutant: MIGRATED is polled as well.
WakeAlways ==
    /\ manager = "idle"
    /\ install
    /\ Await("poll", "loop")
    /\ UNCHANGED <<record, request, pending, history, outside>>

\* The background loop wakes up; in MIGRATED, or PROVISIONED without a
\* bootstrap token, it goes back to sleep.
Wake ==
    /\ manager = "idle"
    /\ \/ state = "provisioned" /\ boot /\ Await("activate", "loop")
       \/ state \in {"active", "degraded"} /\ install /\ Await("poll", "loop")
       \/ state = "unprovisioned" /\ Await("provision", "loop")
    /\ UNCHANGED <<record, request, pending, history, outside>>

\* POST /serials/generate: a new serial is stored whatever the state is by
\* now, and activated at once.
Provisioned ==
    /\ manager = "provision"
    /\ \/ /\ Answered(201)
          /\ state' = "provisioned"
          /\ boot' = TRUE
          /\ Await("activate", resume)
          /\ UNCHANGED <<install, fails, version>>
       \/ NoAnswer /\ UNCHANGED onTrust /\ KeepRecord /\ GoOn(resume, version)
    /\ UNCHANGED <<request, pending>>

\* POST /activate.
Activated ==
    /\ manager = "activate"
    /\ \/ Answered(200) /\ ToActive /\ GoOn(resume, "same")
       \/ Answered(401) /\ ToUnprovisioned /\ GoOn(resume, version)
       \/ NoAnswer /\ UNCHANGED onTrust /\ KeepRecord /\ GoOn(resume, version)
    /\ UNCHANGED <<request, pending>>

\* Mutant: a refused refresh drops the token and leaves the state.
RefreshedTokenOnly ==
    /\ manager = "refresh"
    /\ \/ Answered(200) /\ install' = TRUE
       \/ Answered(401) /\ install' = FALSE
       \/ NoAnswer /\ UNCHANGED <<install, onTrust>>
    /\ version' = "same"
    /\ Await("idle", "loop")
    /\ UNCHANGED <<state, boot, fails, request, pending>>

\* POST /refresh after an upgrade.  The version is noted in every case.
Refreshed ==
    /\ manager = "refresh"
    /\ \/ Answered(200) /\ install' = TRUE /\ UNCHANGED state
       \/ Answered(401) /\ install' = FALSE /\ state' = "provisioned"
       \/ NoAnswer /\ UNCHANGED <<install, state, onTrust>>
    /\ version' = "same"
    /\ Await("idle", "loop")
    /\ UNCHANGED <<boot, fails, request, pending>>

\* GET /status.  A migration is noted at once, or after the manager awaited
\* the registration of this install ("register").
Polled ==
    /\ manager = "poll"
    /\ \/ Answered(200) /\ RecordSuccess /\ manager' \in {"idle", "register"}
       \/ /\ Answered(200)
          /\ state' = "migrated"
          /\ fails' = 0
          /\ manager' = "idle"
          /\ UNCHANGED <<install, boot>>
       \/ Answered(401) /\ ToUnprovisioned /\ manager' = "idle"
       \/ /\ NoAnswer
          /\ RecordFailure
          /\ manager' = "idle"
          /\ UNCHANGED onTrust
    /\ UNCHANGED <<version, resume, request, pending>>

Registered ==
    /\ manager = "register"
    /\ ToMigrated
    /\ manager' = "idle"
    /\ UNCHANGED <<version, resume, request, pending, history, outside>>

-----------------------------------------------------------------------------
(* SerialMeteringStrategy.check_and_meter, in each metered request *)

\* Mutant: <= in place of <.
QueueOfflineOneMore ==
    IF pending <= MAX_QUEUE_ENTRIES
    THEN pending' = pending + 1
    ELSE UNCHANGED pending

\* OfflineQueue.append; its answer is not looked at.
QueueOffline ==
    IF pending < MAX_QUEUE_ENTRIES
    THEN pending' = pending + 1
    ELSE UNCHANGED pending

\* The startup task was created first: it has run to its first await before
\* the API serves a request.
Serving == manager # "startup"

\* Not activated or degraded: setup is let through, data is blocked.
AllowOffline(r) ==
    /\ Serving
    /\ request[r] = "idle"
    /\ state \in {"unprovisioned", "provisioned", "degraded"}
    /\ CategoryOf[r] = "setup"
    /\ QueueOffline
    /\ UNCHANGED <<record, manager, resume, request, onTrust, outside>>

\* Up to the await of POST /meter.
Meter(r) ==
    /\ Serving
    /\ request[r] = "idle"
    /\ state = "active"
    /\ install
    /\ request' = [request EXCEPT ![r] = "sent"]
    /\ UNCHANGED <<record, manager, resume, pending, history, outside>>

\* Mutant: the failure is not counted.
OfflinePolicyUncounted(r) ==
    /\ KeepRecord
    /\ IF CategoryOf[r] = "setup"
       THEN QueueOffline /\ UNCHANGED onTrust
       ELSE onTrust' = onTrust + 1 /\ UNCHANGED pending

\* The offline policy after a network failure: setup passes, data passes
\* while the failures are below the threshold.
OfflinePolicy(r) ==
    /\ RecordFailure
    /\ IF CategoryOf[r] = "setup"
       THEN QueueOffline /\ UNCHANGED onTrust
       ELSE /\ onTrust' = IF fails' < FAILURE_THRESHOLD THEN onTrust + 1
                          ELSE onTrust
            /\ UNCHANGED pending

\* The meter call returns; whatever the state is by now, the handler acts on
\* the answer to the token it sent.
Metered(r) ==
    /\ request[r] = "sent"
    /\ request' = [request EXCEPT ![r] = "idle"]
    /\ \/ Answered(200) /\ RecordSuccess /\ UNCHANGED pending
       \/ Answered(200) /\ ToMigrated /\ UNCHANGED pending
       \/ Answered(401) /\ ToUnprovisioned /\ UNCHANGED pending
       \/ NoAnswer /\ OfflinePolicy(r)
    /\ UNCHANGED <<version, manager, resume>>

-----------------------------------------------------------------------------
\* The network comes and goes.
Switch ==
    /\ online' = ~online
    /\ UNCHANGED <<record, manager, resume, request, pending, history,
                   refusals, crashes>>

\* The process dies or shuts down and starts again, possibly as a new build.
CrashRestart ==
    /\ crashes < MaxCrashes
    /\ crashes' = crashes + 1
    /\ version' \in {version} \cup IF version = "none" THEN {} ELSE {"old"}
    /\ manager' = "startup"
    /\ resume' = "loop"
    /\ request' = [r \in Requests |-> "idle"]
    /\ UNCHANGED <<state, install, boot, fails, pending, history, online,
                   refusals>>

ManagerStep ==
    \/ Startup \/ Wake \/ Provisioned \/ Activated \/ Refreshed \/ Polled
    \/ Registered

Next ==
    \/ ManagerStep
    \/ \E r \in Requests : AllowOffline(r) \/ Meter(r) \/ Metered(r)
    \/ Switch
    \/ CrashRestart

Spec == Init /\ [][Next]_vars

\* The manager's task runs on after its sleeps and its requests, which
\* SerialClient bounds by timeouts and a fixed number of retries.
FairSpec == Spec /\ WF_vars(ManagerStep)

-----------------------------------------------------------------------------
\* Types of the record, the tasks and the counters.
TypeOK ==
    /\ state \in States
    /\ install \in BOOLEAN
    /\ boot \in BOOLEAN
    /\ online \in BOOLEAN
    /\ fails \in 0..FAILURE_THRESHOLD
    /\ version \in {"none", "same", "old"}
    /\ manager \in {"startup", "provision", "activate", "refresh", "poll",
                    "register", "idle", "stopped"}
    /\ resume \in {"startup", "version", "loop"}
    /\ request \in [Requests -> {"idle", "sent"}]
    /\ pending \in 0..MAX_QUEUE_ENTRIES
    /\ onTrust \in Nat
    /\ refusals \in 0..MaxRefusals
    /\ crashes \in 0..MaxCrashes

\* An installation that serves has an install token and has given up its
\* bootstrap token (transition_to_active), in whatever order late answers,
\* refusals, refreshes and restarts come.
ServingHasToken == state \in {"active", "degraded"} => install /\ ~boot

\* DEGRADED means that FAILURE_THRESHOLD calls failed in a row, ACTIVE that
\* fewer did (record_failure, record_success), with several callers counting.
DegradedIffFailing ==
    /\ state = "active" => fails < FAILURE_THRESHOLD
    /\ state = "degraded" => fails = FAILURE_THRESHOLD

\* Between two answers of the marketplace fewer than FAILURE_THRESHOLD data
\* operations pass unverified, however many requests fail at once and however
\* often the process restarts (check_and_meter's offline policy).
TrustIsBounded == onTrust < FAILURE_THRESHOLD

\* Migrated, with nothing sent under the old token still unanswered.
SettledMigration ==
    /\ state = "migrated"
    /\ manager \in {"startup", "idle", "stopped"}
    /\ \A r \in Requests : request[r] = "idle"

\* Such a migration is for good: no request, poll, upgrade or restart takes
\* the installation back to its serial.
MigrationLasts == [][SettledMigration => SettledMigration']_vars

\* Refused at a refresh: the installation waits to be activated by hand.
NeedsReactivation == state = "provisioned" /\ ~boot

\* Once the marketplace stays reachable the installation gets back to service
\* (_background_loop), however it was degraded, refused or restarted.
Recovers ==
    <>[]online => []<>(state \in {"active", "migrated"} \/ NeedsReactivation)
=============================================================================
