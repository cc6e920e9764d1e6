-------------------------- MODULE VerificationRun --------------------------
(***************************************************************************)
(* One run of the seller's data verification:                              *)
(* app/services/data_verification_local_service.py over the row of         *)
(* data_verification_runs.  A start takes a lease on the row, starts the   *)
(* run at the marketplace, scans in a thread, persists the report, sends   *)
(* it, and releases the lease; other requests quote again, refresh the     *)
(* status or give commands meanwhile.                                      *)
(*                                                                         *)
(* An action is the code between two awaits; each await of the marketplace *)
(* is two steps, so that its effect and its answer can be apart, and the   *)
(* answer may not come.  The lease is renewed every few seconds but runs   *)
(* out under an owner whose process stalls.  A quote asked for after the   *)
(* run's end makes another row, to which all of this applies anew.         *)
(***************************************************************************)
EXTENDS Naturals

CONSTANTS Starters,   \* requests that call start
          Clerks,     \* requests that quote, refresh or command
          NoOwner,    \* start_lease_owner_id is None
          MaxQuotes,  \* bound: quotes of this run
          MaxFaults   \* bound: process deaths, and leases that run out under
                      \* a living owner

ASSUME VerificationAssumption ==
    /\ Starters \cap Clerks = {}
    /\ NoOwner \notin Starters
    /\ MaxQuotes \in Nat \ {0}
    /\ MaxFaults \in Nat

VARIABLES
    row,      \* the run: state, quote, accepted, claims, verification_id,
              \* report, ingested
    owner,    \* start_lease_owner_id
    live,     \* the lease has not run out
    call,     \* call[r]: what request r awaits, and what it has read
    server,   \* the marketplace's state of the run
    spec,     \* the quote the marketplace's scan spec was issued for
    received, \* history: reports the marketplace took
    passed,   \* history: states the marketplace's run has been in
    scans,    \* scans so far
    faults    \* deaths and stalls so far

lease   == <<owner, live>>
market  == <<server, spec, received, passed>>
bounds  == <<scans, faults>>
vars == <<row, lease, call, market, bounds>>

\* A scan that persists its report is the last one; every other was cut off
\* by a stall or a crash.
MaxScans == 1 + MaxFaults

Requests == Starters \cup Clerks
States   == {"AUTHORIZING", "AUTHORIZED", "CAPTURED", "PUBLISHED", "WITHDRAWN",
             "ENDED"}
Reports  == 1..MaxScans  \* one a scan
NoReport == 0            \* report_json is None

\* What a request has in hand: the acknowledgements, quote, scan claim and
\* report it read, an answer, and what it does after the status.
Idle == [pc |-> "idle", acks |-> FALSE, quote |-> 0, recover |-> FALSE,
         report |-> NoReport, answer |-> "none", after |-> "none"]

Init ==
    /\ row = [state |-> "QUOTED", quote |-> 1, accepted |-> FALSE,
              startClaimed |-> FALSE, scanClaimed |-> FALSE, vid |-> FALSE,
              report |-> NoReport, ingested |-> FALSE]
    /\ owner = NoOwner
    /\ live = FALSE
    /\ call = [r \in Requests |-> Idle]
    /\ server = "NONE"
    /\ spec = 0
    /\ received = {}
    /\ passed = {}
    /\ scans = 0
    /\ faults = 0

\* Where a request goes on, with what it still has in hand.
At(r, pc, locals) == call' = [call EXCEPT ![r] = [locals EXCEPT !.pc = pc]]
Go(r, pc) == At(r, pc, call[r])
End(r)    == At(r, "idle", Idle)

-----------------------------------------------------------------------------
(* The lease *)

Live == owner # NoOwner /\ live

\* _renew_start_lease finds its row unless another start took the lease.
Renews(r) == owner = r

Renewed == live' = TRUE /\ UNCHANGED owner

\* Leaving the heartbeat's context gives back the lease, if it is still one's
\* own.
Leave(r) ==
    /\ End(r)
    /\ owner' = IF owner = r THEN NoOwner ELSE owner
    /\ live' = (live /\ owner # r)

InLease == {"starting", "started", "sync", "synced", "scanning", "ingest",
            "ingested"}

Beat(r) ==
    /\ call[r].pc \in InLease
    /\ Renews(r)
    /\ ~live
    /\ Renewed
    /\ UNCHANGED <<row, call, market, bounds>>

\* The owner is gone, or its process stalls for START_LEASE_SECONDS.
Expire ==
    /\ Live
    /\ live' = FALSE
    /\ IF owner \in Starters /\ call[owner].pc \in InLease
       THEN faults < MaxFaults /\ faults' = faults + 1
       ELSE UNCHANGED faults
    /\ UNCHANGED <<row, owner, call, market, scans>>

-----------------------------------------------------------------------------
(* start *)

Begin(r) ==
    /\ r \in Starters
    /\ call[r].pc = "idle"
    /\ call' = [call EXCEPT ![r] =
                  [Idle EXCEPT !.acks = row.accepted,
                     !.pc = IF row.vid \/ row.startClaimed THEN "accept"
                            ELSE "readiness"]]
    /\ UNCHANGED <<row, lease, market, bounds>>

\* No payment method yet: the view says so.
NotReady(r) ==
    /\ call[r].pc = "readiness"
    /\ End(r)
    /\ UNCHANGED <<row, lease, market, bounds>>

\* The acknowledgements are saved unless they were there before the await.
Accept(r) ==
    /\ call[r].pc \in {"readiness", "accept"}
    /\ row' = [row EXCEPT !.accepted = @ \/ ~call[r].acks]
    /\ At(r, "claim", Idle)
    /\ UNCHANGED <<lease, market, bounds>>

\* Mutant: a finished run is waited for like a running one.
FinishedNeverSeen(r) ==
    /\ call[r].pc = "claim"
    /\ row.ingested /\ ~Live /\ ~row.vid
    /\ End(r)
    /\ UNCHANGED <<row, lease, market, bounds>>

\* The report was ingested and nobody holds the lease: only refresh.
Finished(r) ==
    /\ call[r].pc = "claim"
    /\ row.ingested /\ ~Live
    /\ IF row.vid THEN call' = [call EXCEPT ![r].pc = "refresh"] ELSE End(r)
    /\ UNCHANGED <<row, lease, market, bounds>>

\* _try_claim_start_lease succeeds, and _start_with_lease runs on what the
\* row says now.
Claim(r) ==
    /\ call[r].pc = "claim"
    /\ ~row.ingested /\ ~Live
    /\ IF row.report # NoReport
       THEN /\ call' = [call EXCEPT ![r].pc = "ingest",
                                    ![r].report = row.report]
            /\ owner' = r /\ live' = TRUE
            /\ UNCHANGED row
       ELSE IF ~row.accepted
       THEN End(r) /\ owner' = NoOwner /\ live' = FALSE /\ UNCHANGED row
       ELSE /\ call' = [call EXCEPT ![r].pc = "starting",
                                    ![r].quote = row.quote,
                                    ![r].recover = row.scanClaimed]
            /\ owner' = r /\ live' = TRUE
            /\ row' = [row EXCEPT !.startClaimed = TRUE]
    /\ UNCHANGED <<market, bounds>>

\* The marketplace starts the run, or replays the start of the same key.
ServerStarts(r) ==
    /\ call[r].pc = "starting"
    /\ IF spec # 0 THEN UNCHANGED market
       ELSE /\ spec' = call[r].quote
            /\ server' \in {"AUTHORIZING", "AUTHORIZED"}
            /\ passed' = {server'}
            /\ UNCHANGED received
    /\ At(r, "started", [Idle EXCEPT !.recover = call[r].recover])
    /\ UNCHANGED <<row, lease, bounds>>

\* The answer: the lease must still be one's own.
Started(r) ==
    /\ call[r].pc = "started"
    /\ IF Renews(r)
       THEN /\ row' = [row EXCEPT !.vid = TRUE]
            /\ At(r, "sync", [Idle EXCEPT !.after = "scan",
                                          !.recover = call[r].recover])
            /\ Renewed
       ELSE Leave(r) /\ UNCHANGED row
    /\ UNCHANGED <<market, bounds>>

ServerAnswers(r) ==
    /\ call[r].pc \in {"sync", "refresh"}
    /\ call' = [call EXCEPT ![r].answer = server,
                            ![r].pc = IF call[r].pc = "sync" THEN "synced"
                                      ELSE "refreshed"]
    /\ UNCHANGED <<row, lease, market, bounds>>

Refreshed(r) ==
    /\ call[r].pc = "refreshed"
    /\ row' = [row EXCEPT !.state = call[r].answer]
    /\ End(r)
    /\ UNCHANGED <<lease, market, bounds>>

\* _sync_status under the lease; then the scan, once authorized.
Synced(r) ==
    /\ call[r].pc = "synced"
    /\ IF Renews(r)
       THEN LET scan == /\ call[r].after = "scan"
                        /\ call[r].answer = "AUTHORIZED"
                        /\ call[r].recover \/ ~row.scanClaimed IN
            /\ row' = [row EXCEPT !.state = call[r].answer,
                                  !.scanClaimed = @ \/ scan]
            /\ IF scan
               THEN /\ At(r, "scanning", Idle)
                    /\ Renewed
               ELSE Leave(r)
       ELSE Leave(r) /\ UNCHANGED row
    /\ UNCHANGED <<market, bounds>>

\* Mutant: the report is persisted without a look at the lease.
ScannedUnguarded(r) ==
    /\ call[r].pc = "scanning"
    /\ scans < MaxScans
    /\ scans' = scans + 1
    /\ row' = [row EXCEPT !.report = scans']
    /\ At(r, "ingest", [Idle EXCEPT !.report = scans'])
    /\ UNCHANGED <<lease, market, faults>>

\* The thread ends, with a report or the terminal one of a failed scan.
Scanned(r) ==
    /\ call[r].pc = "scanning"
    /\ scans < MaxScans
    /\ scans' = scans + 1
    /\ IF Renews(r)
       THEN /\ row' = [row EXCEPT !.report = scans']
            /\ At(r, "ingest", [Idle EXCEPT !.report = scans'])
            /\ Renewed
       ELSE Leave(r) /\ UNCHANGED row
    /\ UNCHANGED <<market, faults>>

\* The report on its way is the one that was persisted.
ServerIngests(r) ==
    /\ call[r].pc = "ingest"
    /\ server \in {"AUTHORIZED", "CAPTURED"}
    /\ received' = received \cup {call[r].report}
    /\ server' \in IF server = "AUTHORIZED" THEN {"CAPTURED", "ENDED"}
                   ELSE {"CAPTURED"}
    /\ passed' = passed \cup {server'}
    /\ At(r, "ingested", Idle)
    /\ UNCHANGED <<row, lease, spec, bounds>>

Ingested(r) ==
    /\ call[r].pc = "ingested"
    /\ IF Renews(r)
       THEN /\ row' = [row EXCEPT !.ingested = TRUE]
            /\ At(r, "sync", [Idle EXCEPT !.after = "leave"])
            /\ Renewed
       ELSE Leave(r) /\ UNCHANGED row
    /\ UNCHANGED <<market, bounds>>

\* The marketplace refuses, or no answer comes.
CallFails(r) ==
    /\ call[r].pc \in {"starting", "started", "sync", "synced", "ingest",
                       "ingested", "refresh", "refreshed", "quoting",
                       "commanding", "commanded"}
    /\ IF call[r].pc \in InLease THEN Leave(r) ELSE End(r) /\ UNCHANGED lease
    /\ UNCHANGED <<row, market, bounds>>

-----------------------------------------------------------------------------
(* prepare_quote, refresh, lifecycle_command *)

\* Another description: a QUOTED run is quoted again.
AskQuote(r) ==
    /\ call[r].pc = "idle"
    /\ row.state = "QUOTED"
    /\ row.quote < MaxQuotes
    /\ Go(r, "quoting")
    /\ UNCHANGED <<row, lease, market, bounds>>

\* What the row has become during the await is not looked at.
Quoted(r) ==
    /\ call[r].pc = "quoting"
    /\ row.quote < MaxQuotes
    /\ row' = [row EXCEPT !.quote = @ + 1, !.accepted = FALSE]
    /\ End(r)
    /\ UNCHANGED <<lease, market, bounds>>

\* Mutant: a run is refreshed before the marketplace knows it.
RefreshEarly(r) ==
    /\ call[r].pc = "idle"
    /\ Go(r, "refresh")
    /\ UNCHANGED <<row, lease, market, bounds>>

Refresh(r) ==
    /\ call[r].pc = "idle"
    /\ row.vid
    /\ Go(r, "refresh")
    /\ UNCHANGED <<row, lease, market, bounds>>

Actions == {"cancel", "publish", "decline", "withdraw"}

\* Where a command is offered, and what the marketplace makes of it.
Allows(a, s) ==
    CASE a = "cancel"   -> s \in {"AUTHORIZING", "AUTHORIZED"}
      [] a = "publish"  -> s = "CAPTURED"
      [] a = "decline"  -> s = "CAPTURED"
      [] a = "withdraw" -> s = "PUBLISHED"

Becomes(a) ==
    CASE a \in {"cancel", "decline"} -> "ENDED"
      [] a = "publish"              -> "PUBLISHED"
      [] a = "withdraw"             -> "WITHDRAWN"

\* Mutant: the outcome is written before the marketplace has answered.
CommandAtOnce(r, a) ==
    /\ call[r].pc = "idle"
    /\ row.vid
    /\ Allows(a, row.state)
    /\ row' = [row EXCEPT !.state = Becomes(a)]
    /\ call' = [call EXCEPT ![r].pc = "commanding", ![r].after = a]
    /\ UNCHANGED <<lease, market, bounds>>

\* Publishing also needs the interpretation, which came with the ingest.
Command(r, a) ==
    /\ call[r].pc = "idle"
    /\ row.vid
    /\ Allows(a, row.state)
    /\ a = "publish" => row.ingested
    /\ call' = [call EXCEPT ![r].pc = "commanding", ![r].after = a]
    /\ UNCHANGED <<row, lease, market, bounds>>

ServerCommands(r) ==
    /\ call[r].pc = "commanding"
    /\ Allows(call[r].after, server)
    /\ server' = Becomes(call[r].after)
    /\ passed' = passed \cup {server'}
    /\ At(r, "commanded", [Idle EXCEPT !.answer = server'])
    /\ UNCHANGED <<row, lease, spec, received, bounds>>

Commanded(r) ==
    /\ call[r].pc = "commanded"
    /\ row' = [row EXCEPT !.state = call[r].answer]
    /\ End(r)
    /\ UNCHANGED <<lease, market, bounds>>

-----------------------------------------------------------------------------
(* The surroundings *)

\* The payment is authorized, or is not.
Authorize ==
    /\ server = "AUTHORIZING"
    /\ server' \in {"AUTHORIZED", "ENDED"}
    /\ passed' = passed \cup {server'}
    /\ UNCHANGED <<row, lease, call, spec, received, bounds>>

\* The row survives, and the lease in it.
CrashRestart ==
    /\ faults < MaxFaults
    /\ faults' = faults + 1
    /\ call' = [r \in Requests |-> Idle]
    /\ UNCHANGED <<row, lease, market, scans>>

StartStep(r) ==
    \/ NotReady(r) \/ Accept(r) \/ Finished(r) \/ Claim(r)
    \/ ServerStarts(r) \/ Started(r) \/ Synced(r) \/ Scanned(r)
    \/ ServerIngests(r) \/ Ingested(r)
    \/ ServerAnswers(r) \/ Refreshed(r) \/ CallFails(r)

ClerkStep(r) ==
    \/ AskQuote(r) \/ Quoted(r) \/ Refresh(r)
    \/ \E a \in Actions : Command(r, a)
    \/ ServerCommands(r) \/ Commanded(r)
    \/ ServerAnswers(r) \/ Refreshed(r) \/ CallFails(r)

Next ==
    \/ \E r \in Starters : Begin(r) \/ StartStep(r) \/ Beat(r)
    \/ \E r \in Clerks : ClerkStep(r)
    \/ Expire \/ Authorize \/ CrashRestart

Spec == Init /\ [][Next]_vars

\* A request's coroutine runs on, its calls are timed, and time passes for a
\* lease whose owner is gone.  Nobody is obliged to start, quote or command.
FairSpec ==
    /\ Spec
    /\ \A r \in Starters : SF_vars(Claim(r)) /\ WF_vars(StartStep(r))
    /\ WF_vars(Expire)

-----------------------------------------------------------------------------
(* Properties *)

\* Types.
TypeOK ==
    /\ row \in [state : States \cup {"QUOTED"}, quote : 1..MaxQuotes,
                accepted : BOOLEAN, startClaimed : BOOLEAN,
                scanClaimed : BOOLEAN, vid : BOOLEAN,
                report : Reports \cup {NoReport}, ingested : BOOLEAN]
    /\ owner \in Starters \cup {NoOwner}
    /\ live \in BOOLEAN
    /\ \A r \in Requests :
          /\ call[r].pc \in {"idle", "readiness", "accept", "claim", "refresh",
                             "refreshed", "quoting", "commanding", "commanded"}
                            \cup InLease
          /\ call[r].quote \in 0..MaxQuotes
          /\ call[r].report \in Reports \cup {NoReport}
          /\ call[r].answer \in States \cup {"none"}
    /\ server \in States \cup {"NONE"}
    /\ spec \in 0..MaxQuotes
    /\ received \subseteq Reports
    /\ scans \in 0..MaxScans

\* _assert_heartbeat_lease: whatever leases run out and processes die, the
\* marketplace gets one report, and it is the one persisted.
OneReport == received \subseteq {row.report}

\* The local state is one the marketplace's run has been in.
StateWasServers == row.state = "QUOTED" \/ row.state \in passed

\* _claim_start_lease_or_wait: a start that waits for the lease comes back.
StartReturns ==
    \A r \in Starters : (call[r].pc = "claim") ~> (call[r].pc = "idle")
=============================================================================
