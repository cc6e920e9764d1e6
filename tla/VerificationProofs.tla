-------------------------- MODULE VerificationProofs --------------------------
(***************************************************************************)
(* For any number of requests, quotes, stalls and crashes: the types of    *)
(* the run's row and its requests, that the marketplace gets one report,   *)
(* and that the local state is one its run has been in.                    *)
(***************************************************************************)
EXTENDS VerificationRun, TLAPS

PCs == {"idle", "readiness", "accept", "claim", "refresh", "refreshed",
        "quoting", "commanding", "commanded"} \cup InLease

Calls == [pc : PCs, acks : BOOLEAN, quote : 0..MaxQuotes, recover : BOOLEAN,
          report : Reports \cup {NoReport}, answer : States \cup {"none"},
          after : {"none", "scan", "leave"} \cup Actions]

Rows == [state : States \cup {"QUOTED"}, quote : 1..MaxQuotes,
         accepted : BOOLEAN, startClaimed : BOOLEAN,
         scanClaimed : BOOLEAN, vid : BOOLEAN,
         report : Reports \cup {NoReport}, ingested : BOOLEAN]

RunTypes ==
    /\ row \in Rows
    /\ owner \in Starters \cup {NoOwner}
    /\ live \in BOOLEAN
    /\ call \in [Requests -> Calls]
    /\ server \in States \cup {"NONE"}
    /\ spec \in 0..MaxQuotes
    /\ received \subseteq Reports
    /\ passed \subseteq States
    /\ scans \in 0..MaxScans

\* On the way to a scan, with the lease, no report is there yet; a report on
\* its way is the one that was persisted.
Unscanned(c) ==
    \/ c.pc \in {"starting", "started", "scanning"}
    \/ c.pc \in {"sync", "synced"} /\ c.after = "scan"

ReportInv ==
    /\ OneReport
    /\ \A r \in Starters :
          /\ call[r].pc = "ingest" =>
                call[r].report = row.report /\ row.report # NoReport
          /\ owner = r /\ Unscanned(call[r]) => row.report = NoReport

\* What a request knows of the marketplace's run has been true.
AfterStart == {"started", "sync", "synced", "ingested", "refresh",
               "refreshed", "commanded"}

ServerInv ==
    /\ StateWasServers
    /\ spec = 0 <=> server = "NONE"
    /\ server = "NONE" => passed = {}
    /\ server # "NONE" => server \in passed
    /\ row.vid => server # "NONE"
    /\ \A r \in Requests :
          /\ call[r].pc \in AfterStart => server # "NONE"
          /\ call[r].pc \in {"synced", "refreshed", "commanded"} =>
                call[r].answer \in passed
          /\ call[r].pc = "starting" => call[r].quote # 0
          /\ call[r].pc = "commanding" => call[r].after \in Actions

VerificationInv == RunTypes /\ ReportInv /\ ServerInv

-----------------------------------------------------------------------------
LEMMA IdleCall == Idle \in Calls
  BY VerificationAssumption DEF Idle, Calls, PCs

\* Where a request goes on keeps its type, and the others are left alone.
LEMMA AtTypes ==
  ASSUME call \in [Requests -> Calls],
         NEW r \in Requests, NEW pc \in PCs, NEW l \in Calls,
         At(r, pc, l)
  PROVE  /\ call' \in [Requests -> Calls]
         /\ call'[r] = [l EXCEPT !.pc = pc]
         /\ call'[r].pc = pc
         /\ \A q \in Requests \ {r} : call'[q] = call[q]
  BY DEF At, Calls

LEMMA EndTypes ==
  ASSUME call \in [Requests -> Calls], NEW r \in Requests, End(r)
  PROVE  /\ call' \in [Requests -> Calls]
         /\ call'[r].pc = "idle"
         /\ \A q \in Requests \ {r} : call'[q] = call[q]
  BY IdleCall, AtTypes DEF End, PCs

LEMMA GoTypes ==
  ASSUME call \in [Requests -> Calls], NEW r \in Requests, NEW pc \in PCs,
         Go(r, pc)
  PROVE  /\ call' \in [Requests -> Calls]
         /\ call'[r].pc = pc
         /\ \A q \in Requests \ {r} : call'[q] = call[q]
<1>1. call[r] \in Calls
  OBVIOUS
<1> QED
  BY <1>1, AtTypes DEF Go

LEMMA LeaveTypes ==
  ASSUME RunTypes, NEW r \in Requests, Leave(r)
  PROVE  /\ owner' \in {owner, NoOwner} /\ owner' \in Starters \cup {NoOwner}
         /\ live' \in BOOLEAN
         /\ call' \in [Requests -> Calls]
         /\ call'[r].pc = "idle"
         /\ \A q \in Requests \ {r} : call'[q] = call[q]
<1>1. live' \in BOOLEAN
  BY Zenon DEF Leave
<1> QED
  BY <1>1, EndTypes DEF Leave, RunTypes

LEMMA RenewedTypes ==
  ASSUME Renewed
  PROVE  owner' = owner /\ live' \in BOOLEAN
<1>1. live' \in BOOLEAN
  BY Zenon DEF Renewed
<1>2. owner' = owner
  BY Zenon DEF Renewed
<1> QED
  BY <1>1, <1>2

-----------------------------------------------------------------------------
\* One request moves.
Moves(r) ==
    /\ call' \in [Requests -> Calls]
    /\ \A q \in Requests \ {r} : call'[q] = call[q]

LEMMA ReportKept ==
  ASSUME VerificationInv, NEW r \in Requests, Moves(r),
         row'.report = row.report, received' = received,
         \A q \in Starters \ {r} : owner' = q => owner = q,
         call'[r].pc = "ingest" => call'[r].report = row.report
                                   /\ row.report # NoReport,
         r \in Starters /\ owner' = r /\ Unscanned(call'[r]) =>
            row.report = NoReport
  PROVE  ReportInv'
<1>1. OneReport'
  BY DEF VerificationInv, ReportInv, OneReport
<1>2. ASSUME NEW q \in Starters
      PROVE  /\ call'[q].pc = "ingest" =>
                   call'[q].report = row'.report /\ row'.report # NoReport
             /\ owner' = q /\ Unscanned(call'[q]) => row'.report = NoReport
  <2>1. q \in Requests
    BY DEF Requests
  <2>2. CASE q = r
    BY <2>2
  <2>3. CASE q # r
    <3>1. call'[q] = call[q]
      BY <2>1, <2>3 DEF Moves
    <3> QED
      BY <2>1, <3>1 DEF VerificationInv, ReportInv
  <2> QED
    BY <2>2, <2>3
<1> QED
  BY <1>1, <1>2 DEF ReportInv, Unscanned

LEMMA ServerKept ==
  ASSUME VerificationInv, NEW r \in Requests, Moves(r),
         UNCHANGED <<server, spec, passed>>,
         row'.state = row.state \/ row'.state \in passed,
         row'.vid => server # "NONE",
         call'[r].pc \in AfterStart => server # "NONE",
         call'[r].pc \in {"synced", "refreshed", "commanded"} =>
            call'[r].answer \in passed,
         call'[r].pc = "starting" => call'[r].quote # 0,
         call'[r].pc = "commanding" => call'[r].after \in Actions
  PROVE  ServerInv'
<1>1. StateWasServers'
  BY DEF VerificationInv, ServerInv, StateWasServers
<1>2. ASSUME NEW q \in Requests
      PROVE  /\ call'[q].pc \in AfterStart => server # "NONE"
             /\ call'[q].pc \in {"synced", "refreshed", "commanded"} =>
                  call'[q].answer \in passed
             /\ call'[q].pc = "starting" => call'[q].quote # 0
             /\ call'[q].pc = "commanding" => call'[q].after \in Actions
  <2>1. CASE q = r
    BY <2>1
  <2>2. CASE q # r
    BY <2>2 DEF Moves, VerificationInv, ServerInv
  <2> QED
    BY <2>1, <2>2
<1> QED
  BY <1>1, <1>2 DEF VerificationInv, ServerInv

\* A request moves and neither the reports nor the marketplace do.
LEMMA LocalStep ==
  ASSUME VerificationInv, NEW r \in Requests, Moves(r),
         row' \in Rows, row'.report = row.report,
         row'.vid => server # "NONE",
         row'.state = row.state \/ row'.state \in passed,
         UNCHANGED market, scans' \in 0..MaxScans,
         owner' \in Starters \cup {NoOwner}, live' \in BOOLEAN,
         \A q \in Starters \ {r} : owner' = q => owner = q,
         call'[r].pc = "ingest" => call'[r].report = row.report
                                   /\ row.report # NoReport,
         r \in Starters /\ owner' = r /\ Unscanned(call'[r]) =>
            row.report = NoReport,
         call'[r].pc \in AfterStart => server # "NONE",
         call'[r].pc \in {"synced", "refreshed", "commanded"} =>
            call'[r].answer \in passed,
         call'[r].pc = "starting" => call'[r].quote # 0,
         call'[r].pc = "commanding" => call'[r].after \in Actions
  PROVE  VerificationInv'
<1>1. RunTypes'
  BY DEF VerificationInv, RunTypes, Moves, market
<1>2. ReportInv'
  BY ReportKept DEF market
<1>3. ServerInv'
  BY ServerKept DEF market
<1> QED
  BY <1>1, <1>2, <1>3 DEF VerificationInv

\* A request that is over, or not yet at the marketplace.
LEMMA PlainStep ==
  ASSUME VerificationInv, NEW r \in Requests, Moves(r),
         call'[r].pc \in {"idle", "readiness", "accept", "claim", "quoting",
                          "commanding"},
         call'[r].pc = "commanding" => call'[r].after \in Actions,
         row' \in Rows, row'.report = row.report, row'.vid = row.vid,
         row'.state = row.state \/ row'.state \in passed,
         UNCHANGED market, scans' \in 0..MaxScans,
         owner' \in {owner, NoOwner}, live' \in BOOLEAN
  PROVE  VerificationInv'
<1>1. /\ owner' \in Starters \cup {NoOwner}
      /\ \A q \in Starters \ {r} : owner' = q => owner = q
  BY VerificationAssumption DEF VerificationInv, RunTypes
<1>2. row'.vid => server # "NONE"
  BY DEF VerificationInv, ServerInv
<1>3. ~Unscanned(call'[r]) /\ call'[r].pc # "ingest"
  BY DEF Unscanned
<1> QED
  BY <1>1, <1>2, <1>3, LocalStep DEF AfterStart

\* The lease alone.
LEMMA LeaseStep ==
  ASSUME VerificationInv, UNCHANGED <<row, call, market, scans>>,
         owner' = owner, live' \in BOOLEAN
  PROVE  VerificationInv'
<1>1. RunTypes'
  BY DEF VerificationInv, RunTypes, market
<1>2. ReportInv'
  BY DEF VerificationInv, ReportInv, OneReport, Unscanned, market
<1>3. ServerInv'
  BY DEF VerificationInv, ServerInv, StateWasServers, market
<1> QED
  BY <1>1, <1>2, <1>3 DEF VerificationInv

LEMMA LeaveStep ==
  ASSUME VerificationInv, NEW r \in Requests, Leave(r),
         UNCHANGED <<row, market>>, scans' \in 0..MaxScans
  PROVE  VerificationInv'
<1>1. /\ Moves(r) /\ call'[r].pc = "idle" /\ live' \in BOOLEAN
      /\ owner' \in {owner, NoOwner}
  BY LeaveTypes DEF VerificationInv, Moves
<1> QED
  BY <1>1, PlainStep DEF VerificationInv, RunTypes

LEMMA VerificationInit == Init => VerificationInv
<1> SUFFICES ASSUME Init PROVE VerificationInv
  OBVIOUS
<1>1. row \in Rows
  BY VerificationAssumption DEF Init, Rows
<1>2. live \in BOOLEAN /\ call \in [Requests -> Calls]
  <2>1. live \in BOOLEAN
    BY Zenon DEF Init
  <2> QED
    BY <2>1, IdleCall DEF Init
<1>3. RunTypes
  BY <1>1, <1>2, VerificationAssumption DEF Init, RunTypes, MaxScans
<1>4. ReportInv
  <2>1. received = {} /\ \A r \in Starters : call[r].pc = "idle"
    BY DEF Init, Requests, Idle
  <2> QED
    BY <2>1 DEF ReportInv, OneReport, Unscanned
<1>5. ServerInv
  BY DEF Init, ServerInv, StateWasServers, Idle, AfterStart
<1> QED
  BY <1>3, <1>4, <1>5 DEF VerificationInv

\* A new request holds nothing but the acknowledgements it read.
LEMMA BeginStep ==
  ASSUME VerificationInv, NEW r \in Starters, Begin(r)
  PROVE  VerificationInv'
<1> r \in Requests
  BY DEF Requests
<1> DEFINE c == [Idle EXCEPT !.acks = row.accepted]
           pc == IF row.vid \/ row.startClaimed THEN "accept" ELSE "readiness"
<1>1. c \in Calls /\ pc \in PCs
  <2>1. row.accepted \in BOOLEAN
    BY DEF VerificationInv, RunTypes, Rows
  <2>2. c \in Calls
    BY <2>1, IdleCall DEF Calls
  <2> QED
    BY <2>2 DEF PCs
<1>2. call' = [call EXCEPT ![r] = [c EXCEPT !.pc = pc]]
  BY DEF Begin, Idle
<1>3. Moves(r) /\ call'[r].pc = pc
  BY <1>1, <1>2, AtTypes DEF At, Moves, VerificationInv, RunTypes
<1>4. /\ row' = row /\ owner' = owner /\ live' \in BOOLEAN
      /\ UNCHANGED market /\ scans' \in 0..MaxScans /\ row \in Rows
  BY DEF Begin, VerificationInv, RunTypes, lease, bounds
<1>5. pc \in {"readiness", "accept"}
  OBVIOUS
<1> HIDE DEF c, pc
<1> QED
  BY <1>3, <1>4, <1>5, PlainStep

\* Ends of a request that leave the row, or only its state or its
\* acknowledgements, changed.
LEMMA EndStep ==
  ASSUME VerificationInv, NEW r \in Requests, End(r),
         row' \in Rows, row'.report = row.report, row'.vid = row.vid,
         row'.state = row.state \/ row'.state \in passed,
         UNCHANGED market, scans' \in 0..MaxScans,
         owner' \in {owner, NoOwner}, live' \in BOOLEAN
  PROVE  VerificationInv'
<1>1. Moves(r) /\ call'[r].pc = "idle"
  BY EndTypes DEF Moves, VerificationInv, RunTypes
<1> QED
  BY <1>1, PlainStep

LEMMA NotReadyStep ==
  ASSUME VerificationInv, NEW r \in Requests, NotReady(r)
  PROVE  VerificationInv'
BY EndStep DEF NotReady, VerificationInv, RunTypes, lease, bounds

LEMMA AcceptStep ==
  ASSUME VerificationInv, NEW r \in Requests, Accept(r)
  PROVE  VerificationInv'
<1>1. Moves(r) /\ call'[r].pc = "claim"
  BY IdleCall, AtTypes DEF Accept, Moves, VerificationInv, RunTypes, PCs
<1>2. PICK b \in BOOLEAN : row' = [row EXCEPT !.accepted = b]
  <2>1. (row.accepted \/ ~call[r].acks) \in BOOLEAN
    OBVIOUS
  <2> QED
    BY <2>1 DEF Accept
<1>3. /\ row' \in Rows
      /\ row'.report = row.report
      /\ row'.vid = row.vid
      /\ row'.state = row.state
  BY <1>2 DEF VerificationInv, RunTypes, Rows
<1>4. /\ owner' = owner /\ live' \in BOOLEAN
      /\ UNCHANGED market /\ scans' \in 0..MaxScans
  BY DEF Accept, VerificationInv, RunTypes, lease, bounds
<1> QED
  BY <1>1, <1>3, <1>4, PlainStep

LEMMA FinishedStep ==
  ASSUME VerificationInv, NEW r \in Requests, Finished(r)
  PROVE  VerificationInv'
<1>1. CASE End(r)
  BY <1>1, EndStep DEF Finished, VerificationInv, RunTypes, lease, bounds
<1>2. CASE row.vid /\ call' = [call EXCEPT ![r].pc = "refresh"]
  <2>1. Moves(r) /\ call'[r].pc = "refresh"
    BY <1>2, GoTypes DEF Go, At, Moves, VerificationInv, RunTypes, PCs
  <2>2. server # "NONE"
    BY <1>2 DEF VerificationInv, ServerInv
  <2> QED
    BY <2>1, <2>2, LocalStep DEF Finished, VerificationInv, RunTypes, lease,
       bounds, Unscanned
<1> QED
  BY <1>1, <1>2 DEF Finished

\* With the lease: on to what the row says now.
LEMMA ClaimStep ==
  ASSUME VerificationInv, NEW r \in Starters, Claim(r)
  PROVE  VerificationInv'
<1> r \in Requests
  BY DEF Requests
<1>1. /\ UNCHANGED market /\ scans' = scans
      /\ call \in [Requests -> Calls] /\ row \in Rows
      /\ owner \in Starters \cup {NoOwner}
      /\ ~Live /\ call[r].pc = "claim" /\ scans \in 0..MaxScans
  BY DEF Claim, bounds, VerificationInv, RunTypes
<1>2. CASE row.report # NoReport
  <2>1. /\ call' = [call EXCEPT ![r].pc = "ingest", ![r].report = row.report]
        /\ owner' = r /\ row' = row
    BY <1>2 DEF Claim
  <2>2. live' \in BOOLEAN
    BY <1>2, Zenon DEF Claim
  <2>3. row.report \in Reports \cup {NoReport}
    BY <1>1 DEF Rows
  <2>4. [call[r] EXCEPT !.pc = "ingest", !.report = row.report] \in Calls
    BY <1>1, <2>3 DEF Calls, PCs, InLease
  <2>5. Moves(r) /\ call'[r].pc = "ingest" /\ call'[r].report = row.report
    BY <1>1, <2>1, <2>4 DEF Moves, Calls
  <2>6. row.vid => server # "NONE"
    BY DEF VerificationInv, ServerInv
  <2>7. ~Unscanned(call'[r])
    BY <2>5 DEF Unscanned
  <2> QED
    BY <1>1, <1>2, <2>1, <2>2, <2>5, <2>6, <2>7, LocalStep DEF AfterStart
<1>3. CASE row.report = NoReport /\ ~row.accepted
  <2>1. End(r) /\ owner' = NoOwner /\ row' = row
    BY <1>3 DEF Claim
  <2>2. live' \in BOOLEAN
    BY <1>3, Zenon DEF Claim
  <2> QED
    BY <1>1, <2>1, <2>2, EndStep
<1>4. CASE row.report = NoReport /\ row.accepted
  <2>1. /\ call' = [call EXCEPT ![r].pc = "starting", ![r].quote = row.quote,
                                ![r].recover = row.scanClaimed]
        /\ owner' = r /\ row' = [row EXCEPT !.startClaimed = TRUE]
    BY <1>4 DEF Claim
  <2>2. live' \in BOOLEAN
    BY <1>4, Zenon DEF Claim
  <2>3. row.quote \in 1..MaxQuotes /\ row.scanClaimed \in BOOLEAN
    BY <1>1 DEF Rows
  <2>4. [call[r] EXCEPT !.pc = "starting", !.quote = row.quote,
                        !.recover = row.scanClaimed] \in Calls
    <3>1. row.quote \in 0..MaxQuotes
      BY <2>3, VerificationAssumption
    <3>2. "starting" \in PCs
      BY DEF PCs, InLease
    <3>3. call[r] \in Calls
      BY <1>1
    <3> QED
      BY <2>3, <3>1, <3>2, <3>3 DEF Calls
  <2>5. Moves(r) /\ call'[r].pc = "starting" /\ call'[r].quote = row.quote
    BY <1>1, <2>1, <2>4 DEF Moves, Calls
  <2>6. row.vid => server # "NONE"
    BY DEF VerificationInv, ServerInv
  <2>7. /\ row' \in Rows
        /\ row'.report = row.report
        /\ row'.vid = row.vid
        /\ row'.state = row.state
    BY <1>1, <2>1 DEF Rows
  <2>8. call'[r].quote # 0
    BY <2>5, <2>3, VerificationAssumption
  <2> QED
    BY <1>1, <1>4, <2>1, <2>2, <2>5, <2>6, <2>7, <2>8, LocalStep DEF AfterStart
<1> QED
  BY <1>2, <1>3, <1>4

\* The answer to the start, if it is still one's own.
LEMMA StartedStep ==
  ASSUME VerificationInv, NEW r \in Starters, Started(r)
  PROVE  VerificationInv'
<1> r \in Requests
  BY DEF Requests
<1>1. /\ UNCHANGED market /\ scans' = scans
      /\ call \in [Requests -> Calls] /\ row \in Rows
      /\ call[r].pc = "started" /\ scans \in 0..MaxScans
      /\ owner \in Starters \cup {NoOwner}
  BY DEF Started, bounds, VerificationInv, RunTypes
<1>2. CASE Renews(r)
  <2>1. /\ row' = [row EXCEPT !.vid = TRUE] /\ Renewed
        /\ At(r, "sync", [Idle EXCEPT !.after = "scan",
                                      !.recover = call[r].recover])
    BY <1>2 DEF Started
  <2>2. call[r].recover \in BOOLEAN
    BY <1>1 DEF Calls
  <2>3. [Idle EXCEPT !.after = "scan", !.recover = call[r].recover] \in Calls
    BY <2>2, IdleCall DEF Calls
  <2>4. Moves(r) /\ call'[r].pc = "sync"
    BY <1>1, <2>1, <2>3, AtTypes DEF Moves, PCs, InLease
  <2>5. /\ row' \in Rows
        /\ row'.report = row.report
        /\ row'.state = row.state
    BY <1>1, <2>1 DEF Rows
  <2>6. server # "NONE"
    BY <1>1 DEF VerificationInv, ServerInv, AfterStart
  <2>7. owner = r /\ owner' = owner /\ live' \in BOOLEAN
    BY <1>2, <2>1, RenewedTypes DEF Renews
  <2>8. row.report = NoReport
    BY <1>1, <2>7 DEF VerificationInv, ReportInv, Unscanned
  <2> QED
    BY <1>1, <2>4, <2>5, <2>6, <2>7, <2>8, LocalStep
<1>3. CASE ~Renews(r)
  <2>1. Leave(r) /\ row' = row
    BY <1>3 DEF Started
  <2> QED
    BY <1>1, <2>1, LeaveStep
<1> QED
  BY <1>2, <1>3

LEMMA ServerAnswersStep ==
  ASSUME VerificationInv, NEW r \in Requests, ServerAnswers(r)
  PROVE  VerificationInv'
<1>1. /\ row' = row /\ owner' = owner /\ live' \in BOOLEAN
      /\ UNCHANGED market /\ scans' \in 0..MaxScans
      /\ call \in [Requests -> Calls] /\ row \in Rows
      /\ call[r].pc \in {"sync", "refresh"}
      /\ owner \in Starters \cup {NoOwner}
  BY DEF ServerAnswers, bounds, lease, VerificationInv, RunTypes
<1>2. PICK pc \in {"synced", "refreshed"} :
         /\ pc = "synced" <=> call[r].pc = "sync"
         /\ call' = [call EXCEPT ![r].answer = server, ![r].pc = pc]
  BY DEF ServerAnswers
<1>3. server # "NONE" /\ server \in passed /\ (row.vid => server # "NONE")
  BY <1>1 DEF VerificationInv, ServerInv, AfterStart
<1>4. server \in States
  BY <1>3 DEF VerificationInv, RunTypes
<1>5. [call[r] EXCEPT !.answer = server, !.pc = pc] \in Calls
  BY <1>1, <1>4 DEF Calls, PCs, InLease
<1>6. Moves(r)
  BY <1>1, <1>2, <1>5 DEF Moves
<1>7. /\ call'[r].pc = pc /\ call'[r].answer = server
      /\ call'[r].after = call[r].after
  BY <1>1, <1>2 DEF Calls
<1>8. r \in Starters /\ owner' = r /\ Unscanned(call'[r]) =>
         row.report = NoReport
  <2> SUFFICES ASSUME r \in Starters, owner = r, Unscanned(call'[r])
               PROVE  row.report = NoReport
    BY <1>1
  <2>1. Unscanned(call[r])
    BY <1>2, <1>7 DEF Unscanned
  <2> QED
    BY <2>1 DEF VerificationInv, ReportInv
<1> QED
  BY <1>1, <1>2, <1>3, <1>6, <1>7, <1>8, LocalStep

\* The answer to a refresh or a command becomes the row's state.
LEMMA AnswerStep ==
  ASSUME VerificationInv, NEW r \in Requests, Refreshed(r) \/ Commanded(r)
  PROVE  VerificationInv'
<1>1. /\ UNCHANGED market /\ scans' \in 0..MaxScans /\ row \in Rows
      /\ call[r].pc \in {"refreshed", "commanded"} /\ End(r)
      /\ row' = [row EXCEPT !.state = call[r].answer]
      /\ owner' \in {owner, NoOwner} /\ live' \in BOOLEAN
  BY DEF Refreshed, Commanded, bounds, lease, VerificationInv, RunTypes
<1>2. call[r].answer \in passed
  BY <1>1 DEF VerificationInv, ServerInv
<1>3. passed' = passed
  BY <1>1 DEF market
<1>4. call[r].answer \in States
  BY <1>2 DEF VerificationInv, RunTypes
<1>5. /\ row' \in Rows
      /\ row'.report = row.report
      /\ row'.vid = row.vid
      /\ row'.state = call[r].answer
  BY <1>1, <1>4 DEF Rows
<1> QED
  BY <1>1, <1>2, <1>3, <1>5, EndStep

\* The status under the lease; then the scan, or the lease is given back.
LEMMA SyncedStep ==
  ASSUME VerificationInv, NEW r \in Starters, Synced(r)
  PROVE  VerificationInv'
<1> r \in Requests
  BY DEF Requests
<1> DEFINE scan == /\ call[r].after = "scan"
                   /\ call[r].answer = "AUTHORIZED"
                   /\ call[r].recover \/ ~row.scanClaimed
<1>1. /\ UNCHANGED market /\ scans' = scans /\ scans \in 0..MaxScans
      /\ row \in Rows /\ call[r].pc = "synced"
      /\ call \in [Requests -> Calls] /\ owner \in Starters \cup {NoOwner}
  BY DEF Synced, bounds, VerificationInv, RunTypes
<1>2. CASE ~Renews(r)
  <2>1. Leave(r) /\ row' = row
    BY <1>2 DEF Synced
  <2> QED
    BY <1>1, <2>1, LeaveStep
<1>3. CASE Renews(r)
  <2>1. row' = [row EXCEPT !.state = call[r].answer,
                           !.scanClaimed = @ \/ scan]
    BY <1>3 DEF Synced
  <2>2. call[r].answer \in passed /\ (row.vid => server # "NONE")
    BY <1>1 DEF VerificationInv, ServerInv
  <2>3. passed' = passed /\ call[r].answer \in States
    BY <1>1, <2>2 DEF market, VerificationInv, RunTypes
  <2>4. /\ row' \in Rows
        /\ row'.report = row.report
        /\ row'.vid = row.vid
        /\ row'.state = call[r].answer
    <3>1. (row.scanClaimed \/ scan) \in BOOLEAN
      OBVIOUS
    <3> HIDE DEF scan
    <3> QED
      BY <1>1, <2>1, <2>3, <3>1 DEF Rows
  <2>5. CASE scan
    <3>1. At(r, "scanning", Idle) /\ Renewed
      BY <1>3, <2>5 DEF Synced
    <3>2. Moves(r) /\ call'[r].pc = "scanning"
      BY <1>1, <3>1, IdleCall, AtTypes DEF Moves, PCs, InLease
    <3>3. owner = r /\ owner' = owner /\ live' \in BOOLEAN
      BY <1>3, <3>1, RenewedTypes DEF Renews
    <3>4. row.report = NoReport
      BY <1>1, <2>5, <3>3 DEF VerificationInv, ReportInv, Unscanned
    <3> QED
      BY <1>1, <2>2, <2>3, <2>4, <3>2, <3>3, <3>4, LocalStep DEF AfterStart
  <2>6. CASE ~scan
    <3>1. Leave(r)
      BY <1>3, <2>6 DEF Synced
    <3>2. owner' \in {owner, NoOwner} /\ live' \in BOOLEAN /\ End(r)
      BY <3>1, LeaveTypes DEF VerificationInv, Leave
    <3> QED
      BY <1>1, <2>2, <2>3, <2>4, <3>2, EndStep
  <2> QED
    BY <2>5, <2>6
<1> QED
  BY <1>2, <1>3

\* The report is persisted under the lease, which nobody took meanwhile.
LEMMA ScannedStep ==
  ASSUME VerificationInv, NEW r \in Starters, Scanned(r)
  PROVE  VerificationInv'
<1> r \in Requests
  BY DEF Requests
<1>1. /\ UNCHANGED market /\ scans' = scans + 1 /\ scans < MaxScans
      /\ scans \in 0..MaxScans /\ row \in Rows /\ call[r].pc = "scanning"
      /\ call \in [Requests -> Calls] /\ owner \in Starters \cup {NoOwner}
  BY DEF Scanned, VerificationInv, RunTypes
<1>2. MaxScans \in Nat
  BY VerificationAssumption DEF MaxScans
<1>3. scans' \in 0..MaxScans /\ scans' \in Reports
  BY <1>1, <1>2 DEF Reports
<1>4. CASE ~Renews(r)
  <2>1. Leave(r) /\ row' = row
    BY <1>4 DEF Scanned
  <2> QED
    BY <1>1, <1>3, <2>1, LeaveStep
<1>5. CASE Renews(r)
  <2>1. /\ row' = [row EXCEPT !.report = scans'] /\ Renewed
        /\ At(r, "ingest", [Idle EXCEPT !.report = scans'])
    BY <1>5 DEF Scanned
  <2>2. PICK n \in Reports : n = scans'
    BY <1>3
  <2>3. [Idle EXCEPT !.report = n] \in Calls
    BY <2>2, IdleCall DEF Calls
  <2>4. Moves(r) /\ call'[r].pc = "ingest" /\ call'[r].report = n
    <3>1. "ingest" \in PCs
      BY DEF PCs, InLease
    <3>2. At(r, "ingest", [Idle EXCEPT !.report = n])
      BY <2>1, <2>2
    <3>3. /\ Moves(r)
          /\ call'[r] = [[Idle EXCEPT !.report = n] EXCEPT !.pc = "ingest"]
      BY <1>1, <2>3, <3>1, <3>2, AtTypes DEF Moves
    <3> QED
      BY <3>3 DEF Idle
  <2>5. /\ row' \in Rows
        /\ row'.report = n
        /\ row'.vid = row.vid
        /\ row'.state = row.state
    BY <1>1, <2>1, <2>2 DEF Rows
  <2>6. owner = r /\ owner' = owner /\ live' \in BOOLEAN
    BY <1>5, <2>1, RenewedTypes DEF Renews
  <2>7. row.report = NoReport /\ received = {}
    <3>1. row.report = NoReport
      BY <1>1, <2>6 DEF VerificationInv, ReportInv, Unscanned
    <3> QED
      BY <3>1 DEF VerificationInv, RunTypes, ReportInv, OneReport, Reports,
                  NoReport
  <2>8. n # NoReport
    BY <1>2 DEF Reports, NoReport
  <2>9. RunTypes'
    BY <1>1, <1>3, <2>4, <2>5, <2>6
       DEF VerificationInv, RunTypes, Moves, market
  <2>10. ReportInv'
    <3>1. OneReport'
      BY <1>1, <2>7 DEF OneReport, market
    <3>2. ASSUME NEW q \in Starters
          PROVE  /\ call'[q].pc = "ingest" =>
                       call'[q].report = row'.report /\ row'.report # NoReport
                 /\ owner' = q /\ Unscanned(call'[q]) => row'.report = NoReport
      <4>1. CASE q = r
        BY <2>4, <2>5, <2>8, <4>1 DEF Unscanned
      <4>2. CASE q # r
        <5>1. call'[q] = call[q] /\ owner' # q
          BY <2>4, <2>6, <4>2 DEF Moves, Requests
        <5> QED
          BY <2>7, <5>1 DEF VerificationInv, ReportInv
      <4> QED
        BY <4>1, <4>2
    <3> QED
      BY <3>1, <3>2 DEF ReportInv, Unscanned
  <2>11. ServerInv'
    <3>1. row.vid => server # "NONE"
      BY DEF VerificationInv, ServerInv
    <3> QED
      BY <1>1, <2>4, <2>5, <3>1, ServerKept DEF market, AfterStart
  <2> QED
    BY <2>9, <2>10, <2>11 DEF VerificationInv
<1> QED
  BY <1>4, <1>5

LEMMA IngestedStep ==
  ASSUME VerificationInv, NEW r \in Starters, Ingested(r)
  PROVE  VerificationInv'
<1> r \in Requests
  BY DEF Requests
<1>1. /\ UNCHANGED market /\ scans' = scans /\ scans \in 0..MaxScans
      /\ row \in Rows /\ call[r].pc = "ingested"
      /\ call \in [Requests -> Calls] /\ owner \in Starters \cup {NoOwner}
  BY DEF Ingested, bounds, VerificationInv, RunTypes
<1>2. CASE ~Renews(r)
  <2>1. Leave(r) /\ row' = row
    BY <1>2 DEF Ingested
  <2> QED
    BY <1>1, <2>1, LeaveStep
<1>3. CASE Renews(r)
  <2>1. /\ row' = [row EXCEPT !.ingested = TRUE] /\ Renewed
        /\ At(r, "sync", [Idle EXCEPT !.after = "leave"])
    BY <1>3 DEF Ingested
  <2>2. [Idle EXCEPT !.after = "leave"] \in Calls
    BY IdleCall DEF Calls
  <2>3. Moves(r) /\ call'[r].pc = "sync" /\ call'[r].after = "leave"
    <3>1. "sync" \in PCs
      BY DEF PCs, InLease
    <3>2. /\ Moves(r)
          /\ call'[r] = [[Idle EXCEPT !.after = "leave"] EXCEPT !.pc = "sync"]
      BY <1>1, <2>1, <2>2, <3>1, AtTypes DEF Moves
    <3> QED
      BY <3>2 DEF Idle
  <2>4. /\ row' \in Rows
        /\ row'.report = row.report
        /\ row'.vid = row.vid
        /\ row'.state = row.state
    BY <1>1, <2>1 DEF Rows
  <2>5. owner' = owner /\ live' \in BOOLEAN
    BY <2>1, RenewedTypes
  <2>6. server # "NONE"
    BY <1>1 DEF VerificationInv, ServerInv, AfterStart
  <2>7. ~Unscanned(call'[r])
    BY <2>3 DEF Unscanned
  <2> QED
    BY <1>1, <2>3, <2>4, <2>5, <2>6, <2>7, LocalStep
<1> QED
  BY <1>2, <1>3

-----------------------------------------------------------------------------
\* The marketplace's run goes on, and requests hear of it at the most.
LEMMA ServerGrows ==
  ASSUME VerificationInv, row' = row, server' \in States, spec' # 0,
         passed' = passed \cup {server'},
         \A q \in Requests :
            \/ call'[q] = call[q]
            \/ call'[q].pc \in {"started", "ingested"}
            \/ call'[q].pc = "commanded" /\ call'[q].answer = server'
  PROVE  ServerInv'
<1>1. server' # "NONE"
  BY DEF States
<1>2. StateWasServers'
  BY DEF VerificationInv, ServerInv, StateWasServers
<1>3. ASSUME NEW q \in Requests
      PROVE  /\ call'[q].pc \in {"synced", "refreshed", "commanded"} =>
                   call'[q].answer \in passed'
             /\ call'[q].pc = "starting" => call'[q].quote # 0
             /\ call'[q].pc = "commanding" => call'[q].after \in Actions
  BY DEF VerificationInv, ServerInv
<1> QED
  BY <1>1, <1>2, <1>3 DEF ServerInv

LEMMA ServerStartsStep ==
  ASSUME VerificationInv, NEW r \in Starters, ServerStarts(r)
  PROVE  VerificationInv'
<1> r \in Requests
  BY DEF Requests
<1>1. /\ row' = row /\ row \in Rows /\ owner' = owner /\ live' \in BOOLEAN
      /\ owner \in Starters \cup {NoOwner} /\ scans' \in 0..MaxScans
      /\ call \in [Requests -> Calls] /\ call[r].pc = "starting"
      /\ received' = received
      /\ At(r, "started", [Idle EXCEPT !.recover = call[r].recover])
  BY DEF ServerStarts, market, lease, bounds, VerificationInv, RunTypes
<1>2. call[r].recover \in BOOLEAN /\ call[r].quote \in 0..MaxQuotes
  BY <1>1 DEF Calls
<1>3. [Idle EXCEPT !.recover = call[r].recover] \in Calls
  BY <1>2, IdleCall DEF Calls
<1>4. Moves(r) /\ call'[r].pc = "started"
  BY <1>1, <1>3, AtTypes DEF Moves, PCs, InLease
<1>5. r \in Starters /\ owner' = r /\ Unscanned(call'[r]) =>
         row.report = NoReport
  BY <1>1 DEF VerificationInv, ReportInv, Unscanned
<1>6. CASE spec # 0
  <2>1. UNCHANGED market
    BY <1>6 DEF ServerStarts
  <2>2. server # "NONE"
    BY <1>6 DEF VerificationInv, ServerInv
  <2> QED
    BY <1>1, <1>4, <1>5, <2>1, <2>2, LocalStep
<1>7. CASE spec = 0
  <2>1. /\ spec' = call[r].quote /\ server' \in {"AUTHORIZING", "AUTHORIZED"}
        /\ passed' = {server'}
    BY <1>7 DEF ServerStarts
  <2>2. spec' # 0 /\ spec' \in 0..MaxQuotes
    BY <1>1, <1>2, <2>1 DEF VerificationInv, ServerInv
  <2>3. passed = {} /\ server' \in States
    BY <1>7, <2>1 DEF VerificationInv, ServerInv, States
  <2>4. RunTypes'
    BY <1>1, <1>4, <2>1, <2>2, <2>3 DEF VerificationInv, RunTypes, Moves
  <2>5. ReportInv'
    BY <1>1, <1>4, <1>5, ReportKept
  <2>6. ServerInv'
    BY <1>1, <1>4, <2>1, <2>2, <2>3, ServerGrows DEF Moves
  <2> QED
    BY <2>4, <2>5, <2>6 DEF VerificationInv
<1> QED
  BY <1>6, <1>7

\* What arrives is the report on its way, which was persisted.
LEMMA ServerIngestsStep ==
  ASSUME VerificationInv, NEW r \in Starters, ServerIngests(r)
  PROVE  VerificationInv'
<1> r \in Requests
  BY DEF Requests
<1>1. /\ row' = row /\ row \in Rows /\ owner' = owner /\ live' \in BOOLEAN
      /\ owner \in Starters \cup {NoOwner} /\ scans' \in 0..MaxScans
      /\ call \in [Requests -> Calls] /\ call[r].pc = "ingest"
      /\ spec' = spec /\ spec \in 0..MaxQuotes
      /\ At(r, "ingested", Idle)
  BY DEF ServerIngests, lease, bounds, VerificationInv, RunTypes
<1>2. Moves(r) /\ call'[r].pc = "ingested"
  BY <1>1, IdleCall, AtTypes DEF Moves, PCs, InLease
<1>3. /\ server' \in {"CAPTURED", "ENDED"} /\ passed' = passed \cup {server'}
      /\ received' = received \cup {call[r].report}
      /\ server \in {"AUTHORIZED", "CAPTURED"}
  BY DEF ServerIngests
<1>4. call[r].report = row.report /\ row.report # NoReport
  BY <1>1 DEF VerificationInv, ReportInv
<1>5. row.report \in Reports
  BY <1>1, <1>4 DEF Rows
<1>6. server' \in States /\ spec' # 0
  BY <1>1, <1>3 DEF States, VerificationInv, ServerInv
<1>7. RunTypes'
  <2>1. received' \subseteq Reports
    BY <1>3, <1>4, <1>5 DEF VerificationInv, RunTypes
  <2>2. passed' \subseteq States
    BY <1>3, <1>6 DEF VerificationInv, RunTypes
  <2> QED
    BY <1>1, <1>2, <1>6, <2>1, <2>2 DEF RunTypes, Moves
<1>8. ReportInv'
  <2>1. OneReport'
    BY <1>1, <1>3, <1>4 DEF OneReport, VerificationInv, ReportInv
  <2>2. ASSUME NEW q \in Starters
        PROVE  /\ call'[q].pc = "ingest" =>
                     call'[q].report = row'.report /\ row'.report # NoReport
               /\ owner' = q /\ Unscanned(call'[q]) => row'.report = NoReport
    <3>1. CASE q = r
      BY <1>2, <3>1 DEF Unscanned
    <3>2. CASE q # r
      <4>1. call'[q] = call[q]
        BY <1>2, <3>2 DEF Moves, Requests
      <4> QED
        BY <1>1, <4>1 DEF VerificationInv, ReportInv
    <3> QED
      BY <3>1, <3>2
  <2> QED
    BY <2>1, <2>2 DEF ReportInv, Unscanned
<1>9. ServerInv'
  BY <1>1, <1>2, <1>3, <1>6, ServerGrows DEF Moves
<1> QED
  BY <1>7, <1>8, <1>9 DEF VerificationInv

LEMMA CommandTypes ==
  ASSUME NEW a \in Actions, NEW s \in States \cup {"NONE"}, Allows(a, s)
  PROVE  s # "NONE" /\ Becomes(a) \in States
  BY DEF Allows, Becomes, Actions, States

LEMMA ServerCommandsStep ==
  ASSUME VerificationInv, NEW r \in Requests, ServerCommands(r)
  PROVE  VerificationInv'
<1>1. /\ row' = row /\ row \in Rows /\ owner' = owner /\ live' \in BOOLEAN
      /\ owner \in Starters \cup {NoOwner} /\ scans' \in 0..MaxScans
      /\ call \in [Requests -> Calls] /\ call[r].pc = "commanding"
      /\ spec' = spec /\ spec \in 0..MaxQuotes /\ received' = received
      /\ At(r, "commanded", [Idle EXCEPT !.answer = server'])
      /\ passed' = passed \cup {server'}
  BY DEF ServerCommands, lease, bounds, VerificationInv, RunTypes
<1>2. server' = Becomes(call[r].after) /\ Allows(call[r].after, server)
  BY DEF ServerCommands
<1>3. server # "NONE" /\ server' \in States
  <2>1. call[r].after \in Actions
    BY <1>1 DEF VerificationInv, ServerInv
  <2>2. server \in States \cup {"NONE"}
    BY DEF VerificationInv, RunTypes
  <2> QED
    BY <1>2, <2>1, <2>2, CommandTypes
<1>4. PICK s \in States : s = server'
  BY <1>3
<1>5. [Idle EXCEPT !.answer = s] \in Calls
  BY IdleCall DEF Calls
<1>6. Moves(r) /\ call'[r].pc = "commanded" /\ call'[r].answer = server'
  <2>1. "commanded" \in PCs
    BY DEF PCs
  <2>2. /\ Moves(r)
        /\ call'[r] = [[Idle EXCEPT !.answer = s] EXCEPT !.pc = "commanded"]
    BY <1>1, <1>4, <1>5, <2>1, AtTypes DEF Moves
  <2> QED
    BY <1>4, <2>2 DEF Idle
<1>7. RunTypes'
  <2>1. passed' \subseteq States
    BY <1>1, <1>3 DEF VerificationInv, RunTypes
  <2> QED
    BY <1>1, <1>3, <1>6, <2>1 DEF VerificationInv, RunTypes, Moves
<1>8. ReportInv'
  BY <1>1, <1>6, ReportKept DEF Unscanned
<1>9. ServerInv'
  <2>1. spec' # 0
    BY <1>1, <1>3 DEF VerificationInv, ServerInv
  <2> QED
    BY <1>1, <1>3, <1>6, <2>1, ServerGrows DEF Moves
<1> QED
  BY <1>7, <1>8, <1>9 DEF VerificationInv

\* The payment alone.
LEMMA AuthorizeStep ==
  ASSUME VerificationInv, Authorize
  PROVE  VerificationInv'
<1>1. /\ UNCHANGED <<row, owner, call, spec, received, scans>>
      /\ live' \in BOOLEAN /\ server' \in States /\ server # "NONE"
      /\ passed' = passed \cup {server'}
  BY DEF Authorize, lease, bounds, VerificationInv, RunTypes, States
<1>2. RunTypes'
  BY <1>1 DEF VerificationInv, RunTypes
<1>3. ReportInv'
  BY <1>1 DEF VerificationInv, ReportInv, OneReport, Unscanned
<1>4. ServerInv'
  <2>1. spec' # 0
    BY <1>1 DEF VerificationInv, ServerInv
  <2> QED
    BY <1>1, <2>1, ServerGrows
<1> QED
  BY <1>2, <1>3, <1>4 DEF VerificationInv

LEMMA CallFailsStep ==
  ASSUME VerificationInv, NEW r \in Requests, CallFails(r)
  PROVE  VerificationInv'
<1>1. /\ row' = row /\ row \in Rows /\ UNCHANGED market
      /\ scans' \in 0..MaxScans
  BY DEF CallFails, bounds, VerificationInv, RunTypes
<1>2. CASE Leave(r)
  BY <1>1, <1>2, LeaveStep
<1>3. CASE End(r) /\ UNCHANGED lease
  <2>1. owner' \in {owner, NoOwner} /\ live' \in BOOLEAN
    BY <1>3 DEF lease, VerificationInv, RunTypes
  <2> QED
    BY <1>1, <1>3, <2>1, EndStep
<1> QED
  BY <1>2, <1>3 DEF CallFails

LEMMA AskQuoteStep ==
  ASSUME VerificationInv, NEW r \in Requests, AskQuote(r)
  PROVE  VerificationInv'
<1>1. /\ row' = row /\ row \in Rows /\ UNCHANGED market /\ owner' = owner
      /\ live' \in BOOLEAN /\ scans' \in 0..MaxScans
  BY DEF AskQuote, lease, bounds, VerificationInv, RunTypes
<1>2. Moves(r) /\ call'[r].pc = "quoting"
  BY GoTypes DEF AskQuote, Moves, VerificationInv, RunTypes, PCs
<1> QED
  BY <1>1, <1>2, PlainStep

LEMMA QuotedStep ==
  ASSUME VerificationInv, NEW r \in Requests, Quoted(r)
  PROVE  VerificationInv'
<1>1. /\ row \in Rows /\ UNCHANGED market /\ owner' \in {owner, NoOwner}
      /\ live' \in BOOLEAN /\ scans' \in 0..MaxScans /\ End(r)
      /\ row' = [row EXCEPT !.quote = @ + 1, !.accepted = FALSE]
      /\ row.quote < MaxQuotes
  BY DEF Quoted, lease, bounds, VerificationInv, RunTypes
<1>2. row.quote + 1 \in 1..MaxQuotes
  BY <1>1, VerificationAssumption DEF Rows
<1>3. /\ row' \in Rows
      /\ row'.report = row.report
      /\ row'.vid = row.vid
      /\ row'.state = row.state
  BY <1>1, <1>2 DEF Rows
<1> QED
  BY <1>1, <1>3, EndStep

LEMMA RefreshStep ==
  ASSUME VerificationInv, NEW r \in Requests, Refresh(r)
  PROVE  VerificationInv'
<1>1. /\ row' = row /\ row \in Rows /\ UNCHANGED market /\ owner' = owner
      /\ live' \in BOOLEAN /\ scans' \in 0..MaxScans
      /\ owner \in Starters \cup {NoOwner} /\ row.vid
  BY DEF Refresh, lease, bounds, VerificationInv, RunTypes
<1>2. Moves(r) /\ call'[r].pc = "refresh"
  BY GoTypes DEF Refresh, Moves, VerificationInv, RunTypes, PCs
<1>3. server # "NONE"
  BY <1>1 DEF VerificationInv, ServerInv
<1> QED
  BY <1>1, <1>2, <1>3, LocalStep DEF Unscanned

LEMMA CommandStep ==
  ASSUME VerificationInv, NEW r \in Requests, NEW a \in Actions, Command(r, a)
  PROVE  VerificationInv'
<1>1. /\ row' = row /\ row \in Rows /\ UNCHANGED market
      /\ owner' \in {owner, NoOwner} /\ live' \in BOOLEAN
      /\ scans' \in 0..MaxScans /\ call \in [Requests -> Calls]
      /\ call' = [call EXCEPT ![r].pc = "commanding", ![r].after = a]
  BY DEF Command, lease, bounds, VerificationInv, RunTypes
<1>2. [call[r] EXCEPT !.pc = "commanding", !.after = a] \in Calls
  <2>1. call[r] \in Calls /\ "commanding" \in PCs
    BY <1>1 DEF PCs
  <2> QED
    BY <2>1 DEF Calls
<1>3. Moves(r) /\ call'[r].pc = "commanding" /\ call'[r].after = a
  BY <1>1, <1>2 DEF Moves, Calls
<1> QED
  BY <1>1, <1>3, PlainStep

\* The row, the lease in it and the marketplace survive a crash.
LEMMA CrashStep ==
  ASSUME VerificationInv, CrashRestart
  PROVE  VerificationInv'
<1>1. /\ UNCHANGED <<row, owner, market, scans>> /\ live' \in BOOLEAN
      /\ call' = [r \in Requests |-> Idle]
  BY DEF CrashRestart, lease, VerificationInv, RunTypes
<1>2. call' \in [Requests -> Calls] /\ \A r \in Requests : call'[r].pc = "idle"
  BY <1>1, IdleCall DEF Idle
<1>3. RunTypes'
  BY <1>1, <1>2 DEF VerificationInv, RunTypes, market
<1>4. ReportInv'
  BY <1>1, <1>2
     DEF VerificationInv, ReportInv, OneReport, Unscanned, Requests, market
<1>5. ServerInv'
  BY <1>1, <1>2
     DEF VerificationInv, ServerInv, StateWasServers, AfterStart, market
<1> QED
  BY <1>3, <1>4, <1>5 DEF VerificationInv

LEMMA BeatExpireStep ==
  ASSUME VerificationInv, (\E r \in Starters : Beat(r)) \/ Expire
  PROVE  VerificationInv'
<1>1. CASE \E r \in Starters : Beat(r)
  <2>1. Renewed /\ UNCHANGED <<row, call, market, scans>>
    BY <1>1 DEF Beat, bounds
  <2> QED
    BY <2>1, RenewedTypes, LeaseStep
<1>2. CASE Expire
  <2>1. UNCHANGED <<row, owner, call, market, scans>>
    BY <1>2 DEF Expire
  <2>2. live' \in BOOLEAN
    BY <1>2, Zenon DEF Expire
  <2> QED
    BY <2>1, <2>2, LeaseStep
<1> QED
  BY <1>1, <1>2

-----------------------------------------------------------------------------
LEMMA VerificationStep == VerificationInv /\ [Next]_vars => VerificationInv'
<1> SUFFICES ASSUME VerificationInv, [Next]_vars
             PROVE  VerificationInv'
  OBVIOUS
<1>1. CASE UNCHANGED vars
  <2>1. UNCHANGED <<row, call, market, scans, owner, live>>
    BY <1>1 DEF vars, lease, bounds
  <2>2. live' \in BOOLEAN
    BY <2>1 DEF VerificationInv, RunTypes
  <2> QED
    BY <2>1, <2>2, LeaseStep
<1>2. ASSUME NEW r \in Requests,
             ServerAnswers(r) \/ Refreshed(r) \/ CallFails(r)
      PROVE  VerificationInv'
  BY <1>2, ServerAnswersStep, AnswerStep, CallFailsStep
<1>3. ASSUME NEW r \in Starters, StartStep(r)
      PROVE  VerificationInv'
  <2>1. r \in Requests
    BY DEF Requests
  <2>2. CASE NotReady(r) \/ Accept(r) \/ Finished(r) \/ Claim(r)
    BY <2>1, <2>2, NotReadyStep, AcceptStep, FinishedStep, ClaimStep
  <2>3. CASE ServerStarts(r) \/ Started(r) \/ Synced(r)
    BY <2>3, ServerStartsStep, StartedStep, SyncedStep
  <2>4. CASE Scanned(r) \/ ServerIngests(r) \/ Ingested(r)
    BY <2>4, ScannedStep, ServerIngestsStep, IngestedStep
  <2> QED
    BY <1>3, <1>2, <2>1, <2>2, <2>3, <2>4 DEF StartStep
<1>4. ASSUME NEW r \in Clerks, ClerkStep(r)
      PROVE  VerificationInv'
  <2>1. r \in Requests
    BY DEF Requests
  <2>2. CASE AskQuote(r) \/ Quoted(r) \/ Refresh(r)
    BY <2>1, <2>2, AskQuoteStep, QuotedStep, RefreshStep
  <2>3. CASE \E a \in Actions : Command(r, a)
    BY <2>1, <2>3, CommandStep
  <2>4. CASE ServerCommands(r) \/ Commanded(r)
    BY <2>1, <2>4, ServerCommandsStep, AnswerStep
  <2> QED
    BY <1>2, <1>4, <2>1, <2>2, <2>3, <2>4 DEF ClerkStep
<1>5. CASE Next
  BY <1>3, <1>4, <1>5, BeginStep, BeatExpireStep, AuthorizeStep, CrashStep
     DEF Next
<1> QED
  BY <1>1, <1>5

LEMMA VerificationInvariant == Spec => []VerificationInv
  BY VerificationInit, VerificationStep, PTL DEF Spec

\* The columns of data_verification_runs and what a request holds across its
\* awaits keep their types.
THEOREM RunTypesHold == Spec => []TypeOK
<1>1. VerificationInv => TypeOK
  <2> SUFFICES ASSUME VerificationInv PROVE TypeOK
    OBVIOUS
  <2>1. RunTypes
    BY DEF VerificationInv
  <2>2. ASSUME NEW r \in Requests
        PROVE  /\ call[r].pc \in PCs
               /\ call[r].quote \in 0..MaxQuotes
               /\ call[r].report \in Reports \cup {NoReport}
               /\ call[r].answer \in States \cup {"none"}
    BY <2>1 DEF RunTypes, Calls
  <2> QED
    BY <2>1, <2>2 DEF RunTypes, TypeOK, Rows, PCs
<1> QED
  BY <1>1, VerificationInvariant, PTL

\* _assert_heartbeat_lease: of the scans that stalls and crashes multiply,
\* the marketplace gets the report of one, and it is the one persisted.
THEOREM OneReportOnly == Spec => []OneReport
<1>1. VerificationInv => OneReport
  BY DEF VerificationInv, ReportInv
<1> QED
  BY <1>1, VerificationInvariant, PTL

\* _sync_status, refresh and lifecycle_command: the state the row shows is one
\* the marketplace's run has been in.
THEOREM StateComesFromServer == Spec => []StateWasServers
<1>1. VerificationInv => StateWasServers
  BY DEF VerificationInv, ServerInv
<1> QED
  BY <1>1, VerificationInvariant, PTL
=============================================================================
