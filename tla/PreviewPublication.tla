------------------------- MODULE PreviewPublication -------------------------
(***************************************************************************)
(* Public previews of one dataset: app/services/preview_build_service.py   *)
(* with PreviewJournal of preview_lifecycle.py and PublicationStore of     *)
(* preview_package_service.py.  A build makes rows selectable; the seller  *)
(* selects, consents, packages, checks the hosted copy, signs, submits,    *)
(* withdraws, refreshes.                                                   *)
(*                                                                         *)
(* The service's lock is held by one request at a time, across its calls   *)
(* of the marketplace; the build and its timer come in between requests.   *)
(* An action is the code from one durable write, or answer, to the next:   *)
(* jobs.sqlite, candidates.sqlite and the store are three files, and the   *)
(* process may die between any two writes.  The marketplace is external:   *)
(* it takes a request once, if it names the preview now shown as the one   *)
(* it replaces, and perhaps long after the sender gave up.                 *)
(***************************************************************************)
EXTENDS Naturals, Sequences

CONSTANTS Selections,   \* selections of rows
          Nothing,      \* no rows
          Gone,         \* a tombstone in the store
          MaxJobs,      \* bound: jobs
          MaxRequests,  \* bound: requests frozen
          MaxChanges,   \* bound: changes of the source file
          MaxCrashes    \* bound: process deaths

ASSUME PreviewAssumption ==
    /\ {Nothing, Gone} \cap Selections = {}
    /\ Nothing # Gone
    /\ MaxJobs \in Nat
    /\ MaxRequests \in Nat
    /\ MaxChanges \in Nat
    /\ MaxCrashes \in Nat

VARIABLES
    source,   \* the source file's version
    made,     \* jobs created: 1..made
    job,      \* job[j]: the payload of its row
    live,     \* self.live: the job whose build or review is in memory
    call,     \* the request that holds the lock: where it is
    renewal,  \* a refresh between its locked sections
    journal,  \* candidates.sqlite: the frozen requests, in order
    store,    \* store[j]: rows the store serves, Nothing, or Gone
    sent,     \* requests sent to the marketplace
    taken,    \* requests it took
    shown,    \* the preview it shows
    agreed,   \* history: agreed[j]: rows the standing consent is for
    crashes   \* process deaths so far

memory == <<live, call, renewal>>
market == <<sent, taken, shown>>
vars == <<source, made, job, memory, journal, store, market, agreed, crashes>>

Jobs     == 1..MaxJobs
Requests == 1..MaxRequests

Reviewing == {"building", "ready", "selected", "scanned"}
Inactive  == {"expired", "cancelled", "failed", "retired", "withdrawn"}

\* What the code reads of a payload: pub is publication's rows, key the
\* journal_key, pubkey the publication_journal_key; 0 is None.
NewRow(version) ==
    [state |-> "building", version |-> version, rows |-> Nothing,
     pub |-> Nothing, origin |-> FALSE, signed |-> FALSE, key |-> 0,
     pubkey |-> 0, prior |-> 0]
NoRow  == [NewRow(0) EXCEPT !.state = "none"]

NoLive == [job |-> 0, phase |-> "none", stopped |-> FALSE, package |-> Nothing]
Free   == [pc |-> "free", job |-> 0, key |-> 0]
NoRenewal == [old |-> 0, new |-> 0]
Blank  == [preview |-> 0, rows |-> Nothing]

Init ==
    /\ source = 0
    /\ made = 0
    /\ job = [j \in Jobs |-> NoRow]
    /\ live = NoLive
    /\ call = Free
    /\ renewal = NoRenewal
    /\ journal = <<>>
    /\ store = [j \in Jobs |-> Nothing]
    /\ sent = {}
    /\ taken = {}
    /\ shown = Blank
    /\ agreed = [j \in Jobs |-> Nothing]
    /\ crashes = 0

Unlocked == call.pc = "free"
At(pc, j, key) == call' = [pc |-> pc, job |-> j, key |-> key]

\* live["cancel"] of job j is set: its thread will take itself off.
Stopped(j) == [live EXCEPT !.stopped = @ \/ live.job = j]
Runs(j)    == live.job = j /\ ~live.stopped

\* load() closes a review whose rows are no longer in memory.
Lapsed(j) == job[j].state \in Reviewing /\ ~Runs(j)

\* check_source lets the request go on.
Current(j) ==
    /\ j \in 1..made
    /\ ~Lapsed(j)
    /\ job[j].state \notin Inactive
    /\ job[j].version = source

\* active(): the rows can be read.
Active(j) == Current(j) /\ Runs(j) /\ live.phase = "review"

-----------------------------------------------------------------------------
(* The build *)

NewJob ==
    /\ live.job = 0
    /\ made < MaxJobs
    /\ made' = made + 1
    /\ job' = [job EXCEPT ![made'] = NewRow(source)]
    /\ live' = [job |-> made', phase |-> "building", stopped |-> FALSE,
                package |-> Nothing]

Create ==
    /\ Unlocked
    /\ NewJob
    /\ UNCHANGED <<source, call, renewal, journal, store, market, agreed,
                   crashes>>

\* review(): the rows are there; a refresh may have selected some.
ReviewReady ==
    /\ Unlocked
    /\ Runs(live.job) /\ live.phase = "building"
    /\ live' = [live EXCEPT !.phase = "review"]
    /\ job' = [job EXCEPT ![live.job].state =
                  IF @ # "building" THEN @
                  ELSE IF job[live.job].rows = Nothing THEN "ready"
                  ELSE "selected"]
    /\ UNCHANGED <<source, made, call, renewal, journal, store, market, agreed,
                   crashes>>

\* The build ends early, or nobody has looked for idle_seconds: the timer
\* and the next request's load() do the same.
Stops(state) ==
    /\ Unlocked
    /\ live.job # 0 /\ ~live.stopped
    /\ job' = [job EXCEPT ![live.job].state = state]
    /\ live' = [live EXCEPT !.stopped = TRUE]
    /\ UNCHANGED <<source, made, call, renewal, journal, store, market, agreed,
                   crashes>>

BuildFails == live.phase = "building" /\ Stops("failed")
Expire     == Stops("expired")

LiveEnds ==
    /\ Unlocked
    /\ live.stopped
    /\ live' = NoLive
    /\ UNCHANGED <<source, made, job, call, renewal, journal, store, market,
                   agreed, crashes>>

Lapse(j) ==
    /\ Unlocked
    /\ Lapsed(j)
    /\ job' = [job EXCEPT ![j].state = "expired"]
    /\ UNCHANGED <<source, made, memory, journal, store, market, agreed,
                   crashes>>

\* Any request but a withdrawal or a cancellation, on a source that changed.
SourceRefused(j) ==
    /\ Unlocked
    /\ j \in 1..made
    /\ ~Lapsed(j) /\ job[j].state \notin Inactive
    /\ job[j].version # source
    /\ job' = [job EXCEPT ![j].state = "failed"]
    /\ live' = Stopped(j)
    /\ UNCHANGED <<source, made, call, renewal, journal, store, market, agreed,
                   crashes>>

SourceChanges ==
    /\ source < MaxChanges
    /\ source' = source + 1
    /\ UNCHANGED <<made, job, memory, journal, store, market, agreed, crashes>>

-----------------------------------------------------------------------------
(* Review *)

Editable(j) ==
    /\ Unlocked
    /\ Active(j)
    /\ job[j].pub = Nothing /\ ~job[j].signed

\* Mutant: the package prepared before is kept.
SelectKeepsPackage(j, rows) ==
    /\ Editable(j)
    /\ job' = [job EXCEPT ![j].rows = rows, ![j].state = "selected"]
    /\ agreed' = [agreed EXCEPT ![j] = Nothing]
    /\ UNCHANGED <<source, made, memory, journal, store, market, crashes>>

Select(j, rows) ==
    /\ Editable(j)
    /\ job' = [job EXCEPT ![j].rows = rows, ![j].state = "selected"]
    /\ live' = [live EXCEPT !.package = Nothing]
    /\ agreed' = [agreed EXCEPT ![j] = Nothing]
    /\ UNCHANGED <<source, made, call, renewal, journal, store, market, crashes>>

\* The seller's consent; the content policy passes the rows or not.
Scan(j, passed) ==
    /\ Editable(j)
    /\ job[j].rows # Nothing
    /\ LET rows == IF passed THEN job[j].rows ELSE Nothing
       IN  /\ live' = [live EXCEPT !.package = rows]
           /\ agreed' = [agreed EXCEPT ![j] = rows]
    /\ job' = [job EXCEPT ![j].state = IF passed THEN "scanned" ELSE "selected"]
    /\ UNCHANGED <<source, made, call, renewal, journal, store, market, crashes>>

Cancel(j) ==
    /\ Unlocked
    /\ j \in 1..made
    /\ job[j].pub = Nothing
    /\ job' = [job EXCEPT ![j].state = "cancelled"]
    /\ live' = Stopped(j)
    /\ UNCHANGED <<source, made, call, renewal, journal, store, market, agreed,
                   crashes>>

\* PublicationStore.export, and the row that tells of it.
Package(j) ==
    /\ Editable(j)
    /\ live.package # Nothing
    /\ store' = [store EXCEPT ![j] = live.package]
    /\ At("packaging", j, 0)
    /\ UNCHANGED <<source, made, job, live, renewal, journal, market, agreed,
                   crashes>>

PackageSaved ==
    /\ call.pc = "packaging"
    /\ job' = [job EXCEPT ![call.job].state = "packaged",
                          ![call.job].pub = live.package]
    /\ live' = Stopped(call.job)
    /\ call' = Free
    /\ UNCHANGED <<source, made, renewal, journal, store, market, agreed,
                   crashes>>

\* The hosted copy is read back.
OriginCheck(j) ==
    /\ Unlocked
    /\ Current(j)
    /\ job[j].pub # Nothing /\ ~job[j].signed
    /\ job' = [job EXCEPT ![j].state = "hosted", ![j].origin = TRUE]
    /\ UNCHANGED <<source, made, memory, journal, store, market, agreed,
                   crashes>>

-----------------------------------------------------------------------------
(* Signing, submission *)

Request(j, decision, expects, rows) ==
    [job |-> j, decision |-> decision, expects |-> expects, rows |-> rows,
     state |-> "signed_candidate"]

\* PreviewJournal.start to freeze: the steps before the last belong to a
\* request nothing refers to yet.
Freezes(request, pc) ==
    /\ Len(journal) < MaxRequests
    /\ journal' = Append(journal, request)
    /\ At(pc, request.job, Len(journal) + 1)

\* Mutant: a candidate that is there already does not end the request.
CandidateAgain(j) ==
    /\ Unlocked
    /\ Current(j)
    /\ job[j].state \in {"hosted", "signed_candidate"} /\ job[j].origin
    /\ job[j].rows = job[j].pub
    /\ Freezes(Request(j, "approve", job[j].prior, job[j].rows), "freezing")
    /\ UNCHANGED <<source, made, job, live, renewal, store, market, agreed,
                   crashes>>

\* construct_request refuses proofs of other rows than the package's.
Candidate(j) ==
    /\ Unlocked
    /\ Current(j)
    /\ job[j].state = "hosted" /\ ~job[j].signed
    /\ job[j].rows = job[j].pub
    /\ Freezes(Request(j, "approve", job[j].prior, job[j].rows), "freezing")
    /\ UNCHANGED <<source, made, job, live, renewal, store, market, agreed,
                   crashes>>

\* A withdrawal keeps the approval's key as the publication's.
FreezeSaved ==
    /\ call.pc \in {"freezing", "revoking"}
    /\ LET row == job[call.job]
       IN  job' = [job EXCEPT ![call.job] =
              [row EXCEPT !.state = "signed_candidate", !.signed = TRUE,
                          !.key = call.key,
                          !.pubkey = IF call.pc = "freezing" \/ row.pubkey # 0
                                     THEN row.pubkey ELSE row.key]]
    /\ IF call.pc = "freezing"
       THEN call' = Free /\ UNCHANGED sent
       ELSE At("withdrawing", call.job, call.key) /\ sent' = sent \cup {call.key}
    /\ UNCHANGED <<source, made, live, renewal, journal, store, taken, shown,
                   agreed, crashes>>

\* A withdrawal sent to the approve route is refused there.
Submit(j) ==
    /\ Unlocked
    /\ Current(j)
    /\ job[j].signed
    /\ journal[job[j].key].decision = "approve"
    /\ sent' = sent \cup {job[j].key}
    /\ At("approving", j, job[j].key)
    /\ UNCHANGED <<source, made, job, live, renewal, journal, store, taken,
                   shown, agreed, crashes>>

\* The marketplace takes a request once, against the preview it shows.
MarketTakes(k) ==
    /\ k \in sent \ taken
    /\ journal[k].expects = shown.preview
    /\ taken' = taken \cup {k}
    /\ shown' = IF journal[k].decision = "approve"
                THEN [preview |-> journal[k].job, rows |-> journal[k].rows]
                ELSE Blank
    /\ UNCHANGED <<source, made, job, memory, journal, store, sent, agreed,
                   crashes>>

\* The request is refused, or its answer or the read-back after it is lost;
\* the caller gets an error and nothing is saved.
Unanswered ==
    /\ call.pc \in {"approving", "withdrawing"}
    /\ call' = Free
    /\ UNCHANGED <<source, made, job, live, renewal, journal, store, market,
                   agreed, crashes>>

\* The answer is noted in the journal first, then in the job.
AnswerNoted ==
    /\ call.pc \in {"approving", "withdrawing"}
    /\ call.key \in taken
    /\ journal' = [journal EXCEPT ![call.key].state =
                      IF @ = "signed_candidate" THEN "submitted" ELSE @]
    /\ At(IF call.pc = "approving" THEN "approved" ELSE "withdrawn",
          call.job, call.key)
    /\ UNCHANGED <<source, made, job, live, renewal, store, market, agreed,
                   crashes>>

SubmitSaved ==
    /\ call.pc = "approved"
    /\ job' = [job EXCEPT ![call.job].state = "submitted"]
    /\ call' = Free
    /\ UNCHANGED <<source, made, live, renewal, journal, store, market, agreed,
                   crashes>>

-----------------------------------------------------------------------------
(* Withdrawal *)

Withdrawable(j) == Unlocked /\ j \in 1..made /\ job[j].pub # Nothing

AtMarket(j) == job[j].signed /\ job[j].state \notin {"withdrawn", "retired"}

\* Every try signs a new withdrawal: the key it looks at is the approval's.
Withdraw(j) ==
    /\ Withdrawable(j)
    /\ AtMarket(j)
    /\ Freezes(Request(j, "withdraw", j, Nothing), "revoking")
    /\ UNCHANGED <<source, made, job, live, renewal, store, market, agreed,
                   crashes>>

\* Nothing at the marketplace, or no longer.
WithdrawHosted(j) ==
    /\ Withdrawable(j)
    /\ ~AtMarket(j)
    /\ At("withdrawn", j, 0)
    /\ UNCHANGED <<source, made, job, live, renewal, journal, store, market,
                   agreed, crashes>>

WithdrawSaved ==
    /\ call.pc = "withdrawn"
    /\ job' = [job EXCEPT ![call.job].state = "withdrawn"]
    /\ live' = Stopped(call.job)
    /\ At("retiring", call.job, 0)
    /\ UNCHANGED <<source, made, renewal, journal, store, market, agreed,
                   crashes>>

\* The journal entry of the publication: the approval's.
Publication(j) == IF job[j].pubkey # 0 THEN job[j].pubkey ELSE job[j].key

RetirementPending ==
    /\ call.pc = "retiring"
    /\ job[call.job].signed
    /\ journal' = [journal EXCEPT ![Publication(call.job)].state =
                      IF @ = "retired" THEN @ ELSE "retirement_pending"]
    /\ At(IF journal[Publication(call.job)].state = "retired" THEN "retired"
          ELSE "closing", call.job, 0)
    /\ UNCHANGED <<source, made, job, live, renewal, store, market, agreed,
                   crashes>>

\* PublicationStore.retire: the record first, then the file.
Tombstone ==
    /\ \/ call.pc = "closing"
       \/ call.pc = "retiring" /\ ~job[call.job].signed
    /\ store' = [store EXCEPT ![call.job] = Gone]
    /\ At("receipts", call.job, 0)
    /\ UNCHANGED <<source, made, job, live, renewal, journal, market, agreed,
                   crashes>>

\* The hosted copy is still there, cannot be read, or was never checked.
NoReceipts ==
    /\ call.pc = "receipts"
    /\ call' = Free
    /\ UNCHANGED <<source, made, job, live, renewal, journal, store, market,
                   agreed, crashes>>

Receipts ==
    /\ call.pc = "receipts"
    /\ job[call.job].origin
    /\ journal' = IF job[call.job].signed
                  THEN [journal EXCEPT ![Publication(call.job)].state = "retired"]
                  ELSE journal
    /\ At("retired", call.job, 0)
    /\ UNCHANGED <<source, made, job, live, renewal, store, market, agreed,
                   crashes>>

RetiredSaved ==
    /\ call.pc = "retired"
    /\ job' = [job EXCEPT ![call.job].state = "retired"]
    /\ call' = Free
    /\ UNCHANGED <<source, made, live, renewal, journal, store, market, agreed,
                   crashes>>

-----------------------------------------------------------------------------
(* Refresh: three locked sections *)

Refresh(j) ==
    /\ Unlocked
    /\ renewal = NoRenewal
    /\ Current(j)
    /\ job[j].signed /\ job[j].state = "submitted"
    /\ journal[job[j].key].decision = "approve"
    /\ renewal' = [old |-> j, new |-> 0]
    /\ UNCHANGED <<source, made, job, live, call, journal, store, market,
                   agreed, crashes>>

RefreshCreates ==
    /\ Unlocked
    /\ renewal.old # 0 /\ renewal.new = 0
    /\ NewJob
    /\ renewal' = [renewal EXCEPT !.new = made']
    /\ UNCHANGED <<source, call, journal, store, market, agreed, crashes>>

RefreshRefused ==
    /\ renewal.old # 0 /\ renewal.new = 0
    /\ renewal' = NoRenewal
    /\ UNCHANGED <<source, made, job, live, call, journal, store, market,
                   agreed, crashes>>

\* The rows of the preview it renews, and the link to it.
Renewed(row, old) == [row EXCEPT !.rows = job[old].rows, !.prior = old]

RefreshFills ==
    /\ Unlocked
    /\ renewal.new # 0
    /\ LET j == renewal.new
           row == IF Lapsed(j) THEN [job[j] EXCEPT !.state = "expired"]
                  ELSE job[j]
       IN  job' = [job EXCEPT ![j] = Renewed(row, renewal.old)]
    /\ renewal' = NoRenewal
    /\ UNCHANGED <<source, made, live, call, journal, store, market, agreed,
                   crashes>>

-----------------------------------------------------------------------------

\* The process dies: files stay.
CrashRestart ==
    /\ crashes < MaxCrashes
    /\ crashes' = crashes + 1
    /\ live' = NoLive
    /\ call' = Free
    /\ renewal' = NoRenewal
    /\ UNCHANGED <<source, made, job, journal, store, market, agreed>>

Build == Create \/ ReviewReady \/ BuildFails \/ Expire \/ LiveEnds

Publish ==
    \/ PackageSaved \/ FreezeSaved \/ Unanswered \/ AnswerNoted \/ SubmitSaved
    \/ WithdrawSaved \/ RetirementPending \/ Tombstone \/ NoReceipts
    \/ Receipts \/ RetiredSaved

Renew == RefreshCreates \/ RefreshRefused \/ RefreshFills

Asked(j) ==
    \/ Lapse(j) \/ SourceRefused(j) \/ Cancel(j) \/ Package(j)
    \/ OriginCheck(j) \/ Candidate(j) \/ Submit(j)
    \/ Withdraw(j) \/ WithdrawHosted(j) \/ Refresh(j)
    \/ \E rows \in Selections : Select(j, rows)
    \/ \E passed \in BOOLEAN : Scan(j, passed)

Next ==
    \/ Build \/ Publish \/ Renew \/ SourceChanges \/ CrashRestart
    \/ \E j \in Jobs : Asked(j)
    \/ \E k \in Requests : MarketTakes(k)

Spec == Init /\ [][Next]_vars

-----------------------------------------------------------------------------
(* Properties *)

Rows == Selections \cup {Nothing}

States == Reviewing \cup Inactive
          \cup {"none", "packaged", "hosted", "signed_candidate", "submitted"}

JobRows == [state : States, version : 0..MaxChanges, rows : Rows, pub : Rows,
            origin : BOOLEAN, signed : BOOLEAN, key : Nat, pubkey : Nat,
            prior : 0..MaxJobs]

Entries == [job : Jobs, decision : {"approve", "withdraw"},
            expects : 0..MaxJobs, rows : Rows,
            state : {"signed_candidate", "submitted", "retirement_pending",
                     "retired"}]

Places == {"packaging", "freezing", "revoking", "approving", "withdrawing",
           "approved", "withdrawn", "retiring", "closing", "receipts",
           "retired"}

\* Types.
TypeOK ==
    /\ source \in 0..MaxChanges
    /\ made \in 0..MaxJobs
    /\ job \in [Jobs -> JobRows]
    /\ live \in [job : 0..made, phase : {"none", "building", "review"},
                 stopped : BOOLEAN, package : Rows]
    /\ call \in [pc : {"free"} \cup Places, job : 0..made, key : Nat]
    /\ renewal \in [old : 0..made, new : 0..made]
    /\ journal \in Seq(Entries)
    /\ store \in [Jobs -> Rows \cup {Gone}]
    /\ sent \subseteq 1..Len(journal)
    /\ taken \subseteq sent
    /\ shown \in [preview : 0..MaxJobs, rows : Rows]
    /\ agreed \in [Jobs -> Rows]
    /\ crashes \in 0..MaxCrashes

\* PreviewJournal, "candidate bytes and requests survive retries and process
\* restarts": of one job one approval is sent, however often it is tried and
\* whatever is lost.
OneApproval ==
    \A k, l \in sent :
       /\ journal[k].decision = "approve"
       /\ journal[l].decision = "approve"
       /\ journal[k].job = journal[l].job
       => k = l

\* Build, store, journal and marketplace together keep what a seller is
\* promised of a preview.
Disclosure == INSTANCE PreviewDisclosure WITH
    Previews <- Jobs,
    served   <- store,
    was      <- {journal[k].job :
                   k \in {l \in taken : journal[l].decision = "approve"}}

KeepsDisclosure == Disclosure!Spec
=============================================================================
