---------------------------- MODULE PreviewProofs ----------------------------
(***************************************************************************)
(* Theorems about PreviewPublication, for any jobs, selections, requests,  *)
(* changes and deaths: types, one approval a job, and the refinement of    *)
(* PreviewDisclosure.                                                      *)
(***************************************************************************)
EXTENDS PreviewPublication, SequenceTheorems, TLAPS

\* Types, and that what is under way is about a job.
Types ==
    /\ TypeOK
    /\ call.pc # "free" => call.job # 0
    /\ renewal.new # 0 => renewal.old # 0
    /\ live.phase # "none" => live.job # 0

Withdrawing == {"revoking", "withdrawing", "withdrawn", "retiring", "closing",
                "receipts", "retired"}

\* A job's requests: its publication is one approval, of the rows packaged,
\* and what follows it is a withdrawal.
KeysOf(j) ==
    IF job[j].signed
    THEN /\ job[j].pub # Nothing
         /\ job[j].key \in 1..Len(journal)
         /\ Publication(j) \in 1..Len(journal)
         /\ journal[Publication(j)].job = j
         /\ journal[Publication(j)].decision = "approve"
         /\ journal[Publication(j)].rows = job[j].pub
         /\ job[j].pubkey # 0 => journal[job[j].key].decision = "withdraw"
    ELSE job[j].key = 0 /\ job[j].pubkey = 0

Keys == \A j \in Jobs : KeysOf(j)

\* Only a job's publication is ever sent for approval, and a withdrawal
\* names the preview it withdraws.
Sends ==
    /\ \A k \in sent :
          journal[k].decision = "approve" =>
             job[journal[k].job].signed /\ k = Publication(journal[k].job)
    /\ \A k \in 1..Len(journal) :
          journal[k].decision = "withdraw" =>
             journal[k].expects = journal[k].job

\* The store holds what the row tells of, but for an export under way or cut
\* off by a crash; a package in memory is the one agreed to.
StoredOf(j) ==
    /\ job[j].pub # Nothing => store[j] \in {job[j].pub, Gone}
    /\ job[j].pub = Nothing => store[j] # Gone
    /\ job[j].state = "hosted" => job[j].pub # Nothing
    /\ store[j] # Nothing =>
          \/ job[j].pub # Nothing
          \/ live.job # j
          \/ call.pc = "packaging" /\ call.job = j
    /\ Runs(j) => job[j].pub = Nothing
    /\ live.job = j => live.package \in {Nothing, agreed[j]}
    /\ j > made => store[j] = Nothing /\ job[j].pub = Nothing
    /\ j > made => agreed[j] = Nothing /\ ~job[j].signed

Stored == \A j \in Jobs : StoredOf(j)

\* The marketplace took a withdrawal of job j.
Over(j) ==
    \E k \in taken : journal[k].job = j /\ journal[k].decision = "withdraw"

\* A preview ends at the marketplace before it ends here.
EndedOf(j) ==
    /\ Over(j) => /\ job[j].signed
                  /\ Publication(j) \in taken
                  /\ shown.preview # j
    /\ shown.preview = j => job[j].signed /\ Publication(j) \in taken
    /\ job[j].signed =>
          \/ Over(j)
          \/ store[j] # Gone /\ job[j].state \notin {"withdrawn", "retired"}
    /\ ~job[j].signed /\ store[j] = Gone =>
          job[j].state \in {"withdrawn", "retired"}

Ended == \A j \in Jobs : EndedOf(j)

\* What the request that holds the lock has seen is still so.
Held ==
    LET j == call.job
        k == call.key
    IN  /\ call.pc = "packaging" =>
              /\ live.job = j /\ live.package # Nothing
              /\ store[j] = live.package
              /\ job[j].pub = Nothing /\ ~job[j].signed
        /\ call.pc = "freezing" =>
              /\ job[j].state = "hosted"
              /\ ~job[j].signed /\ job[j].pub # Nothing
              /\ journal[k].decision = "approve"
              /\ journal[k].rows = job[j].pub
        /\ call.pc \in {"revoking", "withdrawing"} =>
              journal[k].decision = "withdraw"
        /\ call.pc \in {"freezing", "revoking", "withdrawing"} =>
              k \in 1..Len(journal) /\ journal[k].job = j
        /\ call.pc \in {"revoking", "withdrawing", "approving", "approved"} =>
              job[j].signed
        /\ call.pc \in Withdrawing => job[j].pub # Nothing
        /\ call.pc \in {"withdrawn", "retiring", "closing"} /\ job[j].signed =>
              Over(j)
        /\ call.pc \in {"retiring", "closing", "receipts", "retired"} =>
              job[j].state = "withdrawn"

PreviewInv == Types /\ Keys /\ Sends /\ Stored /\ Ended /\ Held

-----------------------------------------------------------------------------
(* Frames: what the parts of the invariant depend on *)

\* Entries are only added, or change their state.
SameEntries ==
    /\ Len(journal') \in Nat /\ Len(journal') >= Len(journal)
    /\ \A k \in 1..Len(journal) :
          /\ journal'[k].job = journal[k].job
          /\ journal'[k].decision = journal[k].decision
          /\ journal'[k].rows = journal[k].rows
          /\ journal'[k].expects = journal[k].expects

SameRequests(j) ==
    /\ job'[j].signed = job[j].signed
    /\ job'[j].pub = job[j].pub
    /\ job'[j].key = job[j].key
    /\ job'[j].pubkey = job[j].pubkey

\* The journal untouched.
LEMMA Untouched ==
  ASSUME TypeOK, UNCHANGED journal
  PROVE  SameEntries
BY DEF TypeOK, SameEntries

\* PreviewJournal.start to freeze: a new entry at the end.
LEMMA Appended ==
  ASSUME TypeOK, NEW e \in Entries, journal' = Append(journal, e)
  PROVE  /\ journal' \in Seq(Entries)
         /\ Len(journal') = Len(journal) + 1
         /\ journal'[Len(journal) + 1] = e
         /\ SameEntries
BY DEF TypeOK, SameEntries

\* PreviewJournal.transition: the state of one entry.
LEMMA Moved ==
  ASSUME TypeOK, NEW k \in 1..Len(journal),
         NEW s \in {"signed_candidate", "submitted", "retirement_pending",
                    "retired"},
         journal' = [journal EXCEPT ![k].state = s]
  PROVE  /\ journal' \in Seq(Entries) /\ Len(journal') = Len(journal)
         /\ SameEntries
<1> DEFINE e == journal[k]
<1>1. e \in Entries
  BY DEF TypeOK
<1>3. journal' = [journal EXCEPT ![k] = [e EXCEPT !.state = s]]
  OBVIOUS
<1> HIDE DEF e
<1>2. /\ [e EXCEPT !.state = s] \in Entries
      /\ [e EXCEPT !.state = s].job = e.job
      /\ [e EXCEPT !.state = s].decision = e.decision
      /\ [e EXCEPT !.state = s].rows = e.rows
      /\ [e EXCEPT !.state = s].expects = e.expects
  BY <1>1 DEF Entries
<1> DEFINE f == [e EXCEPT !.state = s]
<1> HIDE DEF f
<1>4. f \in Entries /\ journal' = [journal EXCEPT ![k] = f]
  BY <1>2, <1>3 DEF f
<1>5. journal' \in Seq(Entries) /\ Len(journal') = Len(journal)
  <2>1. journal \in Seq(Entries)
    BY DEF TypeOK
  <2> QED
    BY <1>4, <2>1, ExceptSeq
<1>6. /\ f.job = journal[k].job /\ f.decision = journal[k].decision
      /\ f.rows = journal[k].rows /\ f.expects = journal[k].expects
  BY <1>2, Zenon DEF f, e
<1>7. SameEntries
  BY <1>4, <1>5, <1>6 DEF SameEntries, TypeOK
<1> QED
  BY <1>5, <1>7

\* A job keeps its publication if its requests are left alone.
LEMMA PublicationKept ==
  ASSUME NEW j \in Jobs, SameRequests(j)
  PROVE  Publication(j)' = Publication(j)
BY DEF Publication, SameRequests

\* A job's requests, in steps that leave its row's keys alone.
LEMMA KeysKept ==
  ASSUME Types, Keys, SameEntries, \A j \in Jobs : SameRequests(j)
  PROVE  Keys'
<1> SUFFICES ASSUME NEW j \in Jobs PROVE KeysOf(j)'
  BY DEF Keys
<1>1. KeysOf(j) /\ SameRequests(j) /\ Publication(j)' = Publication(j)
  BY PublicationKept DEF Keys
<1>2. /\ Len(journal) \in Nat
      /\ \A k \in 1..Len(journal) : k \in 1..Len(journal')
  BY DEF SameEntries, Types, TypeOK
<1> QED
  BY <1>1, <1>2 DEF KeysOf, SameEntries, SameRequests

\* A request after its job's is the job's, taken or not, in every step that
\* only adds or moves entries.
LEMMA OverSame ==
  ASSUME TypeOK, SameEntries, UNCHANGED taken, NEW j \in Jobs
  PROVE  Over(j)' <=> Over(j)
<1>1. \A k \in taken : k \in 1..Len(journal)
  BY DEF TypeOK
<1> QED
  BY <1>1 DEF Over, SameEntries

Past == {"withdrawn", "retired"}

\* A row may change its state without harm to the end of its preview.
StateKept(j) ==
    \/ job'[j].state = job[j].state
    \/ job[j].pub = Nothing
    \/ job'[j].state \notin Past /\ (job[j].signed \/ job[j].state \notin Past)
    \/ job'[j].state \in Past /\ (job[j].signed => Over(j))

\* The build in memory ends, stops, or goes on with the same package.
LiveKept ==
    \A j \in Jobs :
       /\ live'.job = j => live.job = j /\ live'.package = live.package
       /\ Runs(j)' => Runs(j)

\* Whatever marks, ends or drops the requests of withdrawal: jobs with the
\* same requests keep their place in the store.
LEMMA StoredKept ==
  ASSUME Stored, UNCHANGED <<store, made, agreed>>, LiveKept,
         \A j \in Jobs : SameRequests(j),
         \A j \in Jobs : job'[j].state = "hosted" => job[j].pub # Nothing,
         call.pc = "packaging" => call' = call \/ live'.job = 0
  PROVE  Stored'
<1> SUFFICES ASSUME NEW j \in Jobs PROVE StoredOf(j)'
  BY DEF Stored
<1>1. /\ StoredOf(j) /\ SameRequests(j)
      /\ live'.job = j => live.job = j /\ live'.package = live.package
      /\ Runs(j)' => Runs(j)
      /\ job'[j].state = "hosted" => job[j].pub # Nothing
  BY DEF Stored, LiveKept
<1>2. j # 0
  BY DEF Jobs
<1> QED
  BY <1>1, <1>2 DEF StoredOf, SameRequests

\* No preview ends, and none that ended comes back.
LEMMA EndedKept ==
  ASSUME Types, Keys, Stored, Ended, SameEntries,
         UNCHANGED <<store, taken, shown>>,
         \A j \in Jobs : SameRequests(j), \A j \in Jobs : StateKept(j)
  PROVE  Ended'
<1> SUFFICES ASSUME NEW j \in Jobs PROVE EndedOf(j)'
  BY DEF Ended
<1>1. /\ EndedOf(j) /\ SameRequests(j) /\ StateKept(j)
      /\ KeysOf(j) /\ StoredOf(j)
  BY DEF Ended, Keys, Stored
<1>2. Publication(j)' = Publication(j)
  BY <1>1, PublicationKept
<1>3. Over(j)' <=> Over(j)
  BY OverSame DEF Types
<1>4. job[j].pub = Nothing => ~job[j].signed /\ store[j] # Gone
  BY <1>1 DEF KeysOf, StoredOf
<1>5. /\ job'[j].signed = job[j].signed
      /\ store'[j] = store[j] /\ shown' = shown /\ taken' = taken
  BY <1>1 DEF SameRequests
<1>6. /\ job[j].signed =>
            Over(j) \/ (store[j] # Gone /\ job'[j].state \notin Past)
      /\ ~job[j].signed /\ store[j] = Gone => job'[j].state \in Past
  <2>1. StateKept(j)
    BY <1>1
  <2>2. /\ job[j].signed =>
              Over(j) \/ (store[j] # Gone /\ job[j].state \notin Past)
        /\ ~job[j].signed /\ store[j] = Gone => job[j].state \in Past
    BY <1>1, Zenon DEF EndedOf, Past
  <2> QED
    BY <2>1, <2>2, <1>4, Zenon DEF StateKept
<1> QED
  BY <1>1, <1>2, <1>3, <1>5, <1>6, Zenon DEF EndedOf, Past

\* What is sent stays a publication or a withdrawal.
LEMMA SendsKept ==
  ASSUME Types, Keys, Sends, SameEntries, UNCHANGED sent,
         \A j \in Jobs : SameRequests(j),
         \A k \in 1..Len(journal') :
            journal'[k].decision = "withdraw" =>
               journal'[k].expects = journal'[k].job
  PROVE  Sends'
<1>1. \A j \in Jobs :
         /\ job'[j].signed = job[j].signed
         /\ (IF job'[j].pubkey # 0 THEN job'[j].pubkey ELSE job'[j].key)
               = Publication(j)
  BY DEF SameRequests, Publication
<1>2. ASSUME NEW k \in sent, journal'[k].decision = "approve"
      PROVE  /\ job'[journal'[k].job].signed
             /\ k = Publication(journal[k].job)'
  <2>1. k \in 1..Len(journal)
    BY DEF Types, TypeOK
  <2>2. journal[k].job \in Jobs
    <3>1. journal[k] \in Entries
      BY <2>1 DEF Types, TypeOK
    <3> QED
      BY <3>1 DEF Entries
  <2>3. journal'[k].job = journal[k].job /\ journal[k].decision = "approve"
    BY <1>2, <2>1 DEF SameEntries
  <2>4. job[journal[k].job].signed /\ k = Publication(journal[k].job)
    BY <2>3 DEF Sends
  <2>5. job'[journal'[k].job].signed
    BY <1>1, <2>2, <2>3, <2>4
  <2>6. k = IF job'[journal'[k].job].pubkey # 0
            THEN job'[journal'[k].job].pubkey
            ELSE job'[journal'[k].job].key
    BY <1>1, <2>2, <2>3, <2>4
  <2> QED
    BY <2>5, <2>6 DEF Publication
<1> QED
  BY <1>2 DEF Sends

\* Nothing is held between requests.
LEMMA HeldFree ==
  ASSUME call'.pc = "free"
  PROVE  Held'
BY DEF Held, Withdrawing

\* What a request about to retire a preview has seen.
LEMMA HeldAfter ==
  ASSUME NEW j \in Jobs, call'.job = j, job'[j].pub # Nothing,
         call'.pc \in {"withdrawn", "retiring", "closing", "receipts",
                       "retired"},
         call'.pc \in {"withdrawn", "retiring", "closing"} =>
            (job'[j].signed => Over(j)'),
         call'.pc # "withdrawn" => job'[j].state = "withdrawn"
  PROVE  Held'
<1>1. Over(call.job)' <=> Over(j)'
  BY DEF Over
<1> QED
  BY <1>1, Zenon DEF Held

\* What no lock guards leaves what the request has seen alone.
LEMMA HeldKept ==
  ASSUME Held, UNCHANGED <<call, job, live, store, journal>>,
         \A j \in 0..made : Over(j) => Over(j)', call.job \in 0..made
  PROVE  Held'
BY DEF Held

\* The steps that only mark rows and entries.
LEMMA Steady ==
  ASSUME PreviewInv, Types', SameEntries, LiveKept,
         UNCHANGED <<store, market, made, agreed>>,
         \A j \in Jobs : SameRequests(j), \A j \in Jobs : StateKept(j),
         \A j \in Jobs : job'[j].state = "hosted" => job[j].pub # Nothing,
         call.pc = "packaging" => call' = call \/ live'.job = 0,
         \A k \in 1..Len(journal') :
            journal'[k].decision = "withdraw" =>
               journal'[k].expects = journal'[k].job,
         Held'
  PROVE  PreviewInv'
<1>1. Keys'
  BY KeysKept DEF PreviewInv
<1>2. Sends'
  BY SendsKept DEF PreviewInv, market
<1>3. Stored'
  BY StoredKept DEF PreviewInv
<1>4. Ended'
  BY EndedKept DEF PreviewInv, market
<1> QED
  BY <1>1, <1>2, <1>3, <1>4 DEF PreviewInv

-----------------------------------------------------------------------------
(* Rows, the build in memory, the lock *)

LiveRows == [job : 0..made, phase : {"none", "building", "review"},
             stopped : BOOLEAN, package : Rows]

CallRows == [pc : {"free"} \cup Places, job : 0..made, key : Nat]

\* The build in memory is about a job, and goes on or stops.
LiveGoes ==
    /\ live' \in LiveRows
    /\ live'.phase # "none" => live'.job # 0
    /\ LiveKept

CallGoes ==
    /\ call' \in CallRows
    /\ call'.pc # "free" => call'.job # 0

\* A row is replaced.
LEMMA RowSet ==
  ASSUME TypeOK, NEW j \in Jobs, NEW r \in JobRows,
         job' = [job EXCEPT ![j] = r]
  PROVE  /\ job' \in [Jobs -> JobRows]
         /\ job'[j] = r
         /\ \A i \in Jobs : i # j => job'[i] = job[i]
BY DEF TypeOK

\* A row's state is replaced.
LEMMA StateSet ==
  ASSUME TypeOK, NEW j \in Jobs, NEW s \in States,
         job' = [job EXCEPT ![j].state = s]
  PROVE  /\ job' \in [Jobs -> JobRows]
         /\ job'[j].state = s
         /\ \A i \in Jobs : i # j => job'[i] = job[i]
         /\ \A i \in Jobs : SameRequests(i)
<1> DEFINE r == [job[j] EXCEPT !.state = s]
<1>1. job[j] \in JobRows
  BY DEF TypeOK
<1>2. r \in JobRows
  BY <1>1 DEF JobRows
<1>3. /\ r.state = s /\ r.signed = job[j].signed /\ r.pub = job[j].pub
      /\ r.key = job[j].key /\ r.pubkey = job[j].pubkey
  BY <1>1 DEF JobRows
<1>4. job' = [job EXCEPT ![j] = r]
  OBVIOUS
<1> HIDE DEF r
<1>5. /\ job' \in [Jobs -> JobRows]
      /\ job'[j] = r
      /\ \A i \in Jobs : i # j => job'[i] = job[i]
  BY <1>2, <1>4, RowSet
<1>6. ASSUME NEW i \in Jobs PROVE SameRequests(i)
  <2>1. CASE i = j
    BY <2>1, <1>3, <1>5, Zenon DEF SameRequests
  <2>2. CASE i # j
    BY <2>2, <1>5, Zenon DEF SameRequests
  <2> QED
    BY <2>1, <2>2
<1> QED
  BY <1>3, <1>5, <1>6

\* live["cancel"] is set, or the thread takes itself off, or nothing happens.
LEMMA LiveStops ==
  ASSUME Types, UNCHANGED made, NEW j,
         live' = live \/ live' = Stopped(j) \/ live' = NoLive
           \/ live' = [live EXCEPT !.stopped = TRUE]
  PROVE  LiveGoes
<1>1. live \in LiveRows /\ (live.phase # "none" => live.job # 0)
  BY DEF Types, TypeOK, LiveRows
<1>2. CASE live' = live
  BY <1>1, <1>2 DEF LiveGoes, LiveKept, Runs
<1>3. CASE live' = NoLive
  <2>1. /\ live' \in LiveRows /\ live'.phase = "none"
        /\ \A i \in Jobs : live'.job # i
    BY <1>1, <1>3 DEF LiveRows, NoLive, Rows, Jobs, Types, TypeOK
  <2> QED
    BY <2>1 DEF LiveGoes, LiveKept, Runs
<1>4. ASSUME NEW b \in BOOLEAN, live' = [live EXCEPT !.stopped = b],
             live.stopped => b
      PROVE  LiveGoes
  <2>1. /\ live' \in LiveRows /\ live'.phase = live.phase
        /\ live'.job = live.job /\ live'.package = live.package
    BY <1>1, <1>4 DEF LiveRows
  <2>2. live'.stopped = b
    BY <1>1, <1>4 DEF LiveRows
  <2>3. \A i \in Jobs : Runs(i)' => Runs(i)
    BY <2>1, <2>2, <1>4, Zenon DEF Runs
  <2> QED
    BY <1>1, <2>1, <2>3 DEF LiveGoes, LiveKept
<1>5. CASE live' = Stopped(j)
  <2>1. live' = [live EXCEPT !.stopped = live.stopped \/ live.job = j]
    BY <1>5 DEF Stopped
  <2>2. (live.stopped \/ live.job = j) \in BOOLEAN
    OBVIOUS
  <2> QED
    BY <2>1, <2>2, <1>4, Zenon
<1>6. CASE live' = [live EXCEPT !.stopped = TRUE]
  BY <1>6, <1>4, Zenon
<1> QED
  BY <1>2, <1>3, <1>5, <1>6

\* The request goes on, or gives the lock back.
LEMMA CallStays ==
  ASSUME Types, UNCHANGED made, call' = call \/ call' = Free
  PROVE  CallGoes
BY DEF Types, TypeOK, CallGoes, CallRows, Free

\* The request moves on to another place, for a job there is.
LEMMA CallAt ==
  ASSUME Types, UNCHANGED made, NEW pc \in Places, NEW j \in 1..made,
         NEW k \in Nat, At(pc, j, k)
  PROVE  /\ CallGoes
         /\ call'.pc = pc /\ call'.job = j /\ call'.key = k
<1>1. call' = [pc |-> pc, job |-> j, key |-> k] /\ j \in 0..made /\ j # 0
  BY DEF At, Types, TypeOK
<1> QED
  BY <1>1 DEF CallGoes, CallRows

\* Who holds the lock does so for a job there is.
LEMMA Holder ==
  ASSUME Types, call.pc # "free"
  PROVE  call.job \in 1..made /\ call.job \in Jobs /\ call.key \in Nat
<1>1. call \in CallRows /\ made \in 0..MaxJobs /\ call.job # 0
  BY DEF Types, TypeOK, CallRows
<1>2. call.job \in 0..made /\ call.key \in Nat
  BY <1>1 DEF CallRows
<1> QED
  BY <1>1, <1>2, PreviewAssumption DEF Jobs

MayBecome(j, s) ==
    \/ s = job[j].state
    \/ job[j].pub = Nothing
    \/ s \notin Past /\ (job[j].signed \/ job[j].state \notin Past)
    \/ s \in Past /\ (job[j].signed => Over(j))

\* A request, the timer or the build sets the state of a row.
LEMMA Marked ==
  ASSUME PreviewInv, NEW j \in Jobs, NEW s \in States,
         job' = [job EXCEPT ![j].state = s], MayBecome(j, s),
         s = "hosted" => job[j].pub # Nothing,
         LiveGoes, CallGoes, call.pc # "packaging", Held',
         UNCHANGED <<source, made, renewal, journal, store, market, agreed,
                     crashes>>
  PROVE  PreviewInv'
<1>1. Types /\ TypeOK
  BY DEF PreviewInv, Types
<1>2. /\ job' \in [Jobs -> JobRows]
      /\ job'[j].state = s
      /\ \A i \in Jobs : i # j => job'[i] = job[i]
      /\ \A i \in Jobs : SameRequests(i)
  BY <1>1, StateSet
<1>3. Types'
  BY <1>1, <1>2
    DEF Types, TypeOK, LiveGoes, CallGoes, market, LiveRows, CallRows
<1>4. SameEntries
  BY <1>1, Untouched
<1>5. ASSUME NEW i \in Jobs PROVE StateKept(i)
  <2>1. CASE i = j
    BY <2>1, <1>2, Zenon DEF StateKept, MayBecome
  <2>2. CASE i # j
    BY <2>2, <1>2, Zenon DEF StateKept
  <2> QED
    BY <2>1, <2>2
<1>6. ASSUME NEW i \in Jobs, job'[i].state = "hosted"
      PROVE  job[i].pub # Nothing
  BY <1>2, <1>6 DEF PreviewInv, Stored, StoredOf
<1>7. \A k \in 1..Len(journal') :
         journal'[k].decision = "withdraw" =>
            journal'[k].expects = journal'[k].job
  BY DEF PreviewInv, Sends
<1> QED
  BY <1>2, <1>3, <1>4, <1>5, <1>6, <1>7, Steady DEF LiveGoes

\* Steps that set no row.
LEMMA Noted ==
  ASSUME PreviewInv, UNCHANGED job, SameEntries, journal' \in Seq(Entries),
         \A k \in 1..Len(journal') :
            journal'[k].decision = "withdraw" =>
               journal'[k].expects = journal'[k].job,
         LiveGoes, CallGoes,
         call.pc = "packaging" => call' = call \/ live'.job = 0,
         Held', source' \in 0..MaxChanges, crashes' \in 0..MaxCrashes,
         renewal' \in [old : 0..made, new : 0..made],
         renewal'.new # 0 => renewal'.old # 0,
         UNCHANGED <<made, store, market, agreed>>
  PROVE  PreviewInv'
<1>1. Types /\ TypeOK
  BY DEF PreviewInv, Types
<1>2. Types'
  <2>1. sent' \subseteq 1..Len(journal')
    BY <1>1 DEF TypeOK, SameEntries, market
  <2> QED
    BY <1>1, <2>1
      DEF Types, TypeOK, LiveGoes, CallGoes, market, LiveRows, CallRows
<1>3. \A i \in Jobs : SameRequests(i) /\ StateKept(i)
  BY DEF SameRequests, StateKept
<1>4. \A i \in Jobs : job'[i].state = "hosted" => job[i].pub # Nothing
  BY DEF PreviewInv, Stored, StoredOf
<1> QED
  BY <1>2, <1>3, <1>4, Steady DEF LiveGoes

-----------------------------------------------------------------------------
(* Requests that mark a row *)

\* The types, of the invariant.
LEMMA InvTypes ==
  ASSUME PreviewInv
  PROVE  Types /\ TypeOK
BY DEF PreviewInv, Types

\* The job in memory is one of the jobs, and its preview is not packaged.
LEMMA LiveJob ==
  ASSUME PreviewInv, live.job # 0
  PROVE  /\ live.job \in Jobs /\ live.job \in 1..made
         /\ Runs(live.job) => job[live.job].pub = Nothing
<1>1. live \in LiveRows /\ made \in 0..MaxJobs
  BY DEF PreviewInv, Types, TypeOK, LiveRows
<1>2. live.job \in 0..made
  BY <1>1 DEF LiveRows
<1>3. live.job \in Jobs /\ live.job \in 1..made
  BY <1>1, <1>2, PreviewAssumption DEF Jobs
<1> QED
  BY <1>3 DEF PreviewInv, Stored, StoredOf

\* A created job is one of the jobs.
LEMMA MadeJob ==
  ASSUME PreviewInv, NEW j \in 1..made
  PROVE  j \in Jobs /\ j \in 0..made /\ j \in Nat
<1>1. made \in 0..MaxJobs
  BY DEF PreviewInv, Types, TypeOK
<1> QED
  BY <1>1, PreviewAssumption DEF Jobs

\* review: the rows can be read.
LEMMA ReviewReadyInv ==
  ASSUME PreviewInv, ReviewReady
  PROVE  PreviewInv'
<1> DEFINE j == live.job
           s == IF job[j].state # "building" THEN job[j].state
                ELSE IF job[j].rows = Nothing THEN "ready" ELSE "selected"
<1>1. Types /\ TypeOK
  BY InvTypes
<1>2. live.job # 0 /\ Runs(live.job)
  BY <1>1 DEF ReviewReady, Types
<1>3. j \in Jobs /\ job[j].pub = Nothing
  BY <1>2, LiveJob
<1>4. s \in States
  <2>1. job[j] \in JobRows
    BY <1>1, <1>3 DEF TypeOK
  <2>2. job[j].state \in States
    BY <2>1 DEF JobRows
  <2>3. {"ready", "selected"} \subseteq States
    BY DEF States, Reviewing
  <2> QED
    BY <2>2, <2>3
<1>5. job' = [job EXCEPT ![j].state = s]
  BY DEF ReviewReady
<1>6. s = "hosted" => FALSE
  BY <1>3 DEF PreviewInv, Stored, StoredOf
<1>7. LiveGoes
  <2>1. live \in LiveRows
    BY <1>1 DEF TypeOK, LiveRows
  <2>2. /\ live' \in LiveRows /\ live'.job = live.job
        /\ live'.package = live.package /\ live'.stopped = live.stopped
    BY <2>1 DEF ReviewReady, LiveRows
  <2>3. \A i \in Jobs : Runs(i)' => Runs(i)
    BY <2>2, Zenon DEF Runs
  <2> QED
    BY <1>2, <2>2, <2>3 DEF LiveGoes, LiveKept
<1>8. call.pc = "free" /\ call' = call
  BY DEF ReviewReady, Unlocked
<1>9. CallGoes
  BY <1>1, <1>8, CallStays DEF ReviewReady
<1>10. Held'
  BY <1>8, HeldFree
<1>11. MayBecome(j, s)
  BY <1>3 DEF MayBecome
<1>12. UNCHANGED <<source, made, renewal, journal, store, market, agreed,
                   crashes>>
  BY DEF ReviewReady
<1> HIDE DEF s, j
<1> QED
  BY <1>3, <1>4, <1>5, <1>6, <1>7, <1>8, <1>9, <1>10, <1>11, <1>12, Marked

\* What Marked asks of a request that ends in one write.
LEMMA MarkedFree ==
  ASSUME PreviewInv, NEW j \in Jobs, NEW s \in States,
         job' = [job EXCEPT ![j].state = s], MayBecome(j, s),
         s # "hosted", call.pc # "packaging",
         live' = live \/ live' = Stopped(j) \/ live' = NoLive
           \/ live' = [live EXCEPT !.stopped = TRUE],
         (call' = call /\ call.pc = "free") \/ call' = Free,
         UNCHANGED <<source, made, renewal, journal, store, market, agreed,
                     crashes>>
  PROVE  PreviewInv'
<1>1. Types
  BY InvTypes
<1>2. LiveGoes
  BY <1>1, LiveStops
<1>3. CallGoes
  BY <1>1, CallStays
<1>4. Held'
  BY HeldFree DEF Free
<1> QED
  BY <1>2, <1>3, <1>4, Marked

\* The build ends early, or its review expires.
LEMMA StopsInv ==
  ASSUME PreviewInv, NEW s \in {"failed", "expired"}, Stops(s)
  PROVE  PreviewInv'
<1>1. live.job # 0 /\ Runs(live.job)
  BY DEF Stops, Runs
<1>2. live.job \in Jobs /\ job[live.job].pub = Nothing
  BY <1>1, LiveJob
<1>3. MayBecome(live.job, s)
  BY <1>2 DEF MayBecome
<1>4. s \in States /\ s # "hosted"
  BY DEF States, Inactive
<1> QED
  BY <1>2, <1>3, <1>4, MarkedFree DEF Stops, Unlocked

\* load: a review whose rows are gone is closed.
LEMMA LapseInv ==
  ASSUME PreviewInv, NEW j \in Jobs, Lapse(j)
  PROVE  PreviewInv'
<1>1. MayBecome(j, "expired")
  BY DEF MayBecome, Past, Lapse, Lapsed, Reviewing
<1>2. "expired" \in States /\ UNCHANGED <<live, call, renewal>>
  BY DEF States, Inactive, Lapse, memory
<1> QED
  BY <1>1, <1>2, MarkedFree DEF Lapse, Unlocked

\* check_source: the job of a changed source fails.
LEMMA SourceRefusedInv ==
  ASSUME PreviewInv, NEW j \in Jobs, SourceRefused(j)
  PROVE  PreviewInv'
<1>1. MayBecome(j, "failed")
  BY DEF MayBecome, Past, SourceRefused, Inactive
<1>2. "failed" \in States
  BY DEF States, Inactive
<1> QED
  BY <1>1, <1>2, MarkedFree DEF SourceRefused, Unlocked

\* cancel.
LEMMA CancelInv ==
  ASSUME PreviewInv, NEW j \in Jobs, Cancel(j)
  PROVE  PreviewInv'
<1>1. MayBecome(j, "cancelled")
  BY DEF MayBecome, Cancel
<1>2. "cancelled" \in States
  BY DEF States, Inactive
<1> QED
  BY <1>1, <1>2, MarkedFree DEF Cancel, Unlocked

\* submit: the answer is saved in the row.
LEMMA SubmitSavedInv ==
  ASSUME PreviewInv, SubmitSaved
  PROVE  PreviewInv'
<1>1. call.job \in Jobs
  BY InvTypes, Holder DEF SubmitSaved
<1>2. MayBecome(call.job, "submitted")
  BY DEF MayBecome, Past, SubmitSaved, PreviewInv, Held
<1>3. "submitted" \in States
  BY DEF States
<1> QED
  BY <1>1, <1>2, <1>3, MarkedFree DEF SubmitSaved

\* withdraw: the receipts are saved in the row.
LEMMA RetiredSavedInv ==
  ASSUME PreviewInv, RetiredSaved
  PROVE  PreviewInv'
<1>1. call.job \in Jobs
  BY InvTypes, Holder DEF RetiredSaved
<1>2. job[call.job].state = "withdrawn"
  BY DEF RetiredSaved, PreviewInv, Held
<1>3. job[call.job].signed => Over(call.job)
  BY <1>1, <1>2, Zenon DEF PreviewInv, Ended, EndedOf
<1>4. MayBecome(call.job, "retired")
  BY <1>3 DEF MayBecome, Past
<1>5. "retired" \in States
  BY DEF States, Inactive
<1> QED
  BY <1>1, <1>4, <1>5, MarkedFree DEF RetiredSaved

\* withdraw: the row is withdrawn before the hosted copy is retired.
LEMMA WithdrawSavedInv ==
  ASSUME PreviewInv, WithdrawSaved
  PROVE  PreviewInv'
<1>1. Types /\ TypeOK
  BY InvTypes
<1>0. PICK j \in Jobs : j = call.job
  BY <1>1, Holder DEF WithdrawSaved
<1>2. j \in 1..made /\ 0 \in Nat
  BY <1>0, <1>1, Holder DEF WithdrawSaved
<1>3. (job[j].signed => Over(j)) /\ job[j].pub # Nothing
  BY <1>0 DEF WithdrawSaved, PreviewInv, Held, Withdrawing
<1>4. MayBecome(j, "withdrawn")
  BY <1>3 DEF MayBecome, Past
<1>5. "withdrawn" \in States /\ "retiring" \in Places
  BY DEF States, Inactive, Places
<1>6. LiveGoes
  BY <1>1, LiveStops DEF WithdrawSaved
<1>7. CallGoes /\ call'.pc = "retiring" /\ call'.job = j
  <2>1. At("retiring", j, 0) /\ UNCHANGED made
    BY <1>0 DEF WithdrawSaved
  <2> QED
    BY <1>1, <1>2, <1>5, <2>1, CallAt
<1>8. /\ job'[j].state = "withdrawn" /\ job'[j].pub = job[j].pub
      /\ job'[j].signed = job[j].signed
  BY <1>0, <1>1, <1>5, StateSet DEF WithdrawSaved, SameRequests
<1>9. Over(j)' <=> Over(j)
  BY <1>1, <1>2, Untouched, OverSame DEF WithdrawSaved, market
<1>10. Held'
  <2>1. (job'[j].signed => Over(j)') /\ job'[j].pub # Nothing
    BY <1>3, <1>8, <1>9, Zenon
  <2> QED
    BY <1>7, <1>8, <2>1, HeldAfter
<1>11. call.pc # "packaging"
  BY DEF WithdrawSaved
<1>12. /\ job' = [job EXCEPT ![j].state = "withdrawn"]
       /\ UNCHANGED <<source, made, renewal, journal, store, market, agreed,
                      crashes>>
  BY <1>0 DEF WithdrawSaved
<1> QED
  BY <1>2, <1>4, <1>5, <1>6, <1>7, <1>10, <1>11, <1>12, Marked

-----------------------------------------------------------------------------
(* Requests that set no row *)

\* Noted, of the steps that leave journal, build and bounds alone.
LEMMA NotedOnly ==
  ASSUME PreviewInv, UNCHANGED <<job, live, journal, renewal, source, crashes>>,
         call.pc # "packaging", CallGoes, Held',
         UNCHANGED <<made, store, market, agreed>>
  PROVE  PreviewInv'
<1>1. Types /\ TypeOK
  BY InvTypes
<1>2. LiveGoes
  BY <1>1, LiveStops
<1>3. SameEntries
  BY <1>1, Untouched
<1>4. /\ journal' \in Seq(Entries)
      /\ source' \in 0..MaxChanges /\ crashes' \in 0..MaxCrashes
      /\ renewal' \in [old : 0..made, new : 0..made]
      /\ renewal'.new # 0 => renewal'.old # 0
  BY <1>1 DEF Types, TypeOK
<1>5. \A k \in 1..Len(journal') :
         journal'[k].decision = "withdraw" =>
            journal'[k].expects = journal'[k].job
  BY DEF PreviewInv, Sends
<1> QED
  BY <1>2, <1>3, <1>4, <1>5, Noted

\* Noted, of the steps after which the lock is free.
LEMMA NotedFree ==
  ASSUME PreviewInv, UNCHANGED <<job, journal, made, store, market, agreed>>,
         live' = live \/ live' = NoLive,
         (call' = call /\ call.pc = "free") \/ call' = Free,
         call.pc = "packaging" => live' = NoLive,
         source' \in 0..MaxChanges, crashes' \in 0..MaxCrashes,
         renewal' \in [old : 0..made, new : 0..made],
         renewal'.new # 0 => renewal'.old # 0
  PROVE  PreviewInv'
<1>1. Types /\ TypeOK
  BY InvTypes
<1>2. LiveGoes
  BY <1>1, LiveStops
<1>3. SameEntries /\ journal' \in Seq(Entries)
  BY <1>1, Untouched DEF TypeOK
<1>4. CallGoes
  BY <1>1, CallStays
<1>5. Held'
  BY HeldFree DEF Free
<1>6. \A k \in 1..Len(journal') :
         journal'[k].decision = "withdraw" =>
            journal'[k].expects = journal'[k].job
  BY DEF PreviewInv, Sends
<1>7. call.pc = "packaging" => live'.job = 0
  BY DEF NoLive
<1> QED
  BY <1>2, <1>3, <1>4, <1>5, <1>6, <1>7, Noted

\* The types a step may need of the rest.
LEMMA RenewalTypes ==
  ASSUME PreviewInv
  PROVE  /\ source \in 0..MaxChanges /\ crashes \in 0..MaxCrashes
         /\ renewal \in [old : 0..made, new : 0..made]
         /\ renewal.new # 0 => renewal.old # 0
         /\ made \in 0..MaxJobs
BY DEF PreviewInv, Types, TypeOK

\* run: the thread takes itself off.
LEMMA LiveEndsInv ==
  ASSUME PreviewInv, LiveEnds
  PROVE  PreviewInv'
BY NotedFree, RenewalTypes DEF LiveEnds, Unlocked

\* The process dies and starts again.
LEMMA CrashRestartInv ==
  ASSUME PreviewInv, CrashRestart
  PROVE  PreviewInv'
<1>1. crashes' \in 0..MaxCrashes
  BY RenewalTypes, PreviewAssumption DEF CrashRestart
<1>2. /\ renewal' \in [old : 0..made, new : 0..made]
      /\ renewal'.new = 0
  BY RenewalTypes, PreviewAssumption DEF CrashRestart, NoRenewal
<1> QED
  BY <1>1, <1>2, NotedFree, RenewalTypes DEF CrashRestart

\* submit, withdraw: no answer, nothing saved.
LEMMA UnansweredInv ==
  ASSUME PreviewInv, Unanswered
  PROVE  PreviewInv'
<1>1. call.pc # "packaging"
  BY DEF Unanswered
<1> QED
  BY <1>1, NotedFree, RenewalTypes DEF Unanswered

\* retire: the hosted copy is still there.
LEMMA NoReceiptsInv ==
  ASSUME PreviewInv, NoReceipts
  PROVE  PreviewInv'
<1>1. call.pc # "packaging"
  BY DEF NoReceipts
<1> QED
  BY <1>1, NotedFree, RenewalTypes DEF NoReceipts

\* refresh: its first locked section.
LEMMA RefreshInv ==
  ASSUME PreviewInv, NEW j \in Jobs, Refresh(j)
  PROVE  PreviewInv'
<1>1. j \in 0..made
  BY MadeJob DEF Refresh, Current
<1>2. /\ renewal' \in [old : 0..made, new : 0..made]
      /\ renewal'.new = 0
  BY <1>1, RenewalTypes, PreviewAssumption DEF Refresh
<1> QED
  BY <1>2, NotedFree, RenewalTypes DEF Refresh, Unlocked

\* The source changes, or a refresh is given up, whoever holds the lock.
LEMMA BesidesInv ==
  ASSUME PreviewInv, UNCHANGED <<job, live, call, journal, made, store, market,
                                 agreed, crashes>>,
         source' \in 0..MaxChanges,
         renewal' \in [old : 0..made, new : 0..made],
         renewal'.new # 0 => renewal'.old # 0
  PROVE  PreviewInv'
<1>1. Types /\ TypeOK
  BY InvTypes
<1>2. LiveGoes
  BY <1>1, LiveStops
<1>3. SameEntries /\ journal' \in Seq(Entries)
  BY <1>1, Untouched DEF TypeOK
<1>4. CallGoes
  BY <1>1, CallStays
<1>5. Held'
  <2>1. call.job \in 0..made
    BY <1>1 DEF TypeOK
  <2>2. \A j \in 0..made : Over(j) => Over(j)'
    BY DEF Over, market
  <2> QED
    BY <2>1, <2>2, HeldKept DEF PreviewInv
<1>6. \A k \in 1..Len(journal') :
         journal'[k].decision = "withdraw" =>
            journal'[k].expects = journal'[k].job
  BY DEF PreviewInv, Sends
<1> QED
  BY <1>2, <1>3, <1>4, <1>5, <1>6, Noted, RenewalTypes

\* The source file changes.
LEMMA SourceChangesInv ==
  ASSUME PreviewInv, SourceChanges
  PROVE  PreviewInv'
<1>1. source' \in 0..MaxChanges
  BY RenewalTypes, PreviewAssumption DEF SourceChanges
<1> QED
  BY <1>1, RenewalTypes, BesidesInv DEF SourceChanges, memory

\* refresh: its create is refused.
LEMMA RefreshRefusedInv ==
  ASSUME PreviewInv, RefreshRefused
  PROVE  PreviewInv'
<1>1. /\ renewal' \in [old : 0..made, new : 0..made]
      /\ renewal'.new = 0
  BY RenewalTypes, PreviewAssumption DEF RefreshRefused, NoRenewal
<1> QED
  BY <1>1, RenewalTypes, BesidesInv DEF RefreshRefused

\* withdraw: nothing at the marketplace.
LEMMA WithdrawHostedInv ==
  ASSUME PreviewInv, NEW j \in Jobs, WithdrawHosted(j)
  PROVE  PreviewInv'
<1>1. Types
  BY InvTypes
<1>2. j \in 1..made /\ 0 \in Nat /\ "withdrawn" \in Places
  BY DEF WithdrawHosted, Withdrawable, Places
<1>3. CallGoes /\ call'.pc = "withdrawn" /\ call'.job = j
  <2>1. At("withdrawn", j, 0) /\ UNCHANGED made
    BY DEF WithdrawHosted
  <2> QED
    BY <1>1, <1>2, <2>1, CallAt
<1>4. job[j].pub # Nothing /\ (job[j].signed => Over(j))
  BY Zenon
    DEF WithdrawHosted, Withdrawable, AtMarket, PreviewInv, Ended, EndedOf
<1>5. Over(j)' <=> Over(j)
  BY InvTypes, Untouched, OverSame DEF WithdrawHosted, market
<1>6. Held'
  <2>1. job'[j].pub # Nothing /\ (job'[j].signed => Over(j)')
    BY <1>4, <1>5, Zenon DEF WithdrawHosted
  <2> QED
    BY <1>3, <2>1, HeldAfter
<1>7. call.pc = "free"
  BY DEF WithdrawHosted, Withdrawable, Unlocked
<1> QED
  BY <1>3, <1>6, <1>7, NotedOnly DEF WithdrawHosted

-----------------------------------------------------------------------------
(* Requests that write the journal *)

\* Noted, of the steps that write the journal and move the request on.
LEMMA Written ==
  ASSUME PreviewInv, SameEntries, journal' \in Seq(Entries),
         \A k \in 1..Len(journal') :
            journal'[k].decision = "withdraw" =>
               journal'[k].expects = journal'[k].job,
         call.pc # "packaging", CallGoes, Held',
         UNCHANGED <<job, live, renewal, source, crashes, made, store, market,
                     agreed>>
  PROVE  PreviewInv'
<1>1. LiveGoes
  BY InvTypes, LiveStops
<1> QED
  BY <1>1, Noted, RenewalTypes

\* A request frozen in the journal.
LEMMA Frozen ==
  ASSUME PreviewInv, UNCHANGED made, NEW e \in Entries,
         NEW pc \in {"freezing", "revoking"},
         Freezes(e, pc), e.job \in 1..made,
         e.decision = "withdraw" => e.expects = e.job
  PROVE  /\ SameEntries /\ journal' \in Seq(Entries) /\ CallGoes
         /\ \A k \in 1..Len(journal') :
               journal'[k].decision = "withdraw" =>
                  journal'[k].expects = journal'[k].job
         /\ call'.pc = pc /\ call'.job = e.job
         /\ call'.key \in 1..Len(journal') /\ journal'[call'.key] = e
<1>1. TypeOK /\ Types
  BY InvTypes
<1>2. /\ journal' = Append(journal, e)
      /\ At(pc, e.job, Len(journal) + 1)
  BY DEF Freezes
<1>3. /\ journal' \in Seq(Entries)
      /\ Len(journal') = Len(journal) + 1
      /\ journal'[Len(journal) + 1] = e
      /\ SameEntries
  BY <1>1, <1>2, Appended
<1>4. Len(journal) + 1 \in Nat /\ Len(journal) \in Nat
  BY <1>1 DEF TypeOK
<1>5. CallGoes /\ call'.pc = pc /\ call'.job = e.job
      /\ call'.key = Len(journal) + 1
  <2>1. pc \in Places
    BY DEF Places
  <2> QED
    BY <1>1, <1>2, <1>4, <2>1, CallAt
<1>6. Len(journal) + 1 \in 1..Len(journal')
  BY <1>3, <1>4
<1>7. ASSUME NEW k \in 1..Len(journal'), journal'[k].decision = "withdraw"
      PROVE  journal'[k].expects = journal'[k].job
  <2>1. CASE k = Len(journal) + 1
    BY <2>1, <1>3, <1>7, Zenon
  <2>2. CASE k \in 1..Len(journal)
    BY <2>2, <1>3, <1>7 DEF SameEntries, PreviewInv, Sends
  <2> QED
    BY <1>3, <1>4, <2>1, <2>2
<1> QED
  BY <1>3, <1>5, <1>6, <1>7

\* The types of a row's fields.
LEMMA RowTypes ==
  ASSUME PreviewInv, NEW j \in Jobs
  PROVE  /\ job[j].state \in States /\ job[j].rows \in Rows
         /\ job[j].pub \in Rows /\ job[j].prior \in 0..MaxJobs
         /\ job[j].signed \in BOOLEAN /\ job[j].origin \in BOOLEAN
         /\ job[j].key \in Nat /\ job[j].pubkey \in Nat
         /\ job[j].version \in 0..MaxChanges
         /\ job[j] \in JobRows
<1>1. job[j] \in JobRows
  BY InvTypes DEF TypeOK
<1> QED
  BY <1>1 DEF JobRows

\* candidate: an approval is frozen.
LEMMA CandidateInv ==
  ASSUME PreviewInv, NEW j \in Jobs, Candidate(j)
  PROVE  PreviewInv' /\ SameEntries
<1> DEFINE e == Request(j, "approve", job[j].prior, job[j].rows)
<1>1. /\ e \in Entries /\ e.job = j /\ e.decision = "approve"
      /\ e.rows = job[j].rows
  BY RowTypes DEF Request, Entries
<1>2. /\ Freezes(e, "freezing") /\ j \in 1..made /\ UNCHANGED made
      /\ job[j].state = "hosted" /\ ~job[j].signed
      /\ job[j].rows = job[j].pub /\ call.pc = "free"
      /\ UNCHANGED <<job, live, renewal, source, crashes, made, store, market,
                     agreed>>
  BY DEF Candidate, Current, Unlocked
<1> HIDE DEF e
<1>3. /\ SameEntries /\ journal' \in Seq(Entries) /\ CallGoes
      /\ \A k \in 1..Len(journal') :
            journal'[k].decision = "withdraw" =>
               journal'[k].expects = journal'[k].job
      /\ call'.pc = "freezing" /\ call'.job = j
      /\ call'.key \in 1..Len(journal') /\ journal'[call'.key] = e
  BY <1>1, <1>2, Frozen
<1>4. job[j].pub # Nothing
  BY <1>2 DEF PreviewInv, Stored, StoredOf
<1>5. Held'
  BY <1>1, <1>2, <1>3, <1>4 DEF Held, Withdrawing
<1> QED
  BY <1>2, <1>3, <1>5, Written

\* withdraw: a withdrawal is frozen.
LEMMA WithdrawInv ==
  ASSUME PreviewInv, NEW j \in Jobs, Withdraw(j)
  PROVE  PreviewInv' /\ SameEntries
<1> DEFINE e == Request(j, "withdraw", j, Nothing)
<1>1. /\ e \in Entries /\ e.job = j /\ e.decision = "withdraw" /\ e.expects = j
  BY DEF Request, Entries, Rows, Jobs
<1>2. /\ Freezes(e, "revoking") /\ j \in 1..made
      /\ job[j].signed /\ job[j].pub # Nothing /\ call.pc = "free"
      /\ UNCHANGED <<job, live, renewal, source, crashes, made, store, market,
                     agreed>>
  BY DEF Withdraw, Withdrawable, AtMarket, Unlocked
<1> HIDE DEF e
<1>3. /\ SameEntries /\ journal' \in Seq(Entries) /\ CallGoes
      /\ \A k \in 1..Len(journal') :
            journal'[k].decision = "withdraw" =>
               journal'[k].expects = journal'[k].job
      /\ call'.pc = "revoking" /\ call'.job = j
      /\ call'.key \in 1..Len(journal') /\ journal'[call'.key] = e
  BY <1>1, <1>2, Frozen
<1>4. Held'
  BY <1>1, <1>2, <1>3 DEF Held, Withdrawing
<1> QED
  BY <1>2, <1>3, <1>4, Written

\* An entry that only changes state.
LEMMA MovedEntry ==
  ASSUME PreviewInv, NEW k \in 1..Len(journal),
         NEW s \in {"signed_candidate", "submitted", "retirement_pending",
                    "retired"},
         journal' = [journal EXCEPT ![k].state = s]
  PROVE  /\ SameEntries /\ journal' \in Seq(Entries)
         /\ \A l \in 1..Len(journal') :
               journal'[l].decision = "withdraw" =>
                  journal'[l].expects = journal'[l].job
<1>1. /\ SameEntries /\ journal' \in Seq(Entries)
      /\ Len(journal') = Len(journal)
  BY InvTypes, Moved
<1> QED
  BY <1>1 DEF SameEntries, PreviewInv, Sends

\* The states of an entry.
LEMMA EntryState ==
  ASSUME PreviewInv, NEW k \in 1..Len(journal)
  PROVE  journal[k].state \in {"signed_candidate", "submitted",
                               "retirement_pending", "retired"}
<1>1. journal[k] \in Entries
  BY InvTypes DEF TypeOK
<1> QED
  BY <1>1 DEF Entries

\* submit, withdraw: the answer is noted in the journal.
LEMMA AnswerNotedInv ==
  ASSUME PreviewInv, AnswerNoted
  PROVE  PreviewInv' /\ SameEntries
<1>1. Types /\ TypeOK
  BY InvTypes
<1>2. PICK j \in Jobs : j = call.job
  BY <1>1, Holder DEF AnswerNoted
<1>3. PICK k \in 1..Len(journal) : k = call.key
  BY <1>1 DEF AnswerNoted, TypeOK
<1>4. j \in 1..made /\ k \in Nat
  BY <1>1, <1>2, Holder DEF AnswerNoted
<1> DEFINE s == IF journal[k].state = "signed_candidate" THEN "submitted"
                ELSE journal[k].state
           pc == IF call.pc = "approving" THEN "approved" ELSE "withdrawn"
<1>5. s \in {"signed_candidate", "submitted", "retirement_pending", "retired"}
  BY EntryState
<1>6. journal' = [journal EXCEPT ![k].state = s]
  BY <1>3 DEF AnswerNoted
<1>7. pc \in Places /\ At(pc, j, k)
  BY <1>2, <1>3 DEF AnswerNoted, Places
<1>8. /\ UNCHANGED <<job, live, renewal, source, crashes, made, store, market,
                     agreed>>
      /\ call.pc \in {"approving", "withdrawing"} /\ k \in taken
  BY <1>3 DEF AnswerNoted
<1> HIDE DEF s
<1>9. /\ SameEntries /\ journal' \in Seq(Entries)
      /\ \A l \in 1..Len(journal') :
            journal'[l].decision = "withdraw" =>
               journal'[l].expects = journal'[l].job
  BY <1>5, <1>6, MovedEntry
<1>10. CallGoes /\ call'.pc = pc /\ call'.job = j
  BY <1>1, <1>4, <1>7, <1>8, CallAt
<1>11. Held'
  <2>1. job[j].signed
    BY <1>2, <1>8 DEF PreviewInv, Held
  <2>2. CASE call.pc = "approving"
    BY <2>1, <2>2, <1>8, <1>10 DEF Held, Withdrawing
  <2>3. CASE call.pc = "withdrawing"
    <3>1. /\ journal[k].decision = "withdraw" /\ journal[k].job = j
          /\ job[j].pub # Nothing
      BY <1>2, <1>3, <2>3 DEF PreviewInv, Held, Withdrawing
    <3>2. Over(j)
      BY <1>8, <3>1 DEF Over
    <3>3. Over(j)'
      BY <1>1, <1>8, <1>9, <3>2, OverSame DEF market
    <3> QED
      BY <1>8, <1>10, <2>3, <3>1, <3>3, HeldAfter
  <2> QED
    BY <1>8, <2>2, <2>3
<1> QED
  BY <1>8, <1>9, <1>10, <1>11, Written

\* retire: pending is noted before the store is touched.
LEMMA RetirementPendingInv ==
  ASSUME PreviewInv, RetirementPending
  PROVE  PreviewInv' /\ SameEntries
<1>1. Types /\ TypeOK
  BY InvTypes
<1>2. PICK j \in Jobs : j = call.job
  BY <1>1, Holder DEF RetirementPending
<1>3. /\ call.pc = "retiring" /\ job[j].signed
      /\ UNCHANGED <<job, live, renewal, source, crashes, made, store, market,
                     agreed>>
  BY <1>2 DEF RetirementPending
<1>4. j \in 1..made /\ 0 \in Nat
  BY <1>1, <1>2, <1>3, Holder
<1>5. PICK k \in 1..Len(journal) : k = Publication(j)
  BY <1>3 DEF PreviewInv, Keys, KeysOf
<1> DEFINE s == IF journal[k].state = "retired" THEN journal[k].state
                ELSE "retirement_pending"
           pc == IF journal[k].state = "retired" THEN "retired" ELSE "closing"
<1>6. s \in {"signed_candidate", "submitted", "retirement_pending", "retired"}
  BY EntryState
<1>7. journal' = [journal EXCEPT ![k].state = s]
  BY <1>2, <1>5 DEF RetirementPending
<1>8. pc \in Places /\ At(pc, j, 0) /\ pc \in {"retired", "closing"}
  BY <1>2, <1>5 DEF RetirementPending, Places
<1> HIDE DEF s, pc
<1>9. /\ SameEntries /\ journal' \in Seq(Entries)
      /\ \A l \in 1..Len(journal') :
            journal'[l].decision = "withdraw" =>
               journal'[l].expects = journal'[l].job
  BY <1>6, <1>7, MovedEntry
<1>10. CallGoes /\ call'.pc = pc /\ call'.job = j
  BY <1>1, <1>3, <1>4, <1>8, CallAt
<1>11. /\ job[j].pub # Nothing /\ job[j].state = "withdrawn" /\ Over(j)
  BY <1>2, <1>3 DEF PreviewInv, Held, Withdrawing
<1>12. Over(j)'
  BY <1>1, <1>3, <1>9, <1>11, OverSame DEF market
<1>13. Held'
  BY <1>3, <1>8, <1>10, <1>11, <1>12, HeldAfter
<1> QED
  BY <1>3, <1>9, <1>10, <1>13, Written

\* retire: the receipts are noted.
LEMMA ReceiptsInv ==
  ASSUME PreviewInv, Receipts
  PROVE  PreviewInv' /\ SameEntries
<1>1. Types /\ TypeOK
  BY InvTypes
<1>2. PICK j \in Jobs : j = call.job
  BY <1>1, Holder DEF Receipts
<1>3. /\ call.pc = "receipts"
      /\ UNCHANGED <<job, live, renewal, source, crashes, made, store, market,
                     agreed>>
  BY <1>2 DEF Receipts
<1>4. j \in 1..made /\ 0 \in Nat /\ "retired" \in Places
  BY <1>1, <1>2, <1>3, Holder DEF Places
<1>9. /\ SameEntries /\ journal' \in Seq(Entries)
      /\ \A l \in 1..Len(journal') :
            journal'[l].decision = "withdraw" =>
               journal'[l].expects = journal'[l].job
  <2>1. CASE job[j].signed
    <3>1. PICK k \in 1..Len(journal) : k = Publication(j)
      BY <2>1 DEF PreviewInv, Keys, KeysOf
    <3>2. journal' = [journal EXCEPT ![k].state = "retired"]
      BY <1>2, <2>1, <3>1 DEF Receipts
    <3> QED
      BY <3>2, MovedEntry
  <2>2. CASE ~job[j].signed
    <3>1. journal' = journal
      BY <1>2, <2>2 DEF Receipts
    <3>2. SameEntries /\ journal' \in Seq(Entries)
      BY <3>1, <1>1, Untouched DEF TypeOK
    <3> QED
      BY <3>1, <3>2 DEF PreviewInv, Sends
  <2> QED
    BY <2>1, <2>2
<1>10. CallGoes /\ call'.pc = "retired" /\ call'.job = j
  <2>1. At("retired", j, 0)
    BY <1>2 DEF Receipts
  <2> QED
    BY <1>1, <1>3, <1>4, <2>1, CallAt
<1>11. job[j].pub # Nothing /\ job[j].state = "withdrawn"
  BY <1>2, <1>3 DEF PreviewInv, Held, Withdrawing
<1>13. Held'
  BY <1>3, <1>10, <1>11, HeldAfter
<1> QED
  BY <1>3, <1>9, <1>10, <1>13, Written

-----------------------------------------------------------------------------
(* Requests that fill a row *)

\* Rows left alone keep their part of the invariant.
LEMMA Elsewhere ==
  ASSUME TypeOK, SameEntries, UNCHANGED <<taken, shown>>,
         NEW i \in Jobs, SameRequests(i)
  PROVE  /\ KeysOf(i) => KeysOf(i)'
         /\ EndedOf(i) /\ job'[i].state = job[i].state /\ store'[i] = store[i]
               => EndedOf(i)'
<1>1. Publication(i)' = Publication(i)
  BY PublicationKept
<1>2. Over(i)' <=> Over(i)
  BY OverSame
<1>3. /\ Len(journal) \in Nat
      /\ \A k \in 1..Len(journal) : k \in 1..Len(journal')
  BY DEF SameEntries, TypeOK
<1>4. KeysOf(i) => KeysOf(i)'
  BY <1>1, <1>3 DEF KeysOf, SameEntries, SameRequests
<1>5. EndedOf(i) /\ job'[i].state = job[i].state /\ store'[i] = store[i]
         => EndedOf(i)'
  BY <1>1, <1>2, Zenon DEF EndedOf, SameRequests
<1> QED
  BY <1>4, <1>5

\* What was sent stays sent for a signed job.
LEMMA SendsRows ==
  ASSUME TypeOK, Sends, UNCHANGED journal,
         \A k \in sent' : k \in sent \/ journal[k].decision = "withdraw",
         \A j \in Jobs : job[j].signed =>
            /\ job'[j].signed
            /\ (IF job'[j].pubkey # 0 THEN job'[j].pubkey ELSE job'[j].key)
                  = Publication(j)
  PROVE  Sends'
<1>1. ASSUME NEW k \in sent', journal[k].decision = "approve"
      PROVE  /\ job'[journal[k].job].signed
             /\ k = IF job'[journal[k].job].pubkey # 0
                    THEN job'[journal[k].job].pubkey
                    ELSE job'[journal[k].job].key
  <2>1. k \in 1..Len(journal) /\ k \in sent
    BY <1>1 DEF TypeOK
  <2>2. journal[k].job \in Jobs
    <3>1. journal[k] \in Entries
      BY <2>1 DEF TypeOK
    <3> QED
      BY <3>1 DEF Entries
  <2>3. job[journal[k].job].signed /\ k = Publication(journal[k].job)
    BY <1>1, <2>1 DEF Sends
  <2> QED
    BY <2>2, <2>3
<1>2. \A k \in 1..Len(journal) :
         journal[k].decision = "withdraw" => journal[k].expects = journal[k].job
  BY DEF Sends
<1> QED
  BY <1>1, <1>2 DEF Sends, Publication

\* Marked, of a whole row.
LEMMA Rewritten ==
  ASSUME PreviewInv, NEW j \in Jobs, NEW r \in JobRows,
         job' = [job EXCEPT ![j] = r],
         r.signed = job[j].signed, r.pub = job[j].pub, r.key = job[j].key,
         r.pubkey = job[j].pubkey, MayBecome(j, r.state),
         r.state = "hosted" => job[j].pub # Nothing,
         Unlocked, UNCHANGED call, renewal' \in {renewal, NoRenewal},
         UNCHANGED <<source, made, live, journal, store, market, agreed,
                     crashes>>
  PROVE  PreviewInv'
<1>1. Types /\ TypeOK
  BY InvTypes
<1>2. /\ job' \in [Jobs -> JobRows] /\ job'[j] = r
      /\ \A i \in Jobs : i # j => job'[i] = job[i]
  BY <1>1, RowSet
<1>3. LiveGoes /\ SameEntries
  BY <1>1, LiveStops, Untouched
<1>4. Types'
  <2>1. /\ renewal' \in [old : 0..made, new : 0..made]
        /\ renewal'.new # 0 => renewal'.old # 0
    BY RenewalTypes, PreviewAssumption DEF NoRenewal
  <2> QED
    BY <1>1, <1>2, <2>1 DEF Types, TypeOK, market
<1>5. ASSUME NEW i \in Jobs
      PROVE  /\ SameRequests(i) /\ StateKept(i)
             /\ job'[i].state = "hosted" => job[i].pub # Nothing
  <2>1. CASE i = j
    BY <2>1, <1>2, Zenon DEF SameRequests, StateKept, MayBecome
  <2>2. CASE i # j
    <3>1. job'[i] = job[i]
      BY <2>2, <1>2
    <3> QED
      BY <3>1 DEF SameRequests, StateKept, PreviewInv, Stored, StoredOf
  <2> QED
    BY <2>1, <2>2
<1>6. Held'
  BY HeldFree DEF Unlocked
<1>7. \A k \in 1..Len(journal') :
         journal'[k].decision = "withdraw" =>
            journal'[k].expects = journal'[k].job
  BY DEF PreviewInv, Sends
<1> QED
  BY <1>3, <1>4, <1>5, <1>6, <1>7, Steady DEF LiveGoes, Unlocked

\* origin_check: the hosted copy is the package.
LEMMA OriginCheckInv ==
  ASSUME PreviewInv, NEW j \in Jobs, OriginCheck(j)
  PROVE  PreviewInv'
<1> DEFINE r == [job[j] EXCEPT !.state = "hosted", !.origin = TRUE]
<1>1. job[j] \in JobRows
  BY RowTypes
<1>2. /\ r \in JobRows
      /\ r.signed = job[j].signed /\ r.pub = job[j].pub /\ r.key = job[j].key
      /\ r.pubkey = job[j].pubkey /\ r.state = "hosted"
  BY <1>1 DEF JobRows, States
<1>3. job' = [job EXCEPT ![j] = r]
  BY DEF OriginCheck
<1>4. /\ Unlocked /\ job[j].pub # Nothing /\ job[j].state \notin Inactive
      /\ UNCHANGED <<source, made, live, call, renewal, journal, store, market,
                     agreed, crashes>>
  BY DEF OriginCheck, Current, memory
<1>5. MayBecome(j, "hosted")
  BY <1>4 DEF MayBecome, Past, Inactive
<1> HIDE DEF r
<1> QED
  BY <1>2, <1>3, <1>4, <1>5, Rewritten

\* refresh: its last locked section.
LEMMA RefreshFillsInv ==
  ASSUME PreviewInv, RefreshFills
  PROVE  PreviewInv'
<1>1. renewal.new \in Jobs /\ renewal.old \in Jobs /\ renewal.old \in 0..MaxJobs
  <2>1. /\ renewal \in [old : 0..made, new : 0..made] /\ made \in 0..MaxJobs
        /\ renewal.new # 0 /\ renewal.old # 0
    BY RenewalTypes DEF RefreshFills
  <2>2. renewal.old \in 0..made /\ renewal.new \in 0..made
    BY <2>1
  <2> QED
    BY <2>1, <2>2, PreviewAssumption DEF Jobs
<1>2. PICK j \in Jobs : j = renewal.new
  BY <1>1
<1> DEFINE row == IF Lapsed(j) THEN [job[j] EXCEPT !.state = "expired"]
                  ELSE job[j]
           r == Renewed(row, renewal.old)
<1>3. job[j] \in JobRows /\ job[renewal.old].rows \in Rows
  BY <1>1, RowTypes
<1>4. /\ row \in JobRows
      /\ row.signed = job[j].signed /\ row.pub = job[j].pub
      /\ row.key = job[j].key /\ row.pubkey = job[j].pubkey
      /\ \/ row.state = job[j].state
         \/ row.state = "expired" /\ job[j].state \in Reviewing
  <2>1. CASE Lapsed(j)
    BY <2>1, <1>3 DEF JobRows, States, Inactive, Lapsed
  <2>2. CASE ~Lapsed(j)
    BY <2>2, <1>3
  <2> QED
    BY <2>1, <2>2
<1> HIDE DEF row
<1>5. /\ r \in JobRows
      /\ r.signed = job[j].signed /\ r.pub = job[j].pub /\ r.key = job[j].key
      /\ r.pubkey = job[j].pubkey /\ r.state = row.state
  BY <1>1, <1>3, <1>4 DEF Renewed, JobRows
<1>6. job' = [job EXCEPT ![j] = r]
  BY <1>2 DEF RefreshFills, row
<1>7. MayBecome(j, r.state)
  BY <1>4, <1>5 DEF MayBecome, Past, Reviewing
<1>8. r.state = "hosted" => job[j].pub # Nothing
  BY <1>4, <1>5 DEF PreviewInv, Stored, StoredOf
<1>9. /\ Unlocked /\ renewal' = NoRenewal
      /\ UNCHANGED <<source, made, live, call, journal, store, market, agreed,
                     crashes>>
  BY DEF RefreshFills
<1> HIDE DEF r
<1> QED
  BY <1>5, <1>6, <1>7, <1>8, <1>9, Rewritten

-----------------------------------------------------------------------------
(* Requests that change what is agreed, packaged, signed, shown, retired *)

\* A new job's row.
LEMMA NewJobInv ==
  ASSUME PreviewInv, NewJob, Unlocked, UNCHANGED call,
         \/ renewal' = renewal
         \/ renewal' = [renewal EXCEPT !.new = made'] /\ renewal.old # 0,
         UNCHANGED <<source, journal, store, market, agreed, crashes>>
  PROVE  PreviewInv'
<1>1. Types /\ TypeOK
  BY InvTypes
<1>2. made \in Nat /\ made' = made + 1 /\ made' \in 0..MaxJobs
  BY <1>1, PreviewAssumption DEF NewJob, TypeOK
<1>3. PICK j \in Jobs : j = made'
  BY <1>2, PreviewAssumption DEF Jobs
<1> DEFINE r == NewRow(source)
<1>4. /\ r \in JobRows /\ r.state = "building" /\ r.pub = Nothing
      /\ r.signed = FALSE /\ r.key = 0 /\ r.pubkey = 0
  <2>1. source \in 0..MaxChanges /\ 0 \in 0..MaxJobs
    BY <1>1, PreviewAssumption DEF TypeOK
  <2> QED
    BY <2>1 DEF NewRow, JobRows, States, Reviewing, Rows
<1>5. job' = [job EXCEPT ![j] = r]
  BY <1>3 DEF NewJob
<1> HIDE DEF r
<1>6. /\ job' \in [Jobs -> JobRows] /\ job'[j] = r
      /\ \A i \in Jobs : i # j => job'[i] = job[i]
  BY <1>1, <1>4, <1>5, RowSet
<1>7. /\ live' \in [job : 0..made', phase : {"none", "building", "review"},
                    stopped : BOOLEAN, package : Rows]
      /\ live'.job = j /\ live'.package = Nothing /\ live.job = 0
  BY <1>2, <1>3 DEF NewJob, Rows
<1>8. /\ j > made /\ j # 0 /\ j <= made'
      /\ store[j] = Nothing /\ job[j].pub = Nothing /\ agreed[j] = Nothing
      /\ ~job[j].signed
  BY <1>2, <1>3 DEF PreviewInv, Stored, StoredOf
<1>9. Types'
  <2>1. renewal' \in [old : 0..made', new : 0..made']
    <3>1. renewal \in [old : 0..made', new : 0..made'] /\ made' \in 0..made'
      BY <1>1, <1>2 DEF TypeOK
    <3> QED
      BY <3>1
  <2>2. renewal'.new # 0 => renewal'.old # 0
    BY <1>1, <2>1 DEF Types, TypeOK
  <2>3. call' \in [pc : {"free"} \cup Places, job : 0..made', key : Nat]
    BY <1>1, <1>2 DEF TypeOK
  <2>4. /\ call'.pc # "free" => call'.job # 0
        /\ live'.phase # "none" => live'.job # 0
    BY <1>7, <1>8 DEF Unlocked
  <2> QED
    BY <1>1, <1>2, <1>6, <1>7, <2>1, <2>2, <2>3, <2>4 DEF Types, TypeOK, market
<1>10. SameEntries
  BY <1>1, Untouched
<1>11. Keys'
  <2> SUFFICES ASSUME NEW i \in Jobs PROVE KeysOf(i)'
    BY DEF Keys
  <2>1. CASE i = j
    BY <2>1, <1>4, <1>6 DEF KeysOf
  <2>2. CASE i # j
    BY <2>2, <1>1, <1>6, <1>10, Elsewhere
      DEF SameRequests, PreviewInv, Keys, market
  <2> QED
    BY <2>1, <2>2
<1>12. Sends'
  <2>1. \A i \in Jobs : job[i].signed => job'[i] = job[i]
    BY <1>6, <1>8
  <2> QED
    BY <1>1, <2>1, SendsRows DEF PreviewInv, Publication, market
<1>13. Stored'
  <2> SUFFICES ASSUME NEW i \in Jobs PROVE StoredOf(i)'
    BY DEF Stored
  <2>1. StoredOf(i) /\ Nothing # Gone
    BY PreviewAssumption DEF PreviewInv, Stored
  <2>2. CASE i = j
    BY <2>2, <1>4, <1>6, <1>7, <1>8, <2>1 DEF StoredOf
  <2>3. CASE i # j
    <3>1. job'[i] = job[i] /\ live'.job # i /\ (i > made' => i > made)
      BY <2>3, <1>2, <1>6, <1>7 DEF Jobs
    <3> QED
      BY <2>1, <3>1 DEF StoredOf, Runs
  <2> QED
    BY <2>2, <2>3
<1>14. Ended'
  <2> SUFFICES ASSUME NEW i \in Jobs PROVE EndedOf(i)'
    BY DEF Ended
  <2>1. EndedOf(i)
    BY DEF PreviewInv, Ended
  <2>2. CASE i = j
    <3>1. Over(i)' <=> Over(i)
      BY <1>1, <1>10, OverSame DEF market
    <3>2. ~job'[i].signed /\ store'[i] # Gone /\ ~Over(i) /\ shown'.preview # i
      BY <2>1, <2>2, <1>4, <1>6, <1>8, PreviewAssumption DEF EndedOf, market
    <3> QED
      BY <3>1, <3>2, Zenon DEF EndedOf
  <2>3. CASE i # j
    BY <2>1, <2>3, <1>1, <1>6, <1>10, Elsewhere DEF SameRequests, market
  <2> QED
    BY <2>2, <2>3
<1>15. Held'
  BY HeldFree DEF Unlocked
<1> QED
  BY <1>9, <1>11, <1>12, <1>13, <1>14, <1>15 DEF PreviewInv

\* create.
LEMMA CreateInv ==
  ASSUME PreviewInv, Create
  PROVE  PreviewInv'
BY NewJobInv DEF Create

\* refresh: its create.
LEMMA RefreshCreatesInv ==
  ASSUME PreviewInv, RefreshCreates
  PROVE  PreviewInv'
BY NewJobInv DEF RefreshCreates

\* select and scan: the row, the package in memory and the consent.
LEMMA Reviewed ==
  ASSUME PreviewInv, NEW j \in Jobs, Editable(j), NEW r \in JobRows,
         NEW p \in Rows,
         job' = [job EXCEPT ![j] = r], r.state \in {"selected", "scanned"},
         r.signed = job[j].signed, r.pub = job[j].pub, r.key = job[j].key,
         r.pubkey = job[j].pubkey,
         live' = [live EXCEPT !.package = p],
         agreed' = [agreed EXCEPT ![j] = p],
         UNCHANGED <<source, made, call, renewal, journal, store, market,
                     crashes>>
  PROVE  PreviewInv'
<1>1. Types /\ TypeOK
  BY InvTypes
<1>2. /\ job' \in [Jobs -> JobRows] /\ job'[j] = r
      /\ \A i \in Jobs : i # j => job'[i] = job[i]
  BY <1>1, RowSet
<1>3. /\ Runs(j) /\ live.job = j /\ job[j].pub = Nothing /\ ~job[j].signed
      /\ j \in 1..made /\ call.pc = "free" /\ job[j].state \notin Inactive
  BY DEF Editable, Active, Current, Runs, Unlocked
<1>4. /\ live' \in LiveRows /\ live'.job = live.job /\ live'.phase = live.phase
      /\ live'.stopped = live.stopped /\ live'.package = p
  <2>1. live \in LiveRows
    BY <1>1 DEF TypeOK, LiveRows
  <2> QED
    BY <2>1 DEF LiveRows
<1>5. /\ agreed' \in [Jobs -> Rows] /\ agreed'[j] = p
      /\ \A i \in Jobs : i # j => agreed'[i] = agreed[i]
  BY <1>1 DEF TypeOK
<1>6. Types'
  BY <1>1, <1>2, <1>3, <1>4, <1>5 DEF Types, TypeOK, market, LiveRows
<1>7. SameEntries
  BY <1>1, Untouched
<1>8. \A i \in Jobs : SameRequests(i)
  <2> TAKE i \in Jobs
  <2>1. CASE i = j
    BY <2>1, <1>2, Zenon DEF SameRequests
  <2>2. CASE i # j
    BY <2>2, <1>2, Zenon DEF SameRequests
  <2> QED
    BY <2>1, <2>2
<1>9. Keys'
  BY <1>1, <1>7, <1>8, KeysKept DEF PreviewInv
<1>10. Sends'
  <2>1. \A k \in 1..Len(journal') :
         journal'[k].decision = "withdraw" =>
            journal'[k].expects = journal'[k].job
    BY DEF PreviewInv, Sends
  <2> QED
    BY <1>1, <1>7, <1>8, <2>1, SendsKept DEF PreviewInv, market
<1>11. Stored'
  <2> SUFFICES ASSUME NEW i \in Jobs PROVE StoredOf(i)'
    BY DEF Stored
  <2>1. StoredOf(i)
    BY DEF PreviewInv, Stored
  <2>2. CASE i = j
    <3>1. /\ store[j] = Nothing /\ Nothing # Gone
          /\ ~(j > made)
      BY <2>1, <2>2, <1>3, RenewalTypes, PreviewAssumption DEF StoredOf, Jobs
    <3>2. job'[j].pub = Nothing /\ job'[j].state # "hosted"
      BY <1>2, <1>3
    <3> QED
      BY <2>2, <3>1, <3>2, <1>3, <1>4, <1>5 DEF StoredOf
  <2>3. CASE i # j
    <3>1. job'[i] = job[i] /\ live'.job # i /\ agreed'[i] = agreed[i]
      BY <2>3, <1>2, <1>3, <1>4, <1>5
    <3> QED
      BY <2>1, <3>1 DEF StoredOf, Runs
  <2> QED
    BY <2>2, <2>3
<1>12. Ended'
  <2>1. \A i \in Jobs : StateKept(i)
    BY <1>2, <1>3, Zenon DEF StateKept
  <2> QED
    BY <1>1, <1>7, <1>8, <2>1, EndedKept DEF PreviewInv, market
<1>13. Held'
  BY <1>3, HeldFree
<1> QED
  BY <1>6, <1>9, <1>10, <1>11, <1>12, <1>13 DEF PreviewInv

\* select: the consent is void, and so is the package.
LEMMA SelectInv ==
  ASSUME PreviewInv, NEW j \in Jobs, NEW rows \in Selections, Select(j, rows)
  PROVE  PreviewInv'
<1> DEFINE r == [job[j] EXCEPT !.rows = rows, !.state = "selected"]
<1>1. job[j] \in JobRows
  BY RowTypes
<1>2. /\ r \in JobRows /\ r.state = "selected" /\ Nothing \in Rows
      /\ r.signed = job[j].signed /\ r.pub = job[j].pub /\ r.key = job[j].key
      /\ r.pubkey = job[j].pubkey
  BY <1>1 DEF JobRows, States, Reviewing, Rows
<1>3. job' = [job EXCEPT ![j] = r]
  BY DEF Select
<1> HIDE DEF r
<1> QED
  BY <1>2, <1>3, Reviewed DEF Select

\* scan: the consent is for the rows packaged.
LEMMA ScanInv ==
  ASSUME PreviewInv, NEW j \in Jobs, NEW passed \in BOOLEAN, Scan(j, passed)
  PROVE  PreviewInv'
<1> DEFINE s == IF passed THEN "scanned" ELSE "selected"
           r == [job[j] EXCEPT !.state = s]
           p == IF passed THEN job[j].rows ELSE Nothing
<1>1. job[j] \in JobRows /\ s \in {"scanned", "selected"} /\ p \in Rows
  BY RowTypes DEF Rows
<1>3. /\ job' = [job EXCEPT ![j] = r] /\ Editable(j)
      /\ live' = [live EXCEPT !.package = p]
      /\ agreed' = [agreed EXCEPT ![j] = p]
      /\ UNCHANGED <<source, made, call, renewal, journal, store, market,
                     crashes>>
  BY DEF Scan
<1> HIDE DEF s, p
<1>2. /\ r \in JobRows /\ r.state = s
      /\ r.signed = job[j].signed /\ r.pub = job[j].pub /\ r.key = job[j].key
      /\ r.pubkey = job[j].pubkey
  BY <1>1 DEF JobRows, States, Reviewing
<1> HIDE DEF r
<1> QED
  BY <1>1, <1>2, <1>3, Reviewed

\* PublicationStore.export.
LEMMA PackageInv ==
  ASSUME PreviewInv, NEW j \in Jobs, Package(j)
  PROVE  PreviewInv'
<1>1. Types /\ TypeOK
  BY InvTypes
<1>2. /\ Runs(j) /\ live.job = j /\ job[j].pub = Nothing /\ ~job[j].signed
      /\ j \in 1..made /\ live.package # Nothing
      /\ UNCHANGED <<source, made, job, live, renewal, journal, market, agreed,
                     crashes>>
  BY DEF Package, Editable, Active, Current, Runs
<1>3. live.package \in Rows /\ live.package # Gone /\ Nothing # Gone
  <2>1. live.package \in Rows /\ Gone \notin Rows
    BY <1>1, PreviewAssumption DEF TypeOK, Rows
  <2> QED
    BY <2>1, PreviewAssumption
<1>4. /\ store' \in [Jobs -> Rows \cup {Gone}] /\ store'[j] = live.package
      /\ \A i \in Jobs : i # j => store'[i] = store[i]
  BY <1>1, <1>3 DEF Package, TypeOK
<1>5. CallGoes /\ call'.pc = "packaging" /\ call'.job = j
  <2>1. At("packaging", j, 0) /\ 0 \in Nat /\ "packaging" \in Places
    BY DEF Package, Places
  <2> QED
    BY <1>1, <1>2, <2>1, CallAt
<1>6. Types'
  BY <1>1, <1>2, <1>4, <1>5 DEF Types, TypeOK, market, CallGoes, CallRows
<1>7. SameEntries /\ \A i \in Jobs : SameRequests(i)
  BY <1>1, <1>2, Untouched DEF SameRequests
<1>8. Keys'
  BY <1>1, <1>7, KeysKept DEF PreviewInv
<1>9. Sends'
  BY <1>2 DEF PreviewInv, Sends, Publication, market
<1>10. Stored'
  <2> SUFFICES ASSUME NEW i \in Jobs PROVE StoredOf(i)'
    BY DEF Stored
  <2>1. StoredOf(i)
    BY DEF PreviewInv, Stored
  <2>2. CASE i = j
    <3>1. ~(j > made)
      BY <1>2, RenewalTypes, PreviewAssumption
    <3> QED
      BY <2>1, <2>2, <3>1, <1>2, <1>3, <1>4, <1>5 DEF StoredOf, Runs
  <2>3. CASE i # j
    BY <2>1, <2>3, <1>2, <1>4 DEF StoredOf, Runs
  <2> QED
    BY <2>2, <2>3
<1>11. Ended'
  <2> SUFFICES ASSUME NEW i \in Jobs PROVE EndedOf(i)'
    BY DEF Ended
  <2>1. EndedOf(i)
    BY DEF PreviewInv, Ended
  <2>2. CASE i = j
    <3>1. Over(i)' <=> Over(i)
      BY <1>1, <1>2, <1>7, OverSame DEF market
    <3>2. /\ ~job'[i].signed /\ store'[i] # Gone /\ ~Over(i)
          /\ shown'.preview # i
      BY <2>1, <2>2, <1>2, <1>3, <1>4 DEF EndedOf, market
    <3> QED
      BY <3>1, <3>2, Zenon DEF EndedOf
  <2>3. CASE i # j
    BY <2>1, <2>3, <1>1, <1>2, <1>4, <1>7, Elsewhere DEF market
  <2> QED
    BY <2>2, <2>3
<1>12. Held'
  BY <1>2, <1>4, <1>5 DEF Held, Withdrawing
<1> QED
  BY <1>6, <1>8, <1>9, <1>10, <1>11, <1>12 DEF PreviewInv

\* The row that tells of the export.
LEMMA PackageSavedInv ==
  ASSUME PreviewInv, PackageSaved
  PROVE  PreviewInv'
<1>1. Types /\ TypeOK
  BY InvTypes
<1>2. PICK j \in Jobs : j = call.job
  BY <1>1, Holder DEF PackageSaved
<1> DEFINE p == live.package
           r == [job[j] EXCEPT !.state = "packaged", !.pub = p]
<1>3. /\ live.job = j /\ p # Nothing /\ store[j] = p
      /\ job[j].pub = Nothing /\ ~job[j].signed /\ j \in 1..made
  BY <1>1, <1>2, Holder DEF PackageSaved, PreviewInv, Held
<1>4. p \in Rows /\ p # Gone
  <2>1. p \in Rows /\ Gone \notin Rows
    BY <1>1, PreviewAssumption DEF TypeOK, Rows
  <2> QED
    BY <2>1
<1>5. /\ job' = [job EXCEPT ![j] = r] /\ live' = Stopped(j)
      /\ call' = Free
      /\ UNCHANGED <<source, made, renewal, journal, store, market, agreed,
                     crashes>>
  BY <1>2 DEF PackageSaved
<1>6. job[j] \in JobRows
  BY RowTypes
<1> HIDE DEF p
<1>7. /\ r \in JobRows /\ r.state = "packaged" /\ r.pub = p
      /\ r.signed = job[j].signed /\ r.key = job[j].key
      /\ r.pubkey = job[j].pubkey
  BY <1>4, <1>6 DEF JobRows, States
<1> HIDE DEF r
<1>8. /\ job' \in [Jobs -> JobRows] /\ job'[j] = r
      /\ \A i \in Jobs : i # j => job'[i] = job[i]
  BY <1>1, <1>5, <1>7, RowSet
<1>9. LiveGoes /\ CallGoes /\ call'.pc = "free"
  BY <1>1, <1>5, LiveStops, CallStays DEF Free
<1>10. Types'
  BY <1>1, <1>5, <1>8, <1>9
    DEF Types, TypeOK, market, CallGoes, CallRows, LiveGoes, LiveRows
<1>11. SameEntries
  BY <1>1, <1>5, Untouched
<1>12. Keys'
  <2> SUFFICES ASSUME NEW i \in Jobs PROVE KeysOf(i)'
    BY DEF Keys
  <2>1. KeysOf(i)
    BY DEF PreviewInv, Keys
  <2>2. CASE i = j
    BY <2>1, <2>2, <1>3, <1>7, <1>8 DEF KeysOf
  <2>3. CASE i # j
    BY <2>1, <2>3, <1>1, <1>5, <1>8, <1>11, Elsewhere DEF SameRequests, market
  <2> QED
    BY <2>2, <2>3
<1>13. Sends'
  <2>1. \A i \in Jobs : job[i].signed => job'[i] = job[i]
    BY <1>3, <1>8
  <2> QED
    BY <1>1, <1>5, <2>1, SendsRows DEF PreviewInv, Publication, market
<1>14. Stored'
  <2> SUFFICES ASSUME NEW i \in Jobs PROVE StoredOf(i)'
    BY DEF Stored
  <2>1. StoredOf(i)
    BY DEF PreviewInv, Stored
  <2>2. CASE i = j
    <3>1. ~(j > made)
      BY <1>3, RenewalTypes, PreviewAssumption
    <3>2. live'.stopped
      BY <1>1, <1>3, <1>5 DEF Stopped, TypeOK
    <3>3. ~Runs(j)'
      BY <3>2 DEF Runs
    <3>4. live'.job = j => live'.package = live.package
      BY <1>9 DEF LiveGoes, LiveKept
    <3>5. /\ job'[j].pub = p /\ job'[j].state = "packaged"
          /\ store'[j] = p /\ agreed' = agreed /\ made' = made
      BY <1>3, <1>5, <1>7, <1>8
    <3> QED
      BY <2>1, <2>2, <3>1, <3>3, <3>4, <3>5, <1>3 DEF StoredOf
  <2>3. CASE i # j
    <3>1. /\ live'.job = i => live.job = i /\ live'.package = live.package
          /\ Runs(i)' => Runs(i)
          /\ job'[i] = job[i]
      BY <2>3, <1>8, <1>9 DEF LiveGoes, LiveKept
    <3>2. live'.job # i
      BY <3>1, <2>3, <1>3
    <3> QED
      BY <2>1, <2>3, <3>1, <3>2, <1>5 DEF StoredOf
  <2> QED
    BY <2>2, <2>3
<1>15. Ended'
  <2> SUFFICES ASSUME NEW i \in Jobs PROVE EndedOf(i)'
    BY DEF Ended
  <2>1. EndedOf(i)
    BY DEF PreviewInv, Ended
  <2>2. CASE i = j
    <3>1. Over(i)' <=> Over(i)
      BY <1>1, <1>5, <1>11, OverSame DEF market
    <3>2. /\ ~job'[i].signed /\ store'[i] # Gone /\ ~Over(i)
          /\ shown'.preview # i
      BY <2>1, <2>2, <1>3, <1>4, <1>5, <1>7, <1>8 DEF EndedOf, market
    <3> QED
      BY <3>1, <3>2, Zenon DEF EndedOf
  <2>3. CASE i # j
    BY <2>1, <2>3, <1>1, <1>5, <1>8, <1>11, Elsewhere DEF SameRequests, market
  <2> QED
    BY <2>2, <2>3
<1>16. Held'
  BY <1>9, HeldFree
<1> QED
  BY <1>10, <1>12, <1>13, <1>14, <1>15, <1>16 DEF PreviewInv

\* The job's row, after its request is frozen in the journal.
LEMMA FreezeSavedInv ==
  ASSUME PreviewInv, FreezeSaved
  PROVE  PreviewInv'
<1>1. Types /\ TypeOK
  BY InvTypes
<1>2. PICK j \in Jobs : j = call.job
  BY <1>1, Holder DEF FreezeSaved
<1>3. PICK k \in Nat : k = call.key
  BY <1>1, Holder DEF FreezeSaved
<1> DEFINE q == IF call.pc = "freezing" \/ job[j].pubkey # 0 THEN job[j].pubkey
                ELSE job[j].key
           r == [job[j] EXCEPT !.state = "signed_candidate", !.signed = TRUE,
                               !.key = k, !.pubkey = q]
<1>4. /\ k \in 1..Len(journal) /\ journal[k].job = j
      /\ j \in 1..made /\ job[j].pub # Nothing
      /\ call.pc \in {"freezing", "revoking"}
  <2>1. call.pc \in {"freezing", "revoking"}
    BY DEF FreezeSaved
  <2> QED
    BY <1>1, <1>2, <1>3, <2>1, Holder DEF PreviewInv, Held, Withdrawing
<1>5. /\ job' = [job EXCEPT ![j] = r]
      /\ UNCHANGED <<source, made, live, renewal, journal, store, taken, shown,
                     agreed, crashes>>
  BY <1>2, <1>3 DEF FreezeSaved
<1>6. job[j] \in JobRows /\ job[j].key \in Nat /\ job[j].pubkey \in Nat
  BY RowTypes
<1>7. q \in Nat
  BY <1>6
<1>8. KeysOf(j) /\ StoredOf(j) /\ EndedOf(j)
  BY DEF PreviewInv, Keys, Stored, Ended
<1>10. call.pc = "revoking" =>
         /\ journal[k].decision = "withdraw" /\ job[j].signed
         /\ q = Publication(j) /\ q # 0
  <2>1. ASSUME call.pc = "revoking"
        PROVE  journal[k].decision = "withdraw" /\ job[j].signed
    BY <1>2, <1>3, <2>1 DEF PreviewInv, Held
  <2>2. ASSUME call.pc = "revoking"
        PROVE  q = Publication(j) /\ q # 0
    <3>1. job[j].signed /\ Len(journal) \in Nat
      BY <1>1, <2>1, <2>2 DEF TypeOK
    <3>2. Publication(j) \in 1..Len(journal)
      BY <1>8, <3>1 DEF KeysOf
    <3>3. q = Publication(j)
      BY <2>2 DEF Publication
    <3> QED
      BY <3>1, <3>2, <3>3
  <2> QED
    BY <2>1, <2>2
<1>11. call.pc = "freezing" =>
         /\ journal[k].decision = "approve" /\ journal[k].rows = job[j].pub
         /\ ~job[j].signed /\ job[j].state = "hosted" /\ q = 0
  <2>1. ASSUME call.pc = "freezing"
        PROVE  /\ journal[k].decision = "approve"
               /\ journal[k].rows = job[j].pub
               /\ ~job[j].signed /\ job[j].state = "hosted"
    BY <1>2, <1>3, <2>1 DEF PreviewInv, Held
  <2>2. ASSUME call.pc = "freezing" PROVE q = 0
    BY <1>8, <2>1, <2>2 DEF KeysOf
  <2> QED
    BY <2>1, <2>2
<1> HIDE DEF q
<1>12. /\ r \in JobRows /\ r.state = "signed_candidate" /\ r.signed = TRUE
       /\ r.key = k /\ r.pubkey = q /\ r.pub = job[j].pub
  BY <1>6, <1>7 DEF JobRows, States
<1> HIDE DEF r
<1>13. /\ job' \in [Jobs -> JobRows] /\ job'[j] = r
       /\ \A i \in Jobs : i # j => job'[i] = job[i]
  BY <1>1, <1>5, <1>12, RowSet
<1>14. /\ call.pc = "freezing" => call' = Free /\ sent' = sent
       /\ call.pc = "revoking" =>
             /\ call'.pc = "withdrawing" /\ call'.job = j /\ call'.key = k
             /\ CallGoes /\ sent' = sent \cup {k}
  <2>1. ASSUME call.pc = "revoking"
        PROVE  At("withdrawing", j, k) /\ sent' = sent \cup {k}
    BY <1>2, <1>3, <2>1 DEF FreezeSaved
  <2>2. ASSUME call.pc = "revoking"
        PROVE  /\ call'.pc = "withdrawing" /\ call'.job = j /\ call'.key = k
               /\ CallGoes
    <3>1. "withdrawing" \in Places /\ UNCHANGED made
      BY <1>5 DEF Places
    <3> QED
      BY <1>1, <1>4, <2>1, <2>2, <3>1, CallAt
  <2>3. ASSUME call.pc = "freezing" PROVE call' = Free /\ sent' = sent
    BY <2>3 DEF FreezeSaved
  <2> QED
    BY <2>1, <2>2, <2>3
<1>15. CallGoes
  BY <1>1, <1>4, <1>5, <1>14, CallStays
<1>16. Types'
  <2>1. sent' \subseteq 1..Len(journal') /\ taken' \subseteq sent'
    BY <1>1, <1>4, <1>5, <1>14 DEF TypeOK
  <2> QED
    BY <1>1, <1>5, <1>13, <1>15, <2>1 DEF Types, TypeOK, CallGoes, CallRows
<1>17. SameEntries
  BY <1>1, <1>5, Untouched
<1>18. Publication(j)' = IF call.pc = "freezing" THEN k ELSE Publication(j)
  <2>1. Publication(j)' = IF q # 0 THEN q ELSE k
    BY <1>12, <1>13 DEF Publication
  <2> QED
    BY <1>4, <1>10, <1>11, <2>1
<1>19. Keys'
  <2> SUFFICES ASSUME NEW i \in Jobs PROVE KeysOf(i)'
    BY DEF Keys
  <2>1. CASE i = j
    <3>1. /\ job'[j].signed /\ job'[j].pub = job[j].pub /\ job'[j].key = k
          /\ job'[j].pubkey = q
      BY <1>12, <1>13
    <3>2. CASE call.pc = "freezing"
      BY <3>1, <3>2, <2>1, <1>4, <1>5, <1>11, <1>18 DEF KeysOf
    <3>3. CASE call.pc = "revoking"
      BY <3>1, <3>3, <2>1, <1>4, <1>5, <1>8, <1>10, <1>18 DEF KeysOf
    <3> QED
      BY <1>4, <3>2, <3>3
  <2>2. CASE i # j
    <3>1. KeysOf(i)
      BY DEF PreviewInv, Keys
    <3> QED
      BY <2>2, <3>1, <1>1, <1>5, <1>13, <1>17, Elsewhere DEF SameRequests
  <2> QED
    BY <2>1, <2>2
<1>20. Sends'
  <2>1. \A l \in sent' : l \in sent \/ journal[l].decision = "withdraw"
    BY <1>4, <1>10, <1>14
  <2>2. ASSUME NEW i \in Jobs, job[i].signed
        PROVE  /\ job'[i].signed
               /\ (IF job'[i].pubkey # 0 THEN job'[i].pubkey ELSE job'[i].key)
                     = Publication(i)
    <3>1. CASE i = j
      BY <2>2, <3>1, <1>4, <1>10, <1>11, <1>12, <1>13
    <3>2. CASE i # j
      BY <2>2, <3>2, <1>13 DEF Publication
    <3> QED
      BY <3>1, <3>2
  <2> QED
    BY <1>1, <1>5, <2>1, <2>2, SendsRows DEF PreviewInv
<1>21. Stored'
  <2> SUFFICES ASSUME NEW i \in Jobs PROVE StoredOf(i)'
    BY DEF Stored
  <2>1. StoredOf(i)
    BY DEF PreviewInv, Stored
  <2>2. CASE i = j
    <3>1. ~(j > made)
      BY <1>4, RenewalTypes, PreviewAssumption
    <3>2. job'[j].pub = job[j].pub /\ job'[j].state # "hosted"
      BY <1>12, <1>13
    <3> QED
      BY <2>1, <2>2, <3>1, <3>2, <1>4, <1>5 DEF StoredOf, Runs
  <2>3. CASE i # j
    <3>1. job'[i] = job[i] /\ call.pc # "packaging"
      BY <2>3, <1>4, <1>13
    <3> QED
      BY <2>1, <3>1, <1>5 DEF StoredOf, Runs
  <2> QED
    BY <2>2, <2>3
<1>22. Ended'
  <2> SUFFICES ASSUME NEW i \in Jobs PROVE EndedOf(i)'
    BY DEF Ended
  <2>1. CASE i = j
    <3>1. Over(j)' <=> Over(j)
      BY <1>1, <1>5, <1>17, OverSame
    <3>2. /\ job'[j].signed /\ job'[j].state = "signed_candidate"
          /\ store' = store /\ shown' = shown /\ taken' = taken
      BY <1>5, <1>12, <1>13
    <3>3. CASE call.pc = "freezing"
      <4>1. ~Over(j) /\ shown.preview # j /\ store[j] # Gone
        BY <1>8, <1>11, <3>3 DEF EndedOf
      <4> QED
        BY <2>1, <3>1, <3>2, <4>1 DEF EndedOf
    <3>4. CASE call.pc = "revoking"
      <4>1. /\ Over(j) => Publication(j) \in taken /\ shown.preview # j
            /\ shown.preview = j => Publication(j) \in taken
            /\ Over(j) \/ store[j] # Gone
        BY <1>8, <1>10, <3>4, Zenon DEF EndedOf
      <4>2. Publication(j)' = Publication(j)
        BY <1>18, <3>4
      <4> QED
        BY <2>1, <3>1, <3>2, <4>1, <4>2 DEF EndedOf
    <3> QED
      BY <1>4, <3>3, <3>4
  <2>2. CASE i # j
    <3>1. EndedOf(i)
      BY DEF PreviewInv, Ended
    <3> QED
      BY <2>2, <3>1, <1>1, <1>5, <1>13, <1>17, Elsewhere DEF SameRequests
  <2> QED
    BY <2>1, <2>2
<1>23. Held'
  <2>1. CASE call.pc = "freezing"
    BY <2>1, <1>14, HeldFree DEF Free
  <2>2. CASE call.pc = "revoking"
    <3>1. /\ job'[j].signed /\ job'[j].pub # Nothing
          /\ journal' = journal /\ journal[k].decision = "withdraw"
      BY <2>2, <1>4, <1>5, <1>10, <1>12, <1>13
    <3> QED
      BY <2>2, <3>1, <1>4, <1>14 DEF Held, Withdrawing
  <2> QED
    BY <1>4, <2>1, <2>2
<1> QED
  BY <1>16, <1>19, <1>20, <1>21, <1>22, <1>23 DEF PreviewInv

\* What is sent is the job's publication.
LEMMA SubmitInv ==
  ASSUME PreviewInv, NEW j \in Jobs, Submit(j)
  PROVE  PreviewInv'
<1>1. Types /\ TypeOK
  BY InvTypes
<1> DEFINE k == job[j].key
<1>2. /\ j \in 1..made /\ job[j].signed /\ call.pc = "free"
      /\ journal[k].decision = "approve" /\ sent' = sent \cup {k}
      /\ At("approving", j, k)
      /\ UNCHANGED <<source, made, job, live, renewal, journal, store, taken,
                     shown, agreed, crashes>>
  BY DEF Submit, Current, Unlocked
<1>3. /\ k \in 1..Len(journal) /\ k \in Nat /\ k = Publication(j)
      /\ journal[k].job = j
  <2>1. KeysOf(j) /\ Len(journal) \in Nat
    BY <1>1 DEF PreviewInv, Keys, TypeOK
  <2> QED
    BY <1>2, <2>1 DEF KeysOf, Publication
<1> HIDE DEF k
<1>4. CallGoes /\ call'.pc = "approving" /\ call'.job = j
  <2>1. "approving" \in Places /\ UNCHANGED made
    BY <1>2 DEF Places
  <2> QED
    BY <1>1, <1>2, <1>3, <2>1, CallAt
<1>5. Types'
  <2>1. sent' \subseteq 1..Len(journal') /\ taken' \subseteq sent'
    BY <1>1, <1>2, <1>3 DEF TypeOK
  <2> QED
    BY <1>1, <1>2, <1>4, <2>1 DEF Types, TypeOK, CallGoes, CallRows
<1>6. SameEntries /\ \A i \in Jobs : SameRequests(i)
  BY <1>1, <1>2, Untouched DEF SameRequests
<1>7. Keys'
  BY <1>1, <1>6, KeysKept DEF PreviewInv
<1>8. Sends'
  BY <1>2, <1>3 DEF PreviewInv, Sends, Publication
<1>9. Stored'
  BY <1>2 DEF PreviewInv, Stored, StoredOf, Runs
<1>10. Ended'
  <2>1. \A i \in Jobs : StateKept(i)
    BY <1>2 DEF StateKept
  <2> QED
    BY <1>1, <1>2, <1>6, <2>1, EndedKept DEF PreviewInv
<1>11. Held'
  BY <1>2, <1>4 DEF Held, Withdrawing
<1> QED
  BY <1>5, <1>7, <1>8, <1>9, <1>10, <1>11 DEF PreviewInv

\* What the marketplace takes is a publication not yet over, or the
\* withdrawal of the preview it shows.
LEMMA Takes ==
  ASSUME PreviewInv, NEW k \in Requests, MarketTakes(k)
  PROVE  /\ k \in 1..Len(journal) /\ journal[k].job \in Jobs
         /\ journal[k].decision = "approve" =>
               /\ job[journal[k].job].signed
               /\ k = Publication(journal[k].job)
               /\ ~Over(journal[k].job)
               /\ journal[k].rows = job[journal[k].job].pub
               /\ store[journal[k].job] = journal[k].rows
               /\ journal[k].rows \in Selections
         /\ journal[k].decision = "withdraw" =>
               /\ journal[k].job = shown.preview
               /\ job[journal[k].job].signed
               /\ Publication(journal[k].job) \in taken
         /\ journal[k].decision \in {"approve", "withdraw"}
<1>1. Types /\ TypeOK
  BY InvTypes
<1>2. /\ k \in 1..Len(journal) /\ k \notin taken /\ k \in sent
      /\ journal[k].expects = shown.preview
  BY <1>1 DEF MarketTakes, TypeOK
<1>3. journal[k] \in Entries
  BY <1>1, <1>2 DEF TypeOK
<1>4. PICK j \in Jobs : j = journal[k].job
  BY <1>3 DEF Entries
<1>5. journal[k].decision \in {"approve", "withdraw"}
  BY <1>3 DEF Entries
<1>6. KeysOf(j) /\ StoredOf(j) /\ EndedOf(j)
  BY DEF PreviewInv, Keys, Stored, Ended
<1>7. ASSUME journal[k].decision = "approve"
      PROVE  /\ job[j].signed /\ k = Publication(j) /\ ~Over(j)
             /\ journal[k].rows = job[j].pub /\ store[j] = job[j].pub
             /\ job[j].pub \in Selections
  <2>1. job[j].signed /\ k = Publication(j)
    BY <1>2, <1>4, <1>7 DEF PreviewInv, Sends
  <2>2. ~Over(j)
    BY <1>2, <1>6, <2>1, Zenon DEF EndedOf
  <2>3. journal[k].rows = job[j].pub /\ job[j].pub # Nothing
    BY <1>6, <2>1 DEF KeysOf
  <2>4. store[j] # Gone
    BY <1>6, <2>1, <2>2, Zenon DEF EndedOf
  <2>5. store[j] = job[j].pub
    BY <1>6, <2>3, <2>4 DEF StoredOf
  <2>6. job[j].pub \in Selections
    BY <2>3, RowTypes DEF Rows
  <2> QED
    BY <2>1, <2>2, <2>3, <2>5, <2>6
<1>8. ASSUME journal[k].decision = "withdraw"
      PROVE  j = shown.preview /\ job[j].signed /\ Publication(j) \in taken
  <2>1. shown.preview = j
    BY <1>2, <1>4, <1>8 DEF PreviewInv, Sends
  <2> QED
    BY <1>6, <2>1 DEF EndedOf
<1> QED
  BY <1>2, <1>4, <1>5, <1>7, <1>8

\* The marketplace takes a request, early or late.
LEMMA MarketTakesInv ==
  ASSUME PreviewInv, NEW k \in Requests, MarketTakes(k)
  PROVE  PreviewInv'
<1>1. Types /\ TypeOK
  BY InvTypes
<1>2. PICK j \in Jobs : j = journal[k].job
  BY Takes
<1>3. /\ k \in sent /\ taken' = taken \cup {k}
      /\ shown' = IF journal[k].decision = "approve"
                  THEN [preview |-> j, rows |-> journal[k].rows] ELSE Blank
      /\ UNCHANGED <<source, made, job, live, call, renewal, journal, store,
                     sent, agreed, crashes>>
  BY <1>2 DEF MarketTakes, memory
<1>4. SameEntries /\ \A i \in Jobs : SameRequests(i)
  BY <1>1, <1>3, Untouched DEF SameRequests
<1>5. Types'
  <2>1. journal[k] \in Entries
    BY <1>1, Takes DEF TypeOK
  <2>2. journal[k].rows \in Rows /\ j \in 0..MaxJobs /\ 0 \in 0..MaxJobs
    BY <2>1, PreviewAssumption DEF Entries, Jobs
  <2>3. shown' \in [preview : 0..MaxJobs, rows : Rows]
    BY <1>3, <2>2 DEF Blank, Rows
  <2> QED
    BY <1>1, <1>3, <2>3 DEF Types, TypeOK
<1>6. Keys'
  BY <1>1, <1>4, KeysKept DEF PreviewInv
<1>7. Sends'
  BY <1>3 DEF PreviewInv, Sends, Publication
<1>8. Stored'
  BY <1>3 DEF PreviewInv, Stored, StoredOf, Runs
<1>9. Ended'
  <2> SUFFICES ASSUME NEW i \in Jobs PROVE EndedOf(i)'
    BY DEF Ended
  <2>1. EndedOf(i)
    BY DEF PreviewInv, Ended
  <2>2. /\ Publication(i)' = Publication(i) /\ job' = job /\ store' = store
        /\ taken \subseteq taken' /\ k \in taken'
    BY <1>3, <1>4, PublicationKept
  <2>3. Over(i)' <=> Over(i) \/ (i = j /\ journal[k].decision = "withdraw")
    BY <1>2, <1>3 DEF Over
  <2>4. CASE journal[k].decision = "approve"
    <3>1. Over(i)' <=> Over(i)
      BY <2>3, <2>4
    <3>2. shown'.preview = j
      BY <1>3, <2>4
    <3>3. job[j].signed /\ k = Publication(j) /\ ~Over(j)
      BY <1>2, <2>4, Takes
    <3>4. CASE i = j
      BY <2>1, <2>2, <3>1, <3>2, <3>3, <3>4, Zenon DEF EndedOf
    <3>5. CASE i # j
      <4>1. shown'.preview # i
        BY <3>2, <3>5
      <4> QED
        BY <2>1, <2>2, <3>1, <4>1, Zenon DEF EndedOf
    <3> QED
      BY <3>4, <3>5
  <2>5. CASE journal[k].decision = "withdraw"
    <3>1. shown'.preview = 0 /\ i # 0
      BY <1>3, <2>5 DEF Blank, Jobs
    <3>2. job[j].signed /\ Publication(j) \in taken
      BY <1>2, <2>5, Takes
    <3>3. CASE i = j
      <4>1. /\ job'[i].signed /\ Publication(i)' \in taken' /\ Over(i)'
            /\ shown'.preview # i
        BY <2>2, <2>3, <2>5, <3>1, <3>2, <3>3
      <4> QED
        BY <4>1, Zenon DEF EndedOf
    <3>4. CASE i # j
      <4>1. Over(i)' <=> Over(i)
        BY <2>3, <3>4
      <4>2. shown'.preview # i
        BY <3>1
      <4> QED
        BY <2>1, <2>2, <4>1, <4>2, Zenon DEF EndedOf
    <3> QED
      BY <3>3, <3>4
  <2> QED
    BY <2>4, <2>5, Takes
<1>10. Held'
  <2>1. call.job \in 0..made /\ \A i \in 0..made : Over(i) => Over(i)'
    BY <1>1, <1>3 DEF TypeOK, Over
  <2> QED
    BY <1>3, <2>1, HeldKept DEF PreviewInv
<1> QED
  BY <1>5, <1>6, <1>7, <1>8, <1>9, <1>10 DEF PreviewInv

\* What a tombstone is put on: a packaged preview that is not shown.
LEMMA Retires ==
  ASSUME PreviewInv, Tombstone
  PROVE  \E j \in Jobs :
            /\ j = call.job /\ j \in 1..made
            /\ job[j].pub # Nothing /\ job[j].state = "withdrawn"
            /\ store[j] \in Selections \cup {Gone}
            /\ job[j].signed => Over(j)
            /\ shown.preview # j
<1>1. Types /\ TypeOK
  BY InvTypes
<1>2. call.pc \in {"closing", "retiring"}
  BY DEF Tombstone
<1>3. PICK j \in Jobs : j = call.job
  BY <1>1, <1>2, Holder
<1>4. j \in 1..made
  BY <1>1, <1>2, <1>3, Holder
<1>5. job[j].pub # Nothing /\ job[j].state = "withdrawn"
  BY <1>2, <1>3 DEF PreviewInv, Held, Withdrawing
<1>6. job[j].signed => Over(j)
  BY <1>2, <1>3, Zenon DEF PreviewInv, Held
<1>7. shown.preview # j
  BY <1>6, Zenon DEF PreviewInv, Ended, EndedOf
<1>8. store[j] \in Selections \cup {Gone}
  <2>1. store[j] \in {job[j].pub, Gone} /\ job[j].pub \in Rows
    BY <1>5, RowTypes DEF PreviewInv, Stored, StoredOf
  <2> QED
    BY <1>5, <2>1 DEF Rows
<1> QED
  BY <1>3, <1>4, <1>5, <1>6, <1>7, <1>8

\* PublicationStore.retire.
LEMMA TombstoneInv ==
  ASSUME PreviewInv, Tombstone
  PROVE  PreviewInv'
<1>1. Types /\ TypeOK
  BY InvTypes
<1>2. PICK j \in Jobs :
         /\ j = call.job /\ j \in 1..made
         /\ job[j].pub # Nothing /\ job[j].state = "withdrawn"
         /\ store[j] \in Selections \cup {Gone}
         /\ job[j].signed => Over(j)
         /\ shown.preview # j
  BY Retires
<1>3. /\ store' = [store EXCEPT ![j] = Gone] /\ At("receipts", j, 0)
      /\ UNCHANGED <<source, made, job, live, renewal, journal, market, agreed,
                     crashes>>
      /\ call.pc # "packaging"
  BY <1>2 DEF Tombstone
<1>4. /\ store' \in [Jobs -> Rows \cup {Gone}] /\ store'[j] = Gone
      /\ \A i \in Jobs : i # j => store'[i] = store[i]
  BY <1>1, <1>3 DEF TypeOK
<1>5. CallGoes /\ call'.pc = "receipts" /\ call'.job = j
  <2>1. "receipts" \in Places /\ UNCHANGED made /\ 0 \in Nat
    BY <1>3 DEF Places
  <2> QED
    BY <1>1, <1>2, <1>3, <2>1, CallAt
<1>6. Types'
  BY <1>1, <1>3, <1>4, <1>5 DEF Types, TypeOK, market, CallGoes, CallRows
<1>7. SameEntries /\ \A i \in Jobs : SameRequests(i)
  BY <1>1, <1>3, Untouched DEF SameRequests
<1>8. Keys'
  BY <1>1, <1>7, KeysKept DEF PreviewInv
<1>9. Sends'
  BY <1>3 DEF PreviewInv, Sends, Publication, market
<1>10. Stored'
  <2> SUFFICES ASSUME NEW i \in Jobs PROVE StoredOf(i)'
    BY DEF Stored
  <2>1. StoredOf(i)
    BY DEF PreviewInv, Stored
  <2>2. CASE i = j
    BY <2>1, <2>2, <1>2, <1>3, <1>4 DEF StoredOf, Runs
  <2>3. CASE i # j
    BY <2>1, <2>3, <1>3, <1>4 DEF StoredOf, Runs
  <2> QED
    BY <2>2, <2>3
<1>11. Ended'
  <2> SUFFICES ASSUME NEW i \in Jobs PROVE EndedOf(i)'
    BY DEF Ended
  <2>1. EndedOf(i)
    BY DEF PreviewInv, Ended
  <2>2. CASE i = j
    <3>1. /\ Over(i)' <=> Over(i)
          /\ Publication(i)' = Publication(i)
      BY <1>1, <1>3, <1>7, OverSame, PublicationKept DEF market
    <3>2. /\ job' = job /\ taken' = taken /\ shown' = shown
      BY <1>3 DEF market
    <3>3. job[i].signed => Over(i)
      BY <1>2, <2>2
    <3>4. job[i].state \in {"withdrawn", "retired"}
      BY <1>2, <2>2
    <3> QED
      BY <2>1, <3>1, <3>2, <3>3, <3>4, Zenon DEF EndedOf
  <2>3. CASE i # j
    BY <2>1, <2>3, <1>1, <1>3, <1>4, <1>7, Elsewhere DEF market
  <2> QED
    BY <2>2, <2>3
<1>12. Held'
  <2>1. job'[j].pub # Nothing /\ job'[j].state = "withdrawn"
    BY <1>2, <1>3
  <2> QED
    BY <1>5, <2>1, HeldAfter
<1> QED
  BY <1>6, <1>8, <1>9, <1>10, <1>11, <1>12 DEF PreviewInv

-----------------------------------------------------------------------------
(* The invariant, and what follows from it *)

\* The first states.
LEMMA InitInv == Init => PreviewInv
<1> SUFFICES ASSUME Init PROVE PreviewInv
  OBVIOUS
<1>1. Nothing # Gone /\ MaxJobs \in Nat /\ MaxChanges \in Nat
      /\ MaxCrashes \in Nat
  BY PreviewAssumption
<1>2. NoRow \in JobRows /\ NoRow.signed = FALSE /\ NoRow.pub = Nothing
      /\ NoRow.key = 0 /\ NoRow.pubkey = 0 /\ NoRow.state = "none"
  <2>1. NewRow(0) \in JobRows
    BY <1>1 DEF NewRow, JobRows, States, Reviewing, Rows
  <2>2. NoRow = [NewRow(0) EXCEPT !.state = "none"]
    BY DEF NoRow
  <2>3. /\ NewRow(0).signed = FALSE /\ NewRow(0).pub = Nothing
        /\ NewRow(0).key = 0 /\ NewRow(0).pubkey = 0
    BY DEF NewRow
  <2> HIDE DEF NewRow
  <2> QED
    BY <2>1, <2>2, <2>3 DEF JobRows, States
<1>3. \A j \in Jobs :
         job[j] = NoRow /\ store[j] = Nothing /\ agreed[j] = Nothing
  BY DEF Init
<1>4. /\ journal = <<>> /\ Len(journal) = 0 /\ sent = {} /\ taken = {}
      /\ shown = Blank /\ live = NoLive /\ call = Free
      /\ renewal = NoRenewal /\ made = 0 /\ source = 0 /\ crashes = 0
  BY DEF Init
<1>5. Types
  <2>1. job \in [Jobs -> JobRows] /\ store \in [Jobs -> Rows \cup {Gone}]
        /\ agreed \in [Jobs -> Rows]
    BY <1>2 DEF Init, Rows
  <2>2. live \in LiveRows /\ call \in CallRows /\ live.phase = "none"
        /\ call.pc = "free"
    BY <1>4 DEF NoLive, Free, LiveRows, CallRows, Rows
  <2>3. /\ renewal \in [old : 0..made, new : 0..made] /\ renewal.new = 0
        /\ shown \in [preview : 0..MaxJobs, rows : Rows]
        /\ journal \in Seq(Entries)
    BY <1>1, <1>4 DEF NoRenewal, Blank, Rows
  <2> QED
    BY <1>1, <1>4, <2>1, <2>2, <2>3 DEF Types, TypeOK, LiveRows, CallRows
<1>6. Keys
  BY <1>2, <1>3 DEF Keys, KeysOf
<1>7. Sends
  BY <1>4 DEF Sends
<1>8. Stored
  <2> SUFFICES ASSUME NEW j \in Jobs PROVE StoredOf(j)
    BY DEF Stored
  <2>1. live.job # j
    BY <1>4 DEF NoLive, Jobs
  <2> QED
    BY <1>1, <1>2, <1>3, <2>1 DEF StoredOf, Runs
<1>9. Ended
  <2> SUFFICES ASSUME NEW j \in Jobs PROVE EndedOf(j)
    BY DEF Ended
  <2>1. ~Over(j)
    BY <1>4 DEF Over
  <2>2. shown.preview # j
    BY <1>4 DEF Blank, Jobs
  <2> QED
    BY <1>1, <1>2, <1>3, <2>1, <2>2 DEF EndedOf
<1>10. Held
  BY <1>4 DEF Free, Held, Withdrawing
<1> QED
  BY <1>5, <1>6, <1>7, <1>8, <1>9, <1>10 DEF PreviewInv

\* Nothing happens.
LEMMA StutterInv ==
  ASSUME PreviewInv, UNCHANGED vars
  PROVE  PreviewInv'
<1>1. /\ source' \in 0..MaxChanges
      /\ renewal' \in [old : 0..made, new : 0..made]
      /\ renewal'.new # 0 => renewal'.old # 0
  BY RenewalTypes DEF vars, memory
<1> QED
  BY <1>1, BesidesInv DEF vars, memory

\* The requests of a seller.
LEMMA AskedInv ==
  ASSUME PreviewInv, NEW j \in Jobs, Asked(j)
  PROVE  PreviewInv'
<1>1. CASE Lapse(j)          BY <1>1, LapseInv
<1>2. CASE SourceRefused(j)  BY <1>2, SourceRefusedInv
<1>3. CASE Cancel(j)         BY <1>3, CancelInv
<1>4. CASE Package(j)        BY <1>4, PackageInv
<1>5. CASE OriginCheck(j)    BY <1>5, OriginCheckInv
<1>6. CASE Candidate(j)      BY <1>6, CandidateInv
<1>7. CASE Submit(j)         BY <1>7, SubmitInv
<1>8. CASE Withdraw(j)       BY <1>8, WithdrawInv
<1>9. CASE WithdrawHosted(j) BY <1>9, WithdrawHostedInv
<1>10. CASE Refresh(j)       BY <1>10, RefreshInv
<1>11. ASSUME NEW rows \in Selections, Select(j, rows) PROVE PreviewInv'
  BY <1>11, SelectInv
<1>12. ASSUME NEW passed \in BOOLEAN, Scan(j, passed) PROVE PreviewInv'
  BY <1>12, ScanInv
<1> QED
  BY <1>1, <1>2, <1>3, <1>4, <1>5, <1>6, <1>7, <1>8, <1>9, <1>10, <1>11, <1>12
    DEF Asked

\* The rest of a request that writes more than once.
LEMMA PublishInv ==
  ASSUME PreviewInv, Publish
  PROVE  PreviewInv'
BY PackageSavedInv, FreezeSavedInv, UnansweredInv, AnswerNotedInv,
   SubmitSavedInv, WithdrawSavedInv, RetirementPendingInv, TombstoneInv,
   NoReceiptsInv, ReceiptsInv, RetiredSavedInv DEF Publish

\* The build.
LEMMA BuildInv ==
  ASSUME PreviewInv, Build
  PROVE  PreviewInv'
BY CreateInv, ReviewReadyInv, StopsInv, LiveEndsInv
  DEF Build, BuildFails, Expire

\* Every step.
LEMMA NextInv == PreviewInv /\ [Next]_vars => PreviewInv'
<1> SUFFICES ASSUME PreviewInv, [Next]_vars PROVE PreviewInv'
  OBVIOUS
<1>1. CASE Build
  BY <1>1, BuildInv
<1>2. CASE Publish
  BY <1>2, PublishInv
<1>3. CASE Renew
  BY <1>3, RefreshCreatesInv, RefreshRefusedInv, RefreshFillsInv DEF Renew
<1>4. CASE SourceChanges
  BY <1>4, SourceChangesInv
<1>5. CASE CrashRestart
  BY <1>5, CrashRestartInv
<1>6. ASSUME NEW j \in Jobs, Asked(j) PROVE PreviewInv'
  BY <1>6, AskedInv
<1>7. ASSUME NEW k \in Requests, MarketTakes(k) PROVE PreviewInv'
  BY <1>7, MarketTakesInv
<1>8. CASE UNCHANGED vars
  BY <1>8, StutterInv
<1> QED
  BY <1>1, <1>2, <1>3, <1>4, <1>5, <1>6, <1>7, <1>8 DEF Next

\* What requests, build and marketplace keep, whatever crashes or gets lost.
THEOREM Invariance == Spec => []PreviewInv
BY InitInv, NextInv, PTL DEF Spec

\* The types, of every reachable state.
THEOREM PreviewTypes == Spec => []TypeOK
<1>1. PreviewInv => TypeOK
  BY InvTypes
<1> QED
  BY Invariance, <1>1, PTL

\* A request for approval that was sent is the publication its job's row
\* names: there is one of it, however often the request was tried.
THEOREM OneApprovalSent == Spec => []OneApproval
<1>1. PreviewInv => OneApproval
  <2> SUFFICES ASSUME PreviewInv,
                      NEW k \in sent, NEW l \in sent,
                      journal[k].decision = "approve",
                      journal[l].decision = "approve",
                      journal[k].job = journal[l].job
               PROVE  k = l
    BY DEF OneApproval
  <2> QED
    BY DEF PreviewInv, Sends
<1> QED
  BY Invariance, <1>1, PTL

-----------------------------------------------------------------------------
(* The refinement *)

Was == {journal[k].job : k \in {l \in taken : journal[l].decision = "approve"}}

\* Steps the promise does not speak of.
LEMMA WasKept ==
  ASSUME TypeOK, SameEntries, UNCHANGED taken
  PROVE  Was' = Was
<1>1. \A k \in taken : k \in 1..Len(journal)
  BY DEF TypeOK
<1>2. \A k \in taken : /\ journal'[k].job = journal[k].job
                       /\ journal'[k].decision = journal[k].decision
  BY <1>1 DEF SameEntries
<1> QED
  BY <1>2 DEF Was

\* A step that changes none of what the promise is about.
LEMMA Unseen ==
  ASSUME PreviewInv, SameEntries, UNCHANGED <<taken, store, shown, agreed>>
  PROVE  UNCHANGED Disclosure!vars
<1>1. Was' = Was
  BY InvTypes, WasKept
<1> QED
  BY <1>1 DEF Disclosure!vars, Was

\* select and scan: the consent is for rows not hosted yet.
LEMMA Agrees ==
  ASSUME PreviewInv, NEW j \in Jobs, Editable(j), NEW p \in Rows,
         agreed' = [agreed EXCEPT ![j] = p],
         UNCHANGED <<journal, taken, store, shown>>
  PROVE  Disclosure!Next
<1>1. store[j] = Nothing
  <2>1. /\ live.job = j /\ job[j].pub = Nothing /\ call.pc # "packaging"
    BY DEF Editable, Active, Runs, Unlocked
  <2> QED
    BY <2>1 DEF PreviewInv, Stored, StoredOf
<1>2. Was' = Was
  BY InvTypes, Untouched, WasKept
<1>3. p \in Selections \cup {Nothing}
  BY DEF Rows
<1>4. Disclosure!Agree(j)
  BY <1>1, <1>2, <1>3 DEF Disclosure!Agree, Was
<1> QED
  BY <1>4 DEF Disclosure!Next

\* The store serves what was agreed to.
LEMMA PackageServes ==
  ASSUME PreviewInv, NEW j \in Jobs, Package(j)
  PROVE  Disclosure!Next
<1>1. /\ live.job = j /\ job[j].pub = Nothing /\ call.pc # "packaging"
      /\ live.package # Nothing /\ store' = [store EXCEPT ![j] = live.package]
      /\ UNCHANGED <<journal, taken, shown, agreed>>
  BY DEF Package, Editable, Active, Runs, Unlocked, market
<1>2. store[j] = Nothing /\ live.package = agreed[j]
  BY <1>1 DEF PreviewInv, Stored, StoredOf
<1>3. Was' = Was
  BY <1>1, InvTypes, Untouched, WasKept
<1>4. Disclosure!Serve(j)
  BY <1>1, <1>2, <1>3 DEF Disclosure!Serve, Was
<1> QED
  BY <1>4 DEF Disclosure!Next

\* The marketplace shows a preview that is hosted, once, or hides it.
LEMMA MarketShows ==
  ASSUME PreviewInv, NEW k \in Requests, MarketTakes(k)
  PROVE  Disclosure!Next
<1>1. PICK j \in Jobs : j = journal[k].job
  BY Takes
<1>2. /\ k \notin taken /\ taken' = taken \cup {k}
      /\ shown' = IF journal[k].decision = "approve"
                  THEN [preview |-> j, rows |-> journal[k].rows] ELSE Blank
      /\ UNCHANGED <<journal, store, agreed>>
  BY <1>1 DEF MarketTakes
<1>3. CASE journal[k].decision = "approve"
  <2>1. /\ k = Publication(j) /\ store[j] = journal[k].rows
        /\ journal[k].rows \in Selections
    BY <1>1, <1>3, Takes
  <2>2. j \notin Was
    <3> SUFFICES ASSUME NEW l \in taken, journal[l].decision = "approve",
                        journal[l].job = j
                 PROVE  FALSE
      BY DEF Was
    <3>1. l \in sent
      BY InvTypes DEF TypeOK
    <3>2. l = Publication(j)
      BY <3>1 DEF PreviewInv, Sends
    <3> QED
      BY <1>2, <2>1, <3>2
  <2>3. Was' = Was \cup {j}
    BY <1>1, <1>2, <1>3 DEF Was
  <2>4. shown' = [preview |-> j, rows |-> store[j]]
    BY <1>2, <1>3, <2>1
  <2>5. Disclosure!Show(j)
    BY <1>2, <2>1, <2>2, <2>3, <2>4 DEF Disclosure!Show, Was
  <2> QED
    BY <2>5 DEF Disclosure!Next
<1>4. CASE journal[k].decision = "withdraw"
  <2>1. Was' = Was
    BY <1>2, <1>4 DEF Was
  <2>2. shown' = Blank
    BY <1>2, <1>4
  <2>3. Disclosure!Hide
    BY <1>2, <2>1, <2>2 DEF Disclosure!Hide, Disclosure!Blank, Blank, Was
  <2> QED
    BY <2>3 DEF Disclosure!Next
<1> QED
  BY <1>3, <1>4, Takes

\* What is retired is no longer shown.
LEMMA TombstoneRetires ==
  ASSUME PreviewInv, Tombstone
  PROVE  Disclosure!Next \/ UNCHANGED Disclosure!vars
<1>1. PICK j \in Jobs : /\ j = call.job
                        /\ store[j] \in Selections \cup {Gone}
                        /\ shown.preview # j
  BY Retires
<1>2. /\ store' = [store EXCEPT ![j] = Gone]
      /\ UNCHANGED <<journal, taken, shown, agreed>>
  BY <1>1 DEF Tombstone, market
<1>3. Was' = Was
  BY <1>2, InvTypes, Untouched, WasKept
<1>4. CASE store[j] \in Selections
  <2>1. Disclosure!Retire(j)
    BY <1>1, <1>2, <1>3, <1>4 DEF Disclosure!Retire, Was
  <2> QED
    BY <2>1 DEF Disclosure!Next
<1>5. CASE store[j] = Gone
  <2>1. store \in [Jobs -> Rows \cup {Gone}]
    BY InvTypes DEF TypeOK
  <2>2. store' = store
    BY <1>2, <1>5, <2>1
  <2> QED
    BY <1>2, <1>3, <2>2 DEF Disclosure!vars, Was
<1> QED
  BY <1>1, <1>4, <1>5

\* Everything else leaves the promise's state alone.
LEMMA RestUnseen ==
  ASSUME PreviewInv,
         UNCHANGED <<journal, taken, store, shown, agreed>>
  PROVE  UNCHANGED Disclosure!vars
BY InvTypes, Untouched, Unseen

\* The requests of a seller keep the promise.
LEMMA AskedKeeps ==
  ASSUME PreviewInv, NEW j \in Jobs, Asked(j)
  PROVE  [Disclosure!Next]_Disclosure!vars
<1>1. CASE Package(j)
  BY <1>1, PackageServes
<1>2. ASSUME NEW rows \in Selections, Select(j, rows)
      PROVE  Disclosure!Next
  <2>1. Nothing \in Rows
    BY DEF Rows
  <2> QED
    BY <1>2, <2>1, Agrees DEF Select, market
<1>3. ASSUME NEW passed \in BOOLEAN, Scan(j, passed)
      PROVE  Disclosure!Next
  <2> DEFINE p == IF passed THEN job[j].rows ELSE Nothing
  <2>1. p \in Rows
    BY RowTypes DEF Rows
  <2>2. /\ Editable(j) /\ agreed' = [agreed EXCEPT ![j] = p]
        /\ UNCHANGED <<journal, taken, store, shown>>
    BY <1>3 DEF Scan, market
  <2> HIDE DEF p
  <2> QED
    BY <2>1, <2>2, Agrees
<1>4. CASE Candidate(j)
  BY <1>4, CandidateInv, Unseen DEF Candidate, market
<1>5. CASE Withdraw(j)
  BY <1>5, WithdrawInv, Unseen DEF Withdraw, market
<1>6. CASE Lapse(j) \/ SourceRefused(j) \/ Cancel(j) \/ OriginCheck(j)
  BY <1>6, RestUnseen DEF Lapse, SourceRefused, Cancel, OriginCheck, market
<1>7. CASE Submit(j) \/ WithdrawHosted(j) \/ Refresh(j)
  BY <1>7, RestUnseen DEF Submit, WithdrawHosted, Refresh, market
<1> QED
  BY <1>1, <1>2, <1>3, <1>4, <1>5, <1>6, <1>7 DEF Asked

\* So does the rest of them.
LEMMA PublishKeeps ==
  ASSUME PreviewInv, Publish
  PROVE  [Disclosure!Next]_Disclosure!vars
<1>1. CASE Tombstone
  BY <1>1, TombstoneRetires
<1>2. CASE AnswerNoted
  BY <1>2, AnswerNotedInv, Unseen DEF AnswerNoted, market
<1>3. CASE RetirementPending
  BY <1>3, RetirementPendingInv, Unseen DEF RetirementPending, market
<1>4. CASE Receipts
  BY <1>4, ReceiptsInv, Unseen DEF Receipts, market
<1>5. CASE PackageSaved \/ FreezeSaved \/ Unanswered
  BY <1>5, RestUnseen DEF PackageSaved, FreezeSaved, Unanswered, market
<1>6. CASE SubmitSaved \/ WithdrawSaved \/ NoReceipts \/ RetiredSaved
  BY <1>6, RestUnseen
    DEF SubmitSaved, WithdrawSaved, NoReceipts, RetiredSaved, market
<1> QED
  BY <1>1, <1>2, <1>3, <1>4, <1>5, <1>6 DEF Publish

\* Every step keeps the promise.
LEMMA StepKeeps ==
  PreviewInv /\ [Next]_vars => [Disclosure!Next]_Disclosure!vars
<1> SUFFICES ASSUME PreviewInv, [Next]_vars
             PROVE  [Disclosure!Next]_Disclosure!vars
  OBVIOUS
<1>1. CASE Build
  <2>1. UNCHANGED <<journal, taken, store, shown, agreed>>
    BY <1>1 DEF Build, Create, ReviewReady, BuildFails, Expire, Stops, LiveEnds,
                market
  <2> QED
    BY <2>1, RestUnseen
<1>2. CASE Publish
  BY <1>2, PublishKeeps
<1>3. CASE Renew
  <2>1. UNCHANGED <<journal, taken, store, shown, agreed>>
    BY <1>3 DEF Renew, RefreshCreates, RefreshRefused, RefreshFills, market
  <2> QED
    BY <2>1, RestUnseen
<1>4. CASE SourceChanges \/ CrashRestart \/ UNCHANGED vars
  <2>1. UNCHANGED <<journal, taken, store, shown, agreed>>
    BY <1>4 DEF SourceChanges, CrashRestart, vars, market
  <2> QED
    BY <2>1, RestUnseen
<1>5. ASSUME NEW j \in Jobs, Asked(j)
      PROVE  [Disclosure!Next]_Disclosure!vars
  BY <1>5, AskedKeeps
<1>6. ASSUME NEW k \in Requests, MarketTakes(k)
      PROVE  [Disclosure!Next]_Disclosure!vars
  BY <1>6, MarketShows
<1> QED
  BY <1>1, <1>2, <1>3, <1>4, <1>5, <1>6 DEF Next

\* PreviewBuildService, PreviewJournal and PublicationStore, with the
\* marketplace, implement PreviewDisclosure: only rows agreed to are hosted,
\* what is shown is hosted, and what is retired is gone and not shown.
THEOREM PublicationKeepsDisclosure == Spec => KeepsDisclosure
<1>1. Init => Disclosure!Init
  BY DEF Init, Disclosure!Init, Disclosure!Blank, Blank
<1>2. PreviewInv /\ [Next]_vars => [Disclosure!Next]_Disclosure!vars
  BY StepKeeps
<1> QED
  BY <1>1, <1>2, Invariance, PTL DEF Spec, KeepsDisclosure, Disclosure!Spec
=============================================================================
