-------------------------- MODULE FulfillmentProofs --------------------------
(***************************************************************************)
(* For any number of orders, windows, lost connections and crashes: the    *)
(* types, that what is completed was confirmed, that no window overtakes   *)
(* the server, and that the rows are the log FulfillmentLog describes.     *)
(***************************************************************************)
EXTENDS Fulfillment, SequenceTheorems, TLAPS

\* What may be on its way to the listener: acknowledgements of transfers begun
\* say no more than the server holds, and a grant is for something confirmed.
Frames == [type : {"deliver", "ack", "grant", "refuse", "limit"},
           key : Orders \cup Transfers \cup {NoOrder},
           through : 0..Windows]

Sound ==
    {m \in Frames :
       /\ m.type = "deliver" => m.key \in Orders
       /\ m.type = "ack" => /\ m.key \in 1..started
                            /\ m.key = worker.t => m.through <= have
       /\ m.type = "grant" => m.key \in settled}

FramesSound == inbox \in Seq(Sound)

\* The worker and its row.
NoRow == [order |-> NoOrder, kind |-> "absent", status |-> "none"]

RowsMatch ==
    /\ worker.t = 0 <=> worker.pc = "idle"
    /\ worker.pc \in {"await", "acking"} => worker.win < Windows
    /\ worker.wait # "none" => worker.pc \in Waiting
    /\ \A t \in Transfers :
          /\ t > started => log[t] = NoRow /\ t \notin settled
          /\ t <= started => log[t].order \in Orders
    /\ worker.pc \notin {"idle", "tellAfter"} =>
          log[worker.t].status \in {"received", "uploading"}
    /\ worker.pc = "hash" => log[worker.t].status = "received"
    /\ worker.pc \notin {"idle", "tellAfter", "hash", "tellFailed"} =>
          log[worker.t].status = "uploading"

\* An answer in the worker's hands says what is true.
AnswersTrue ==
    worker.wait = "ok" =>
       /\ worker.pc = "acking" => have >= worker.win
       /\ worker.pc \in {"closing", "s3wait"} => KeyOf(worker.t) \in settled

\* TypeOK but for the frames.
StateTypes ==
    /\ online \in BOOLEAN
    /\ acking \in Orders \cup {NoOrder}
    /\ acked \subseteq Orders
    /\ queue \in Seq(Orders)
    /\ started \in 0..MaxDeliveries
    /\ log \in [Transfers ->
                  [order : Orders \cup {NoOrder}, kind : Kinds,
                   status : {"none", "received", "uploading"} \cup Closed]]
    /\ worker \in
          [pc : {"idle", "hash", "await", "tellFailed", "tellTimedOut",
                 "tellAfter"} \cup Sending \cup Waiting,
           t : 0..started, win : 0..Windows, try : 0..2,
           wait : {"none", "pending", "ok", "short", "refused", "limited",
                   "lost"}]
    /\ have \in 0..Windows
    /\ settled \subseteq Transfers \cup Orders
    /\ told \subseteq Transfers
    /\ excused \subseteq Transfers

FulfillmentInv ==
    /\ StateTypes
    /\ FramesSound
    /\ RowsMatch
    /\ AnswersTrue
    /\ BackpressureHolds
    /\ CompletedIsConfirmed
-----------------------------------------------------------------------------
LEMMA FramesTyped ==
  ASSUME StateTypes, FramesSound
  PROVE  TypeOK
<1>1. \A i \in DOMAIN inbox : inbox[i] \in Sound
  BY ElementOfSeq, LenProperties DEF FramesSound
<1> QED
  BY <1>1 DEF StateTypes, TypeOK, Sound, Frames

\* The channel may lose what it carries, deliver its head, or carry more.
LEMMA FramesKept ==
  ASSUME FramesSound, Sound \subseteq Sound',
         inbox' = inbox
  PROVE  FramesSound'
  BY SeqMonotonic DEF FramesSound

LEMMA FramesLost ==
  ASSUME inbox' = <<>>
  PROVE  FramesSound'
  BY EmptySeq DEF FramesSound

LEMMA FramesSent ==
  ASSUME FramesSound, Sound \subseteq Sound',
         NEW r \in Seq(Sound'),
         inbox' = inbox \o r
  PROVE  FramesSound'
  BY SeqMonotonic, ConcatProperties DEF FramesSound

LEMMA FrameAppended ==
  ASSUME FramesSound, Sound \subseteq Sound',
         NEW m \in Sound',
         inbox' = Append(inbox, m)
  PROVE  FramesSound'
<1>1. inbox \in Seq(Sound')
  BY SeqMonotonic DEF FramesSound
<1> QED
  BY <1>1 DEF FramesSound

LEMMA FrameTaken ==
  ASSUME FramesSound, inbox # <<>>
  PROVE  /\ Head(inbox) \in Sound
         /\ Sound \subseteq Sound' /\ inbox' = Tail(inbox) => FramesSound'
<1>1. Head(inbox) \in Sound /\ Tail(inbox) \in Seq(Sound)
  BY HeadTailProperties DEF FramesSound
<1> QED
  BY <1>1, SeqMonotonic DEF FramesSound

\* As long as transfers begin in order, no state of a transfer is lost and the
\* server forgets nothing, what was sound stays so.
LEMMA SoundKept ==
  ASSUME StateTypes,
         started' = started, settled \subseteq settled',
         worker'.t \in {0, worker.t},
         have' \in Nat, have' >= have
  PROVE  Sound \subseteq Sound'
  BY FulfillmentAssumption DEF Sound, Frames, StateTypes

LEMMA FulfillmentInit == Init => FulfillmentInv
<1> SUFFICES ASSUME Init PROVE FulfillmentInv
  OBVIOUS
<1>1. StateTypes
  BY FulfillmentAssumption DEF Init, StateTypes, Idle, Transfers, Kinds
<1>2. FramesSound
  BY EmptySeq DEF Init, FramesSound
<1>3. RowsMatch
  BY DEF Init, RowsMatch, Idle, NoRow, Transfers
<1>4. AnswersTrue /\ BackpressureHolds /\ CompletedIsConfirmed
  BY DEF Init, AnswersTrue, BackpressureHolds, CompletedIsConfirmed, Idle
<1> QED
  BY <1>1, <1>2, <1>3, <1>4 DEF FulfillmentInv

\* The channel's steps touch the worker's waiter only.
LEMMA ChannelStep ==
  ASSUME FulfillmentInv,
         \/ \E o \in Orders : ServerOrders(o)
         \/ DispatchDeliver \/ DispatchReply \/ AckEvent
         \/ Disconnect \/ Reconnect
  PROVE  FulfillmentInv'
<1> USE FulfillmentAssumption
    DEF FulfillmentInv, StateTypes, RowsMatch, AnswersTrue, BackpressureHolds,
        CompletedIsConfirmed, rows, history, bounds
<1>1. ASSUME NEW o \in Orders, ServerOrders(o)
      PROVE  FulfillmentInv'
  <2>1. /\ UNCHANGED <<online, acking, acked, queue, rows, worker, have, history>>
        /\ inbox' = Append(inbox, Frame("deliver", o, 0))
    BY <1>1 DEF ServerOrders
  <2>2. Frame("deliver", o, 0) \in Sound'
    BY <2>1 DEF Frame, Sound, Frames
  <2>3. FramesSound'
    BY <2>1, <2>2, SoundKept, FrameAppended
  <2> QED
    BY <2>1, <2>3 DEF KeyOf
<1>2. CASE DispatchDeliver
  <2>1. UNCHANGED <<online, acked, rows, worker, have, history, bounds>>
    BY <1>2 DEF DispatchDeliver
  <2>2. /\ inbox # <<>> /\ Head(inbox).type = "deliver"
        /\ inbox' = Tail(inbox)
        /\ queue' = Append(queue, Head(inbox).key)
        /\ acking' = Head(inbox).key
    BY <1>2 DEF DispatchDeliver
  <2>3. Head(inbox).key \in Orders /\ FramesSound'
    BY <2>1, <2>2, FrameTaken, SoundKept DEF Sound
  <2>4. queue' \in Seq(Orders)
    BY <2>2, <2>3
  <2> QED
    BY <2>1, <2>2, <2>3, <2>4 DEF KeyOf
<1>3. CASE DispatchReply
  <2> DEFINE m == Head(inbox)
  <2>1. /\ inbox # <<>> /\ m.type # "deliver" /\ inbox' = Tail(inbox)
        /\ worker' = IF Awaits(m) THEN [worker EXCEPT !.wait = Result(m)]
                     ELSE worker
        /\ excused' \in {excused, excused \cup {worker.t}}
        /\ excused' # excused => worker.t # 0
        /\ UNCHANGED <<online, acking, acked, queue, rows, have, settled, told,
                       bounds>>
    BY <1>3 DEF DispatchReply
  <2>2. m \in Sound /\ FramesSound'
    BY <2>1, FrameTaken, SoundKept
  <2>3. excused' \subseteq Transfers
    BY <2>1 DEF Transfers
  <2>4. CASE ~Awaits(m)
    BY <2>1, <2>2, <2>3, <2>4 DEF KeyOf
  <2>5. CASE Awaits(m)
    <3>1. Result(m) \in {"ok", "short", "limited", "refused"}
      BY <2>1, <2>2 DEF Result, ValidateAck, Sound, Frames
    <3>2. Result(m) = "ok" =>
             /\ worker.pc = "acking" => have >= worker.win
             /\ worker.pc \in {"closing", "s3wait"} => KeyOf(worker.t) \in settled
      <4>1. CASE m.type = "ack"
        <5>1. /\ worker.pc = "acking" /\ worker.t = m.key
              /\ Result(m) = IF m.through >= worker.win THEN "ok" ELSE "short"
          BY <2>5, <4>1 DEF Awaits, Result, ValidateAck
        <5>2. m.through <= have /\ m.through \in Nat
          BY <2>2, <4>1, <5>1 DEF Sound, Frames
        <5> QED
          BY <5>1, <5>2
      <4>2. CASE m.type = "grant"
        <5>1. worker.pc # "acking" /\ m.key = KeyOf(worker.t)
          BY <2>5, <4>2 DEF Awaits
        <5>2. m.key \in settled
          BY <2>2, <4>2 DEF Sound
        <5> QED
          BY <5>1, <5>2
      <4>3. CASE m.type \in {"limit", "refuse"}
        BY <4>3 DEF Result
      <4> QED
        BY <2>1, <2>2, <4>1, <4>2, <4>3 DEF Sound, Frames
    <3>3. worker' = [worker EXCEPT !.wait = Result(m)]
      BY <2>1, <2>5
    <3>4. worker.pc \in Waiting
      BY <2>5 DEF Awaits
    <3> HIDE DEF m
    <3> QED
      BY <2>1, <2>2, <2>3, <3>1, <3>2, <3>3, <3>4 DEF KeyOf
  <2> QED
    BY <2>4, <2>5
<1>4. CASE AckEvent
  <2>1. UNCHANGED <<online, inbox, queue, rows, worker, have, history, bounds>>
    BY <1>4 DEF AckEvent
  <2>2. FramesSound'
    BY <2>1, SoundKept, FramesKept
  <2> QED
    BY <1>4, <2>1, <2>2 DEF AckEvent, KeyOf
<1>5. CASE Disconnect
  <2>1. /\ inbox' = <<>> /\ acking' = NoOrder /\ online' = FALSE
        /\ worker' = IF worker.wait = "pending"
                     THEN [worker EXCEPT !.wait = "lost"] ELSE worker
        /\ excused' \in {excused, excused \cup {worker.t}}
        /\ excused' # excused => worker.t # 0
        /\ UNCHANGED <<acked, queue, rows, have, settled, told>>
    BY <1>5 DEF Disconnect
  <2>2. FramesSound'
    BY <2>1, FramesLost
  <2>3. excused' \subseteq Transfers
    BY <2>1 DEF Transfers
  <2>4. online' \in BOOLEAN
    BY <2>1, Zenon
  <2> QED
    BY <2>1, <2>2, <2>3, <2>4 DEF KeyOf
<1>6. CASE Reconnect
  <2>1. UNCHANGED <<inbox, acking, acked, queue, rows, worker, have, history,
                    bounds>>
    BY <1>6 DEF Reconnect
  <2>2. FramesSound'
    BY <2>1, SoundKept, FramesKept
  <2>3. online' \in BOOLEAN
    BY <1>6, Zenon DEF Reconnect
  <2> QED
    BY <2>1, <2>2, <2>3 DEF KeyOf
<1> QED
  BY <1>1, <1>2, <1>3, <1>4, <1>5, <1>6

\* Reading a request begins a transfer that nothing under way belongs to.
LEMMA TakeStep ==
  ASSUME FulfillmentInv, NEW kind \in Kinds, Take(kind)
  PROVE  FulfillmentInv'
<1> DEFINE t == started + 1
<1>1. /\ worker.pc = "idle" /\ queue # <<>> /\ t \in Transfers
      /\ queue' = Tail(queue) /\ started' = t /\ have' = 0
      /\ log' = [log EXCEPT ![t] =
                   [order |-> Head(queue), kind |-> kind,
                    status |-> IF kind = "s3" THEN "uploading" ELSE "received"]]
      /\ UNCHANGED <<channel, history, bounds>>
  BY DEF Take
<1>2. PICK pc \in CASE kind = "absent" -> {"tellFailed"}
                   [] kind = "local"  -> {"hash"}
                   [] kind = "s3"     -> {"s3send", "tellFailed"} :
         worker' = [Idle EXCEPT !.t = t, !.pc = pc, !.try = 1]
  BY DEF Take
<1>3. /\ pc \in {"tellFailed", "hash", "s3send"}
      /\ pc = "hash" => kind = "local"
      /\ pc = "s3send" => kind = "s3"
  BY <1>2 DEF Kinds
<1>4. Head(queue) \in Orders /\ queue' \in Seq(Orders)
  BY <1>1, HeadTailProperties DEF FulfillmentInv, StateTypes
<1>5. Sound \subseteq Sound' /\ UNCHANGED inbox
  BY <1>1, <1>2, FulfillmentAssumption
  DEF FulfillmentInv, StateTypes, Sound, Frames, channel, history, Idle
<1>6. FramesSound'
  BY <1>5, FramesKept DEF FulfillmentInv
<1>7. StateTypes'
  <2>1. worker'.pc = pc /\ worker'.t = t /\ worker' \in
          [pc : {"tellFailed", "hash", "s3send"}, t : 0..t, win : 0..Windows,
           try : 0..2, wait : {"none"}]
    <3>1. worker' = [pc |-> pc, t |-> t, win |-> 0, try |-> 1, wait |-> "none"]
      BY <1>2 DEF Idle
    <3>2. 0 \in 0..Windows /\ t \in 0..t
      BY FulfillmentAssumption DEF FulfillmentInv, StateTypes
    <3> HIDE DEF t
    <3> QED
      BY <1>3, <3>1, <3>2
  <2>2. log' \in [Transfers ->
                   [order : Orders \cup {NoOrder}, kind : Kinds,
                    status : {"none", "received", "uploading"} \cup Closed]]
    BY <1>1, <1>4 DEF FulfillmentInv, StateTypes
  <2> QED
    BY <1>1, <1>4, <2>1, <2>2, FulfillmentAssumption
    DEF FulfillmentInv, StateTypes, channel, history, Sending, Transfers
<1>8. RowsMatch'
  BY <1>1, <1>2, <1>3, <1>4, FulfillmentAssumption
  DEF FulfillmentInv, StateTypes, RowsMatch, Idle, history, Transfers
<1>9. AnswersTrue' /\ BackpressureHolds'
  BY <1>1, <1>2, <1>3 DEF AnswersTrue, BackpressureHolds, Idle
<1>10. CompletedIsConfirmed'
  BY <1>1, <1>4 DEF FulfillmentInv, StateTypes, CompletedIsConfirmed, KeyOf, history
<1> QED
  BY <1>6, <1>7, <1>8, <1>9, <1>10 DEF FulfillmentInv

\* What a step that sends nothing has to show: where the worker goes on, and
\* the status s it may write into the row it works on.
Goes ==
    /\ worker' \in
         [pc : {"idle", "hash", "await", "tellFailed", "tellTimedOut",
                "tellAfter"} \cup Sending \cup Waiting,
          t : {0, worker.t}, win : 0..Windows, try : 0..2,
          wait : {"none", "pending"}]
    /\ worker'.t = 0 <=> worker'.pc = "idle"
    /\ worker'.pc \in {"await", "acking"} => worker'.win < Windows
    /\ worker'.wait # "none" => worker'.pc \in Waiting
    /\ BackpressureHolds'

Writes(s) ==
    /\ log' = log \/ (Close(s) /\ worker.t # 0)
    /\ s = "completed" => KeyOf(worker.t) \in settled
    /\ worker'.t # 0 =>
          \/ worker'.pc = "tellAfter"
          \/ worker'.pc = "tellFailed" /\ UNCHANGED log
              /\ worker.pc \notin {"idle", "tellAfter"}
          \/ log'[worker.t].status = "uploading" /\ worker'.pc # "hash"

Quiet ==
    /\ UNCHANGED <<channel, queue, started, have, settled, excused>>
    /\ told' \subseteq Transfers

LEMMA QuietKeeps ==
  ASSUME FulfillmentInv, NEW s \in {"received", "uploading"} \cup Closed,
         Quiet, Goes, Writes(s)
  PROVE  FulfillmentInv'
<1> USE FulfillmentAssumption DEF FulfillmentInv, StateTypes, Quiet, Goes, Writes
<1>1. FramesSound'
  BY SoundKept, FramesKept DEF channel
<1>2. /\ log' \in [Transfers ->
                   [order : Orders \cup {NoOrder}, kind : Kinds,
                    status : {"none", "received", "uploading"} \cup Closed]]
      /\ \A t \in Transfers :
            /\ log'[t].order = log[t].order
            /\ log'[t].kind = log[t].kind
            /\ t # worker.t => log'[t] = log[t]
            /\ log'[t].status = "completed" =>
                  \/ log[t].status = "completed"
                  \/ t = worker.t /\ s = "completed"
  BY DEF Close
<1>3. StateTypes'
  BY <1>2 DEF channel, Transfers
<1>4. RowsMatch'
  BY <1>2 DEF RowsMatch, Transfers
<1>5. AnswersTrue'
  BY DEF AnswersTrue
<1>6. CompletedIsConfirmed'
  BY <1>2 DEF CompletedIsConfirmed, KeyOf
<1> QED
  BY <1>1, <1>3, <1>4, <1>5, <1>6

\* The worker goes on with its transfer, or is done with it.
To(pc, win, try, wait) ==
    [pc |-> pc, t |-> worker.t, win |-> win, try |-> try, wait |-> wait]

\* What the buyer acknowledged only grows: a window allowed stays allowed.
LEMMA StillAbove ==
  /\ \A a, b \in Nat : b >= a => b + 1 >= a + 1
  /\ \A a, b, c \in Nat : b + 1 >= a + 1 /\ a + 1 >= c => b + 1 >= c
OBVIOUS

\* A step to any of these places keeps what the worker promises of itself.
LEMMA GoesOn ==
  ASSUME StateTypes, RowsMatch, BackpressureHolds,
         have' \in Nat, have' >= have,
         NEW pc \in {"await", "tellFailed", "tellTimedOut", "tellAfter"}
                     \cup Sending \cup Waiting,
         NEW win \in 0..Windows, NEW try \in 0..2,
         NEW wait \in {"none", "pending"},
         worker.pc # "idle",
         worker' = To(pc, win, try, wait),
         pc \in {"await", "acking"} => win < Windows,
         wait = "pending" => pc \in Waiting,
         pc \in {"stream", "await", "acking", "complete", "closing"} =>
            have + 1 >= win
  PROVE  Goes /\ worker'.pc = pc /\ worker'.t = worker.t
<1>1. worker.t # 0
  BY DEF RowsMatch
<1>2. /\ worker'.pc = pc /\ worker'.t = worker.t /\ worker'.win = win
      /\ worker'.try = try /\ worker'.wait = wait
  BY DEF To
<1>3. worker' \in
         [pc : {"idle", "hash", "await", "tellFailed", "tellTimedOut",
                "tellAfter"} \cup Sending \cup Waiting,
          t : {0, worker.t}, win : 0..Windows, try : 0..2,
          wait : {"none", "pending"}]
  BY DEF To
<1>4. BackpressureHolds'
  <2>1. have \in Nat /\ win \in Nat
    BY FulfillmentAssumption DEF StateTypes
  <2>2. have' + 1 >= have + 1
    <3>1. have' \in Nat
      OBVIOUS
    <3> QED
      BY <2>1, <3>1, StillAbove
  <2> QED
    BY <1>2, <2>1, <2>2, StillAbove DEF BackpressureHolds
<1>5. worker'.t # 0 /\ worker'.pc # "idle"
  BY <1>1, <1>2 DEF Sending, Waiting
<1> QED
  BY <1>2, <1>3, <1>4, <1>5 DEF Goes

LEMMA GoesIdle ==
  ASSUME StateTypes, worker' = Idle
  PROVE  Goes /\ worker'.t = 0
  BY FulfillmentAssumption DEF StateTypes, Goes, Idle, BackpressureHolds

LEMMA GotoIsTo ==
  ASSUME StateTypes, NEW pc, Goto(pc)
  PROVE  worker' = To(pc, worker.win, worker.try, "none")
  BY DEF StateTypes, Goto, To

LEMMA GotoPc ==
  ASSUME StateTypes, NEW pc, Goto(pc) \/ worker' = Idle
  PROVE  worker'.pc \in {pc, "idle"}
<1>1. CASE Goto(pc)
  BY <1>1, GotoIsTo DEF To
<1>2. CASE worker' = Idle
  BY <1>2 DEF Idle
<1> QED
  BY <1>1, <1>2

LEMMA WorkerFields ==
  ASSUME StateTypes, RowsMatch
  PROVE  /\ worker.win \in 0..Windows /\ worker.try \in 0..2
         /\ worker.pc # "idle" => worker.t \in Transfers /\ worker.t # 0
         /\ worker.t \in Transfers => worker.t # 0
  BY FulfillmentAssumption DEF StateTypes, RowsMatch, Transfers

\* What the row of the transfer says after a step.
LEMMA WritesClosed ==
  ASSUME StateTypes, worker.t \in Transfers, NEW s, Close(s),
         s = "completed" => KeyOf(worker.t) \in settled,
         worker'.t = 0 \/ worker'.pc = "tellAfter"
  PROVE  Writes(s)
  BY DEF StateTypes, Writes, Transfers

LEMMA WritesNothing ==
  ASSUME StateTypes, RowsMatch, UNCHANGED log,
         \/ worker'.t = 0
         \/ worker'.pc = "tellAfter"
         \/ worker'.pc = "tellFailed" /\ worker.pc \notin {"idle", "tellAfter"}
         \/ /\ worker'.pc # "hash"
            /\ worker.pc \notin {"idle", "tellAfter", "hash", "tellFailed"}
  PROVE  Writes("failed")
  BY DEF Writes, RowsMatch

LEMMA QuietStep ==
  ASSUME FulfillmentInv,
         \/ Hashed \/ ReadFails \/ SendFails \/ AwaitAck \/ WindowAcked
         \/ WindowFails \/ Resend \/ Timeout \/ Complete \/ Unconfirmed
         \/ TellAndClose \/ TellAfter
  PROVE  FulfillmentInv'
<1>1. /\ StateTypes /\ RowsMatch /\ AnswersTrue /\ BackpressureHolds
      /\ told \subseteq Transfers /\ have \in Nat /\ have >= have
      /\ worker.win \in 0..Windows /\ worker.try \in 0..2
      /\ worker.pc # "idle" => worker.t \in Transfers /\ worker.t # 0
  BY WorkerFields, FulfillmentAssumption DEF FulfillmentInv, StateTypes
<1>2. CASE Hashed
  <2>1. Quiet
    BY <1>1, <1>2 DEF Quiet, Hashed, rows, history
  <2>2. /\ worker.pc = "hash" /\ Close("uploading") /\ UNCHANGED have
        /\ worker' = To("meta", worker.win, worker.try, "none")
    BY <1>1, <1>2, GotoIsTo DEF Hashed
  <2>3. Goes /\ worker'.pc = "meta" /\ worker'.t = worker.t
    BY <1>1, <2>2, GoesOn DEF Sending
  <2>4. Writes("uploading")
    BY <1>1, <2>2, <2>3 DEF Writes, Close, StateTypes
  <2> QED
    BY <2>1, <2>3, <2>4, QuietKeeps DEF Closed
<1>3. CASE ReadFails
  <2>1. Quiet
    BY <1>1, <1>3 DEF Quiet, ReadFails, rows, history
  <2>2. /\ worker.pc \in {"hash", "stream"} /\ UNCHANGED <<have, log>>
        /\ worker' = To("tellFailed", worker.win, worker.try, "none")
    BY <1>1, <1>3, GotoIsTo DEF ReadFails, rows
  <2>3. Goes /\ worker'.pc = "tellFailed"
    BY <1>1, <2>2, GoesOn
  <2>4. Writes("failed")
    BY <1>1, <2>2, <2>3, WritesNothing
  <2> QED
    BY <2>1, <2>3, <2>4, QuietKeeps DEF Closed
<1>4. CASE SendFails
  <2>1. Quiet
    BY <1>1, <1>4 DEF Quiet, SendFails, rows, history
  <2>2. worker.pc \in Sending /\ worker.pc # "idle" /\ UNCHANGED have
    BY <1>4 DEF SendFails, Sending
  <2>3. CASE Close("failed") /\ Goto("tellAfter")
    <3>1. Goes /\ worker'.pc = "tellAfter"
      BY <1>1, <2>2, <2>3, GotoIsTo, GoesOn
    <3> QED
      BY <1>1, <2>1, <2>2, <2>3, <3>1, WritesClosed, QuietKeeps DEF Closed
  <2>4. CASE Close("failed") /\ worker' = Idle
    BY <1>1, <2>1, <2>2, <2>4, GoesIdle, WritesClosed, QuietKeeps DEF Closed
  <2>5. CASE Goto("tellFailed") /\ UNCHANGED log
    <3>1. Goes /\ worker'.pc = "tellFailed"
      BY <1>1, <2>2, <2>5, GotoIsTo, GoesOn
    <3>2. Writes("failed")
      BY <1>1, <2>2, <2>5, <3>1, WritesNothing DEF Sending
    <3> QED
      BY <2>1, <3>1, <3>2, QuietKeeps DEF Closed
  <2> QED
    BY <1>4, <2>3, <2>4, <2>5 DEF SendFails
<1>5. CASE AwaitAck
  <2>1. Quiet
    BY <1>1, <1>5 DEF Quiet, AwaitAck, rows, history
  <2>2. /\ worker.pc = "await" /\ UNCHANGED <<have, log>>
        /\ worker' = To("acking", worker.win, worker.try, "pending")
    BY <1>1, <1>5 DEF AwaitAck, rows, StateTypes, To
  <2>3. Goes /\ worker'.pc = "acking"
    BY <1>1, <2>2, GoesOn DEF Waiting, RowsMatch, BackpressureHolds
  <2>4. Writes("failed")
    BY <1>1, <2>2, <2>3, WritesNothing
  <2> QED
    BY <2>1, <2>3, <2>4, QuietKeeps DEF Closed
<1>6. CASE WindowAcked
  <2>1. Quiet
    BY <1>1, <1>6 DEF Quiet, WindowAcked, rows, history
  <2>2. /\ worker.pc = "acking" /\ have >= worker.win /\ UNCHANGED <<have, log>>
        /\ worker' = To("stream", worker.win + 1, 1, "none")
    BY <1>1, <1>6 DEF WindowAcked, rows, StateTypes, AnswersTrue, To
  <2>3. Goes /\ worker'.pc = "stream"
    <3>1. worker.win + 1 \in 0..Windows /\ have + 1 >= worker.win + 1
      BY <1>1, <2>2, FulfillmentAssumption DEF RowsMatch, StateTypes
    <3> QED
      BY <1>1, <2>2, <3>1, GoesOn DEF Sending
  <2>4. Writes("failed")
    BY <1>1, <2>2, <2>3, WritesNothing
  <2> QED
    BY <2>1, <2>3, <2>4, QuietKeeps DEF Closed
<1>7. CASE WindowFails
  <2>1. Quiet
    BY <1>1, <1>7 DEF Quiet, WindowFails, rows, history
  <2>2. worker.pc = "acking" /\ Close("failed") /\ worker' = Idle
    BY <1>7 DEF WindowFails
  <2>3. Goes /\ worker'.t = 0
    BY <1>1, <2>2, GoesIdle
  <2>4. Writes("failed")
    BY <1>1, <2>2, <2>3, WritesClosed
  <2> QED
    BY <2>1, <2>3, <2>4, QuietKeeps DEF Closed
<1>8. CASE Resend
  <2>1. Quiet
    BY <1>1, <1>8 DEF Quiet, Resend, rows, history
  <2>2. /\ worker.pc = "s3wait" /\ UNCHANGED <<have, log>>
        /\ worker' = To("s3send", worker.win, 2, "none")
    BY <1>1, <1>8 DEF Resend, rows, StateTypes, To
  <2>3. Goes /\ worker'.pc = "s3send"
    BY <1>1, <2>2, GoesOn DEF Sending
  <2>4. Writes("failed")
    BY <1>1, <2>2, <2>3, WritesNothing
  <2> QED
    BY <2>1, <2>3, <2>4, QuietKeeps DEF Closed
<1>9. CASE Timeout
  <2>1. Quiet
    BY <1>1, <1>9 DEF Quiet, Timeout, rows, history
  <2>2. UNCHANGED have
    BY <1>9 DEF Timeout
  <2>3. CASE worker.pc = "acking" /\ UNCHANGED log
    <3>1. \/ worker' = To("stream", worker.win, 2, "none")
          \/ worker' = To("tellTimedOut", worker.win, worker.try, "none")
      BY <1>1, <1>9, <2>3, GotoIsTo DEF Timeout, StateTypes, To
    <3>2. Goes /\ worker'.pc \in {"stream", "tellTimedOut"}
      BY <1>1, <2>2, <2>3, <3>1, GoesOn DEF Sending, BackpressureHolds
    <3>3. Writes("failed")
      BY <1>1, <2>3, <3>2, WritesNothing
    <3> QED
      BY <2>1, <3>2, <3>3, QuietKeeps DEF Closed
  <2>4. CASE worker.pc = "closing" /\ Close("failed") /\ Goto("tellAfter")
    <3>1. Goes /\ worker'.pc = "tellAfter"
      BY <1>1, <2>2, <2>4, GotoIsTo, GoesOn
    <3> QED
      BY <1>1, <2>1, <2>4, <3>1, WritesClosed, QuietKeeps DEF Closed
  <2>5. CASE worker.pc = "s3wait" /\ Close("failed") /\ worker' = Idle
    BY <1>1, <2>1, <2>5, GoesIdle, WritesClosed, QuietKeeps DEF Closed
  <2> QED
    <3>1. worker.pc \in {"acking", "closing", "s3wait"}
      BY <1>1, <1>9 DEF Timeout, RowsMatch, Waiting
    <3>2. worker.pc = "acking" => UNCHANGED log
      BY <1>9 DEF Timeout
    <3> QED
      BY <1>9, <2>3, <2>4, <2>5, <3>1, <3>2 DEF Timeout
<1>10. CASE Complete
  <2>1. Quiet
    BY <1>1, <1>10 DEF Quiet, Complete, rows, history
  <2>2. /\ worker.pc \in {"closing", "s3wait"}
        /\ KeyOf(worker.t) \in settled
        /\ Close("completed") /\ worker' = Idle
    BY <1>1, <1>10 DEF Complete, AnswersTrue
  <2>3. Goes /\ worker'.t = 0
    BY <1>1, <2>2, GoesIdle
  <2>4. Writes("completed")
    BY <1>1, <2>2, <2>3, WritesClosed
  <2> QED
    BY <2>1, <2>3, <2>4, QuietKeeps DEF Closed
<1>11. CASE Unconfirmed
  <2>1. Quiet
    BY <1>1, <1>11 DEF Quiet, Unconfirmed, rows, history
  <2>2. /\ worker.pc \in {"closing", "s3wait"} /\ Close("failed")
        /\ Goto("tellAfter") \/ worker' = Idle
        /\ UNCHANGED have
    BY <1>11 DEF Unconfirmed
  <2>3. Goes /\ (worker'.pc = "tellAfter" \/ worker'.t = 0)
    BY <1>1, <2>2, GotoIsTo, GoesOn, GoesIdle
  <2>4. Writes("failed")
    BY <1>1, <2>2, <2>3, WritesClosed
  <2> QED
    BY <2>1, <2>3, <2>4, QuietKeeps DEF Closed
<1>12. CASE TellAndClose
  <2>1. Quiet
    BY <1>1, <1>12 DEF Quiet, TellAndClose, rows, history, Tell
  <2>2. /\ worker.pc \in {"tellFailed", "tellTimedOut"} /\ worker' = Idle
        /\ Close("failed") \/ Close("timed_out")
    BY <1>12 DEF TellAndClose
  <2>3. Goes /\ worker'.t = 0
    BY <1>1, <2>2, GoesIdle
  <2>4. Writes("failed") \/ Writes("timed_out")
    BY <1>1, <2>2, <2>3, WritesClosed
  <2> QED
    BY <2>1, <2>3, <2>4, QuietKeeps DEF Closed
<1>13. CASE TellAfter
  <2>1. Quiet
    BY <1>1, <1>13 DEF Quiet, TellAfter, rows, history, Tell
  <2>2. UNCHANGED log /\ worker' = Idle
    BY <1>13 DEF TellAfter, rows
  <2>3. Goes /\ worker'.t = 0
    BY <1>1, <2>2, GoesIdle
  <2>4. Writes("failed")
    BY <1>1, <2>2, <2>3, WritesNothing
  <2> QED
    BY <2>1, <2>3, <2>4, QuietKeeps DEF Closed
<1> QED
  BY <1>2, <1>3, <1>4, <1>5, <1>6, <1>7, <1>8, <1>9, <1>10, <1>11, <1>12, <1>13

\* Sending puts sound answers on their way.
LEMMA SendKeeps ==
  ASSUME FulfillmentInv,
         UNCHANGED <<online, acking, acked, queue, rows, told, excused>>,
         NEW r \in Seq(Sound'), inbox' = inbox \o r,
         have' \in 0..Windows, have' >= have,
         settled \subseteq settled',
         settled' \subseteq settled \cup {KeyOf(worker.t), worker.t},
         worker.pc \in Sending,
         Goes, worker'.t = worker.t, worker'.pc \in Sending \cup Waiting \cup {"await"}
  PROVE  FulfillmentInv'
<1> USE FulfillmentAssumption DEF FulfillmentInv
<1>1. /\ worker.t \in Transfers /\ worker.t <= started
      /\ log[worker.t].order \in Orders
  BY WorkerFields DEF StateTypes, RowsMatch, Sending, Transfers
<1>2. FramesSound'
  <2>1. /\ StateTypes /\ started' = started /\ have' \in Nat
        /\ worker'.t \in {0, worker.t}
    BY DEF rows
  <2> QED
    BY <2>1, SoundKept, FramesSent
<1>3. StateTypes'
  BY <1>1 DEF StateTypes, Goes, rows, KeyOf, Transfers
<1>4. RowsMatch'
  <2>1. KeyOf(worker.t) \in Orders \/ KeyOf(worker.t) = worker.t
    BY <1>1 DEF KeyOf
  <2>2. ASSUME NEW t \in Transfers, t > started
        PROVE  t \notin settled'
    <3>1. t \notin settled
      BY <2>2 DEF RowsMatch
    <3>2. t \notin Orders /\ t # worker.t
      <4>1. started \in Nat /\ t \in 1..MaxDeliveries
        BY DEF StateTypes, Transfers
      <4>2. worker.t <= started /\ worker.t \in 1..MaxDeliveries
        BY <1>1 DEF Transfers
      <4>3. t \notin Orders
        BY <4>1
      <4> QED
        BY <2>2, <4>1, <4>2, <4>3
    <3> QED
      BY <2>1, <3>1, <3>2
  <2> QED
    BY <1>1, <2>2 DEF RowsMatch, Goes, rows, Sending, Waiting
<1>5. AnswersTrue'
  BY DEF Goes, AnswersTrue
<1>6. CompletedIsConfirmed'
  BY DEF CompletedIsConfirmed, KeyOf, rows
<1> QED
  BY <1>2, <1>3, <1>4, <1>5, <1>6 DEF Goes

LEMMA AppendedTail ==
  ASSUME FramesSound, NEW f
  PROVE  Append(inbox, f) = inbox \o <<f>>
<1>1. inbox \in Seq(Sound)
  BY DEF FramesSound
<1> QED
  BY <1>1

LEMMA KeyTyped ==
  ASSUME StateTypes, RowsMatch, worker.pc # "idle"
  PROVE  /\ worker.t \in Orders \cup Transfers \cup {NoOrder}
         /\ KeyOf(worker.t) \in Orders \cup Transfers \cup {NoOrder}
<1>1. worker.t \in Transfers
  BY WorkerFields
<1> QED
  BY <1>1 DEF KeyOf, StateTypes

LEMMA RefusalSound ==
  /\ <<>> \in Seq(Sound')
  /\ <<Refusal>> \in Seq(Sound')
  /\ <<Frame("limit", NoOrder, 0)>> \in Seq(Sound')
<1>1. Refusal \in Sound' /\ Frame("limit", NoOrder, 0) \in Sound'
  BY FulfillmentAssumption DEF Refusal, Frame, Sound, Frames
<1> QED
  BY <1>1

LEMMA SendStep ==
  ASSUME FulfillmentInv,
         SendMetadata \/ SendWindow \/ SendComplete \/ SendResponse
  PROVE  FulfillmentInv'
<1>1. /\ StateTypes /\ RowsMatch /\ AnswersTrue /\ BackpressureHolds
      /\ have \in 0..Windows /\ have \in Nat /\ have >= have
      /\ worker.win \in 0..Windows /\ worker.try \in 0..2
      /\ worker.pc # "idle" => worker.t \in Transfers /\ worker.t <= started
      /\ Windows \in Nat \ {0}
      /\ settled \subseteq settled /\ settled \subseteq settled \cup {KeyOf(worker.t), worker.t}
  BY WorkerFields, FulfillmentAssumption DEF FulfillmentInv, StateTypes
<1>2. CASE SendMetadata
  <2>1. /\ worker.pc = "meta"
        /\ UNCHANGED <<online, acking, acked, queue, rows, have, history>>
        /\ worker' = [worker EXCEPT !.pc = "stream", !.win = 1, !.try = 1]
        /\ worker.wait = "none"
    BY <1>1, <1>2 DEF SendMetadata, RowsMatch, Waiting
  <2>0. worker' = To("stream", 1, 1, "none")
    BY <1>1, <2>1 DEF StateTypes, To
  <2>2. PICK r \in {<<>>, <<Refusal>>} : inbox' = inbox \o r
    BY <1>2 DEF SendMetadata
  <2>3. Goes /\ worker'.pc = "stream" /\ worker'.t = worker.t
    <3>1. /\ 1 \in 0..Windows /\ have + 1 >= 1 /\ 1 \in 0..2
          /\ worker.pc # "idle" /\ have' \in Nat /\ have' >= have
      BY <1>1, <2>1
    <3>2. "stream" \in Sending
      BY DEF Sending
    <3> QED
      BY <1>1, <2>0, <2>1, <3>1, <3>2, GoesOn
  <2> QED
    BY <1>1, <2>1, <2>2, <2>3, RefusalSound, SendKeeps DEF history, Sending
<1>3. CASE SendWindow
  <2>1. /\ worker.pc = "stream"
        /\ UNCHANGED <<online, acking, acked, queue, rows, history>>
        /\ worker' = To(IF worker.win = Windows THEN "complete" ELSE "await",
                        worker.win, worker.try, "none")
    BY <1>1, <1>3, GotoIsTo DEF SendWindow
  <2>2. PICK got \in BOOLEAN :
          /\ have' = IF got /\ have + 1 = worker.win THEN worker.win ELSE have
          /\ \E r \in {<<>>, <<Refusal>>}
                      \cup IF got THEN {<<Frame("ack", worker.t, have')>>}
                           ELSE {} :
                inbox' = inbox \o r
    BY <1>3 DEF SendWindow
  <2>3. have' \in 0..Windows /\ have' >= have
    BY <1>1, <2>2
  <2>4. PICK r \in {<<>>, <<Refusal>>, <<Frame("ack", worker.t, have')>>} :
           inbox' = inbox \o r
    BY <2>2
  <2>5. Goes /\ worker'.t = worker.t /\ worker'.pc \in {"complete", "await"}
    BY <1>1, <2>1, <2>3, GoesOn DEF Sending, BackpressureHolds
  <2>6. Frame("ack", worker.t, have') \in Sound'
    <3>1. worker.t \in Transfers /\ worker.t \in 1..started' /\ worker'.t = worker.t
      BY <1>1, <2>1, <2>5 DEF rows, StateTypes, Transfers
    <3> QED
      BY <2>3, <3>1 DEF Frame, Sound, Frames
  <2>7. r \in Seq(Sound')
    <3>1. <<Frame("ack", worker.t, have')>> \in Seq(Sound')
      BY <2>6
    <3> QED
      BY <2>4, <3>1, RefusalSound, Zenon
  <2> QED
    BY <1>1, <2>1, <2>3, <2>4, <2>5, <2>7, SendKeeps DEF history, Sending
<1>4. CASE SendComplete
  <2>1. /\ worker.pc = "complete"
        /\ UNCHANGED <<online, acking, acked, queue, rows, have, told, excused>>
        /\ worker' = To("closing", worker.win, worker.try, "pending")
    BY <1>1, <1>4 DEF SendComplete, StateTypes, To
  <2>2. Goes /\ worker'.pc = "closing" /\ worker'.t = worker.t
    BY <1>1, <2>1, GoesOn DEF Waiting, BackpressureHolds
  <2>3. CASE (\E r \in {<<>>, <<Refusal>>} : inbox' = inbox \o r) /\ UNCHANGED settled
    BY <1>1, <2>1, <2>2, <2>3, RefusalSound, SendKeeps DEF Sending, Waiting
  <2>4. CASE /\ settled' = settled \cup {worker.t}
             /\ inbox' = Append(inbox, Frame("grant", worker.t, 0))
    <3> DEFINE f == Frame("grant", worker.t, 0)
    <3>1. f \in Sound'
      BY <1>1, <2>1, <2>2, <2>4, KeyTyped DEF Frame, Sound, Frames, rows
    <3>2. <<f>> \in Seq(Sound') /\ inbox' = inbox \o <<f>>
      BY <2>4, <3>1, AppendedTail DEF FulfillmentInv
    <3> QED
      BY <1>1, <2>1, <2>2, <2>4, <3>2, SendKeeps DEF Sending, Waiting
  <2> QED
    BY <1>4, <2>3, <2>4 DEF SendComplete
<1>5. CASE SendResponse
  <2>1. /\ worker.pc = "s3send"
        /\ UNCHANGED <<online, acking, acked, queue, rows, have, told, excused>>
        /\ worker' = To("s3wait", worker.win, worker.try, "pending")
    BY <1>1, <1>5 DEF SendResponse, StateTypes, To
  <2>2. Goes /\ worker'.pc = "s3wait" /\ worker'.t = worker.t
    BY <1>1, <2>1, GoesOn DEF Waiting
  <2>3. CASE /\ \E r \in {<<>>, <<Refusal>>, <<Frame("limit", NoOrder, 0)>>} :
                  inbox' = inbox \o r
             /\ UNCHANGED settled
    BY <1>1, <2>1, <2>2, <2>3, RefusalSound, SendKeeps DEF Sending, Waiting
  <2>4. CASE /\ settled' = settled \cup {KeyOf(worker.t)}
             /\ inbox' = Append(inbox, Frame("grant", KeyOf(worker.t), 0))
    <3> DEFINE f == Frame("grant", KeyOf(worker.t), 0)
    <3>1. f \in Sound'
      BY <1>1, <2>1, <2>2, <2>4, KeyTyped DEF Frame, Sound, Frames, rows
    <3>2. <<f>> \in Seq(Sound') /\ inbox' = inbox \o <<f>>
      BY <2>4, <3>1, AppendedTail DEF FulfillmentInv
    <3> QED
      BY <1>1, <2>1, <2>2, <2>4, <3>2, SendKeeps DEF Sending, Waiting
  <2> QED
    BY <1>5, <2>3, <2>4 DEF SendResponse
<1> QED
  BY <1>2, <1>3, <1>4, <1>5

LEMMA CrashStep ==
  ASSUME FulfillmentInv, CrashRestart
  PROVE  FulfillmentInv'
<1>1. /\ UNCHANGED <<acked, rows, history>>
      /\ online' = FALSE /\ inbox' = <<>> /\ acking' = NoOrder /\ queue' = <<>>
      /\ worker' = Idle /\ have' = 0
  BY DEF CrashRestart
<1>2. online' \in BOOLEAN
  BY <1>1, Zenon
<1>3. StateTypes'
  BY <1>1, <1>2, FulfillmentAssumption
  DEF FulfillmentInv, StateTypes, rows, history, Idle
<1>4. RowsMatch' /\ AnswersTrue' /\ BackpressureHolds'
  BY <1>1 DEF FulfillmentInv, RowsMatch, AnswersTrue, BackpressureHolds, rows,
              history, Idle
<1>5. CompletedIsConfirmed'
  BY <1>1 DEF FulfillmentInv, CompletedIsConfirmed, KeyOf, rows, history
<1>6. FramesSound'
  BY <1>1, FramesLost
<1> QED
  BY <1>3, <1>4, <1>5, <1>6 DEF FulfillmentInv

LEMMA StutterStep ==
  ASSUME FulfillmentInv, UNCHANGED vars
  PROVE  FulfillmentInv'
  BY DEF FulfillmentInv, vars, channel, rows, history, bounds, StateTypes,
         FramesSound, Sound, RowsMatch, AnswersTrue, BackpressureHolds,
         CompletedIsConfirmed, KeyOf

LEMMA FulfillmentInvariant == Spec => []FulfillmentInv
<1>1. FulfillmentInv /\ [Next]_vars => FulfillmentInv'
  <2> SUFFICES ASSUME FulfillmentInv, [Next]_vars PROVE FulfillmentInv'
    OBVIOUS
  <2> QED
    BY ChannelStep, TakeStep, QuietStep, SendStep, CrashStep, StutterStep
    DEF Next, WorkerStep
<1> QED
  BY <1>1, FulfillmentInit, PTL DEF Spec

-----------------------------------------------------------------------------
\* The frames, the queue, the worker's locals and the rows keep their types.
THEOREM FulfillmentTypes == Spec => []TypeOK
<1>1. FulfillmentInv => TypeOK
  BY FramesTyped DEF FulfillmentInv
<1> QED
  BY <1>1, FulfillmentInvariant, PTL

\* _confirmed_result: for any number of lost connections, restarts, repeated
\* and late answers, a row says completed only if the server confirmed it.
THEOREM CompletedWasConfirmed == Spec => []CompletedIsConfirmed
  BY FulfillmentInvariant, PTL DEF FulfillmentInv

\* _validate_ack: for any number of windows, none is sent before the server
\* holds all earlier ones, although acknowledgements come late and twice.
THEOREM WindowsAreBacked == Spec => []BackpressureHolds
  BY FulfillmentInvariant, PTL DEF FulfillmentInv

-----------------------------------------------------------------------------
\* The state of the log the rows stand for.
Statuses  == [t \in Transfers |-> log[t].status]
Active    == IF worker.pc \in {"idle", "tellAfter"} THEN 0 ELSE worker.t
Confirmed == {t \in Transfers : KeyOf(t) \in settled}

\* A step that leaves the rows alone.
LEMMA LogKept ==
  ASSUME UNCHANGED <<log, crashes>>, Active' = Active,
         Confirmed \subseteq Confirmed'
  PROVE  Log!Next \/ UNCHANGED Log!vars
<1>1. Statuses' = Statuses
  BY DEF Statuses
<1>2. CASE Confirmed' = Confirmed
  BY <1>1, <1>2 DEF Log!vars, Statuses, Active, Confirmed
<1>3. Confirmed' \in SUBSET Transfers
  BY DEF Confirmed
<1>4. Log!Settle(Confirmed')
  BY <1>1 DEF Log!Settle, Statuses, Active, Confirmed
<1> QED
  BY <1>3, <1>4 DEF Log!Next

\* A step that closes the worker's row.
LEMMA LogClosed ==
  ASSUME FulfillmentInv, UNCHANGED <<settled, crashes>>,
         worker.pc \notin {"idle", "tellAfter"}, Active' = 0,
         NEW s \in Closed, Close(s),
         s = "completed" => KeyOf(worker.t) \in settled
                            /\ log[worker.t].status = "uploading"
  PROVE  Log!Next
<1>1. PICK t \in Transfers : t = worker.t
  BY WorkerFields DEF FulfillmentInv
<1>0. /\ Active = t /\ log[t].status \in {"received", "uploading"}
      /\ log' = [log EXCEPT ![t].status = s]
      /\ s = "completed" => KeyOf(t) \in settled /\ log[t].status = "uploading"
  <2>1. Active = t
    BY <1>1 DEF Active
  <2>2. log[t].status \in {"received", "uploading"}
    BY <1>1 DEF FulfillmentInv, RowsMatch
  <2>3. log' = [log EXCEPT ![t].status = s]
    BY <1>1 DEF Close
  <2> QED
    BY <1>1, <2>1, <2>2, <2>3
<1>2. /\ Statuses' = [Statuses EXCEPT ![t] = s]
      /\ Statuses[t] = log[t].status
      /\ Confirmed' = Confirmed
  <2>1. log \in [Transfers ->
                  [order : Orders \cup {NoOrder}, kind : Kinds,
                   status : {"none", "received", "uploading"} \cup Closed]]
    BY DEF FulfillmentInv, StateTypes
  <2>2. \A u \in Transfers :
           /\ log'[u].status = IF u = t THEN s ELSE log[u].status
           /\ log'[u].order = log[u].order
           /\ log'[u].kind = log[u].kind
    BY <1>0, <2>1
  <2>3. Statuses' = [Statuses EXCEPT ![t] = s]
    BY <2>2 DEF Statuses
  <2> QED
    BY <2>2, <2>3 DEF Statuses, Confirmed, KeyOf
<1>3. CASE s = "completed"
  <2>1. Log!Complete(t)
    BY <1>0, <1>2, <1>3 DEF Log!Complete, Statuses, Active, Confirmed
  <2> QED
    BY <1>1, <2>1 DEF Log!Next
<1>4. CASE s \in {"failed", "timed_out"}
  <2>1. Log!Fail(t)
    BY <1>0, <1>2, <1>4 DEF Log!Fail, Log!Open, Statuses, Active, Confirmed
  <2> QED
    BY <1>1, <2>1 DEF Log!Next
<1> QED
  BY <1>3, <1>4 DEF Closed

\* The step that reads a request.
LEMMA LogTaken ==
  ASSUME FulfillmentInv, NEW kind \in Kinds, Take(kind)
  PROVE  Log!Next
<1>0. PICK t \in Transfers : t = started + 1
  BY DEF Take
<1>1. /\ worker.pc = "idle"
      /\ log' = [log EXCEPT ![t] =
                   [order |-> Head(queue), kind |-> kind,
                    status |-> IF kind = "s3" THEN "uploading" ELSE "received"]]
      /\ UNCHANGED <<settled, crashes>>
  BY <1>0 DEF Take, history, bounds
<1>2. worker'.t = t /\ worker'.pc \in {"tellFailed", "hash", "s3send"}
  BY <1>0 DEF Take, Idle, Kinds
<1>3. log[t] = NoRow /\ t \notin settled /\ t # 0
  BY <1>0 DEF FulfillmentInv, RowsMatch, StateTypes, Transfers
<1>4. /\ Statuses[t] = "none" /\ Active = 0 /\ Active' = t
      /\ Statuses' = [Statuses EXCEPT ![t] =
                        IF kind = "s3" THEN "uploading" ELSE "received"]
  <2> DEFINE st == IF kind = "s3" THEN "uploading" ELSE "received"
  <2>1. \A u \in Transfers :
           log'[u].status = IF u = t THEN st ELSE log[u].status
    BY <1>1 DEF FulfillmentInv, StateTypes
  <2>2. Statuses' = [Statuses EXCEPT ![t] =
                        IF kind = "s3" THEN "uploading" ELSE "received"]
    BY <2>1 DEF Statuses
  <2> QED
    BY <1>1, <1>2, <1>3, <2>2 DEF Statuses, Active, NoRow
<1>5. \A u \in Transfers : u # t => log'[u] = log[u]
  BY <1>1 DEF FulfillmentInv, StateTypes
<1>6. t \notin Confirmed
  BY <1>3 DEF Confirmed, KeyOf, NoRow
<1>7. CASE kind = "s3"
  <2>1. Confirmed' \in {Confirmed, Confirmed \cup {t}}
    BY <1>1, <1>5, <1>6 DEF Confirmed, KeyOf
  <2>2. Log!ReceiveAndOffer(t)
    BY <1>1, <1>4, <1>7, <2>1
    DEF Log!ReceiveAndOffer, Statuses, Active, Confirmed
  <2> QED
    BY <1>1, <2>2 DEF Log!Next
<1>8. CASE kind # "s3"
  <2>1. log'[t].kind = kind
    BY <1>1 DEF FulfillmentInv, StateTypes
  <2>2. Confirmed' = Confirmed
    BY <1>1, <1>3, <1>5, <1>6, <1>8, <2>1 DEF Confirmed, KeyOf
  <2>3. Log!Receive(t)
    BY <1>1, <1>4, <1>8, <2>2
    DEF Log!Receive, Statuses, Active, Confirmed
  <2> QED
    BY <1>1, <2>3 DEF Log!Next
<1> QED
  BY <1>7, <1>8

LEMMA LogUploads ==
  ASSUME FulfillmentInv, Hashed
  PROVE  Log!Next
<1>1. PICK t \in Transfers : t = worker.t /\ t # 0
  BY WorkerFields DEF FulfillmentInv, Hashed
<1>2. /\ worker.pc = "hash" /\ log[t].status = "received"
      /\ log' = [log EXCEPT ![t].status = "uploading"]
      /\ worker'.t = t /\ worker'.pc = "meta"
      /\ UNCHANGED <<settled, crashes>>
  BY <1>1
  DEF FulfillmentInv, RowsMatch, StateTypes, Hashed, Close, Goto, history, bounds
<1>3. \A u \in Transfers :
           /\ log'[u].status = IF u = t THEN "uploading" ELSE log[u].status
           /\ log'[u].order = log[u].order
           /\ log'[u].kind = log[u].kind
  BY <1>2 DEF FulfillmentInv, StateTypes
<1>4. /\ Statuses' = [Statuses EXCEPT ![t] = "uploading"]
      /\ Statuses[t] = "received"
      /\ Active = t /\ Active' = t /\ Confirmed' = Confirmed
  BY <1>1, <1>2, <1>3 DEF Statuses, Active, Confirmed, KeyOf
<1>5. Log!Upload(t)
  BY <1>2, <1>4 DEF Log!Upload, Statuses, Active, Confirmed
<1> QED
  BY <1>5 DEF Log!Next

LEMMA LogStep == FulfillmentInv /\ [Next]_vars => [Log!Next]_(Log!vars)
<1> SUFFICES ASSUME FulfillmentInv, [Next]_vars
             PROVE  Log!Next \/ UNCHANGED Log!vars
  OBVIOUS
<1>0. worker.pc # "idle" => worker.t \in Transfers
  BY WorkerFields DEF FulfillmentInv
<1>1. ASSUME UNCHANGED <<log, crashes, settled>>, Active' = Active
      PROVE  Log!Next \/ UNCHANGED Log!vars
  <2>1. Confirmed' = Confirmed
    BY <1>1 DEF Confirmed, KeyOf
  <2> QED
    BY <1>1, <2>1, LogKept
<1>2. CASE \/ \E o \in Orders : ServerOrders(o)
           \/ DispatchDeliver \/ DispatchReply \/ AckEvent
           \/ Disconnect \/ Reconnect
  <2>1. UNCHANGED <<log, crashes, settled>>
    BY <1>2 DEF ServerOrders, DispatchDeliver, DispatchReply, AckEvent,
                Disconnect, Reconnect, rows, history, bounds
  <2>2. worker'.pc = worker.pc /\ worker'.t = worker.t
    BY <1>2 DEF FulfillmentInv, StateTypes, ServerOrders, DispatchDeliver,
                DispatchReply, AckEvent, Disconnect, Reconnect
  <2> QED
    BY <1>1, <2>1, <2>2 DEF Active
<1>3. ASSUME NEW kind \in Kinds, Take(kind)
      PROVE  Log!Next \/ UNCHANGED Log!vars
  BY <1>3, LogTaken
<1>4. CASE Hashed
  BY <1>4, LogUploads
<1>5. CASE ReadFails \/ AwaitAck \/ WindowAcked \/ Resend \/ SendMetadata
            \/ SendWindow
  <2>1. UNCHANGED <<log, crashes, settled>>
    BY <1>5 DEF ReadFails, AwaitAck, WindowAcked, Resend, SendMetadata,
                SendWindow, rows, history, bounds
  <2>2. /\ worker'.t = worker.t
        /\ worker.pc \notin {"idle", "tellAfter"}
        /\ worker'.pc \notin {"idle", "tellAfter"}
    BY <1>5 DEF FulfillmentInv, StateTypes, ReadFails, AwaitAck, WindowAcked,
                Resend, SendMetadata, SendWindow, Goto
  <2> QED
    BY <1>1, <2>1, <2>2 DEF Active
<1>6. CASE SendComplete \/ SendResponse
  <2>1. UNCHANGED <<log, crashes>> /\ settled \subseteq settled'
    BY <1>6 DEF SendComplete, SendResponse, rows, bounds
  <2>2. /\ worker'.t = worker.t
        /\ worker.pc \notin {"idle", "tellAfter"}
        /\ worker'.pc \notin {"idle", "tellAfter"}
    BY <1>6 DEF FulfillmentInv, StateTypes, SendComplete, SendResponse
  <2>3. Confirmed \subseteq Confirmed' /\ Active' = Active
    BY <2>1, <2>2 DEF Confirmed, KeyOf, Active
  <2> QED
    BY <2>1, <2>3, LogKept
<1>7. ASSUME NEW s \in {"failed", "timed_out"}, Close(s),
             UNCHANGED <<settled, crashes>>,
             worker.pc \notin {"idle", "tellAfter"},
             worker'.pc \in {"idle", "tellAfter"}
      PROVE  Log!Next
  <2>1. Active' = 0 /\ s \in Closed /\ s # "completed"
    BY <1>7 DEF Active, Closed
  <2> QED
    BY <1>7, <2>1, LogClosed
<1>8. CASE SendFails
  <2>1. /\ worker.pc \notin {"idle", "tellAfter"}
        /\ UNCHANGED <<settled, crashes>>
    BY <1>8 DEF SendFails, Sending, history, bounds
  <2>2. CASE Close("failed") /\ worker'.pc \in {"idle", "tellAfter"}
    BY <1>7, <2>1, <2>2
  <2>3. CASE Goto("tellFailed") /\ UNCHANGED log
    BY <1>1, <2>1, <2>3 DEF Goto, Active, FulfillmentInv, StateTypes
  <2>4. \/ Close("failed") /\ (Goto("tellAfter") \/ worker' = Idle)
        \/ Goto("tellFailed") /\ UNCHANGED log
    BY <1>8 DEF SendFails
  <2>5. Goto("tellAfter") \/ worker' = Idle => worker'.pc \in {"idle", "tellAfter"}
    BY GotoPc DEF FulfillmentInv
  <2> QED
    BY <2>2, <2>3, <2>4, <2>5
<1>9. CASE WindowFails \/ Unconfirmed \/ TellAndClose
  <2>1. /\ worker.pc \notin {"idle", "tellAfter"}
        /\ UNCHANGED <<settled, crashes>>
        /\ Close("failed") \/ Close("timed_out")
        /\ Goto("tellAfter") \/ worker' = Idle
    BY <1>9 DEF WindowFails, Unconfirmed, TellAndClose, history, bounds
  <2>2. worker'.pc \in {"idle", "tellAfter"}
    BY <2>1, GotoPc DEF FulfillmentInv
  <2> QED
    BY <1>7, <2>1, <2>2
<1>10. CASE Timeout
  <2>1. UNCHANGED <<settled, crashes>>
    BY <1>10 DEF Timeout, history, bounds
  <2>2. worker.pc \in {"acking", "closing", "s3wait"}
    BY <1>10 DEF Timeout, FulfillmentInv, RowsMatch, Waiting
  <2>3. CASE worker.pc = "acking"
    <3>1. /\ UNCHANGED log /\ worker'.t = worker.t
          /\ worker'.pc \in {"stream", "tellTimedOut"}
      BY <1>10, <2>3 DEF Timeout, Goto, FulfillmentInv, StateTypes
    <3> QED
      BY <1>1, <2>1, <2>3, <3>1 DEF Active
  <2>4. CASE worker.pc \in {"closing", "s3wait"}
    <3>1. Close("failed") /\ (Goto("tellAfter") \/ worker' = Idle)
      BY <1>10, <2>4 DEF Timeout
    <3>2. worker'.pc \in {"idle", "tellAfter"}
      BY <3>1, GotoPc DEF FulfillmentInv
    <3> QED
      BY <1>7, <2>1, <2>4, <3>1, <3>2
  <2> QED
    BY <2>2, <2>3, <2>4
<1>11. CASE Complete
  <2>1. /\ worker.pc \in {"closing", "s3wait"} /\ Close("completed")
        /\ KeyOf(worker.t) \in settled
        /\ worker'.pc = "idle" /\ UNCHANGED <<settled, crashes>>
    BY <1>11 DEF Complete, Idle, FulfillmentInv, AnswersTrue, history, bounds
  <2>2. log[worker.t].status = "uploading"
    BY <2>1 DEF FulfillmentInv, RowsMatch
  <2>3. Active' = 0 /\ "completed" \in Closed
    BY <2>1 DEF Active, Closed
  <2> QED
    BY <2>1, <2>2, <2>3, LogClosed
<1>12. CASE TellAfter
  <2>1. /\ UNCHANGED <<log, crashes, settled>>
        /\ worker.pc = "tellAfter" /\ worker'.pc = "idle"
    BY <1>12 DEF TellAfter, Idle, rows, bounds
  <2> QED
    BY <1>1, <2>1 DEF Active
<1>13. CASE CrashRestart
  <2>1. UNCHANGED <<log, settled>> /\ worker'.pc = "idle"
        /\ crashes' = crashes + 1
    BY <1>13 DEF CrashRestart, Idle, rows, history
  <2>2. Log!Restart
    BY <2>1 DEF Log!Restart, KeyOf
  <2> QED
    BY <2>2 DEF Log!Next
<1>14. CASE UNCHANGED vars
  BY <1>1, <1>14 DEF vars, rows, history, bounds, Active
<1>15. CASE WorkerStep
  BY <1>3, <1>4, <1>5, <1>6, <1>8, <1>9, <1>10, <1>11, <1>12, <1>15, Zenon
  DEF WorkerStep
<1> QED
  <2>1. \/ \/ \E o \in Orders : ServerOrders(o)
           \/ DispatchDeliver \/ DispatchReply \/ AckEvent
           \/ Disconnect \/ Reconnect
        \/ WorkerStep \/ CrashRestart \/ UNCHANGED vars
    BY DEF Next
  <2> QED
    BY <2>1, <1>2, <1>13, <1>14, <1>15

\* For any number of transfers and restarts the rows are the log of
\* FulfillmentLog: one open row in the running process, each closed once.
THEOREM RowsAreLog == Spec => KeepsLog
<1>1. Init => Log!Init
  BY DEF Init, Log!Init, Idle, KeyOf
<1> QED
  BY <1>1, LogStep, FulfillmentInvariant, PTL DEF Spec, KeepsLog, Log!Spec
=============================================================================
