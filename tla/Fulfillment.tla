---------------------------- MODULE Fulfillment ----------------------------
(***************************************************************************)
(* Delivery of a sold dataset over the trust channel:                      *)
(* app/services/fulfillment_service.py (the queue, its one worker, windows *)
(* of chunks, the S3 response) with the parts of trust_channel_client.py   *)
(* it depends on (the listener, the waiters, reconnection).                *)
(*                                                                         *)
(* The server's frames arrive in the order they were sent and are lost     *)
(* with the connection.  An action of the worker is the code between two   *)
(* awaits; the listener's is the dispatch of one frame.  The server is     *)
(* external: it gets a message or not, and answers or not.                 *)
(***************************************************************************)
EXTENDS Naturals, Sequences

CONSTANTS Orders,        \* orders the marketplace asks to deliver
          NoOrder,       \* not an order
          Windows,       \* windows of WINDOW_SIZE chunks in a file
          MaxDeliveries, \* bound: vai.fulfillment.deliver events
          MaxDrops,      \* bound: lost connections
          MaxCrashes     \* bound: process deaths

ASSUME FulfillmentAssumption ==
    /\ NoOrder \notin Orders
    /\ Orders \cap (1..MaxDeliveries) = {}  \* request and transfer ids differ
    /\ Windows \in Nat \ {0}
    /\ MaxDeliveries \in Nat
    /\ MaxDrops \in Nat
    /\ MaxCrashes \in Nat

VARIABLES
    online,     \* the session is established
    inbox,      \* frames on their way to the listener
    acking,     \* the order whose event the listener is acknowledging
    acked,      \* orders whose event the server knows was taken
    queue,      \* FulfillmentService._queue
    started,    \* transfers begun: their rows are 1..started
    log,        \* log[t]: the row of transfer t
    worker,     \* what _process_queue is doing
    have,       \* windows of this transfer the server holds, without a gap
    settled,    \* history: transfers or S3 orders the server confirmed
    told,       \* history: transfers a vai.fulfillment.error was sent for
    excused,    \* history: transfers the server refused or a drop hit
    deliveries, \* deliver events so far
    drops,      \* lost connections so far
    crashes     \* process deaths so far

channel == <<online, inbox, acking, acked>>
rows    == <<started, log>>
history == <<settled, told, excused>>
bounds  == <<deliveries, drops, crashes>>
vars == <<channel, queue, rows, worker, have, history, bounds>>

Transfers == 1..MaxDeliveries
Kinds     == {"local", "s3", "absent"}
Closed    == {"completed", "failed", "timed_out"}

\* The worker: where it is, its transfer, window, attempt, and its waiter.
Idle == [pc |-> "idle", t |-> 0, win |-> 0, try |-> 0, wait |-> "none"]

Sending == {"meta", "stream", "complete", "s3send"}
Waiting == {"acking", "closing", "s3wait"}

Frame(type, key, through) == [type |-> type, key |-> key, through |-> through]
Refusal == Frame("refuse", NoOrder, 0)

\* What correlates a final answer: the transfer's own request, or the
\* request the S3 order came with.
KeyOf(t) == IF log[t].kind = "s3" THEN log[t].order ELSE t

Init ==
    /\ online = TRUE
    /\ inbox = <<>>
    /\ acking = NoOrder
    /\ acked = {}
    /\ queue = <<>>
    /\ started = 0
    /\ log = [t \in Transfers |->
                [order |-> NoOrder, kind |-> "absent", status |-> "none"]]
    /\ worker = Idle
    /\ have = 0
    /\ settled = {}
    /\ told = {}
    /\ excused = {}
    /\ deliveries = 0
    /\ drops = 0
    /\ crashes = 0

-----------------------------------------------------------------------------
(* The channel *)

ServerOrders(o) ==
    /\ online
    /\ deliveries < MaxDeliveries
    /\ deliveries' = deliveries + 1
    /\ inbox' = Append(inbox, Frame("deliver", o, 0))
    /\ UNCHANGED <<online, acking, acked, queue, rows, worker, have, history,
                   drops, crashes>>

\* The handler enqueues before the acknowledgement's send is over.  If that
\* send fails at once, the handler never runs: that is Disconnect.
DispatchDeliver ==
    /\ online
    /\ acking = NoOrder
    /\ inbox # <<>> /\ Head(inbox).type = "deliver"
    /\ inbox' = Tail(inbox)
    /\ queue' = Append(queue, Head(inbox).key)
    /\ acking' = Head(inbox).key
    /\ UNCHANGED <<online, acked, rows, worker, have, history, bounds>>

\* Mutant: the last window's acknowledgement will do.
ValidateAckLoosely(through, expected) ==
    IF through + 1 >= expected THEN "ok" ELSE "short"

ValidateAck(through, expected) ==
    IF through >= expected THEN "ok" ELSE "short"

\* Who waits for frame m.
Awaits(m) ==
    /\ worker.wait = "pending"
    /\ CASE m.type = "ack"    -> worker.pc = "acking" /\ worker.t = m.key
         [] m.type = "grant"  -> /\ worker.pc \in {"closing", "s3wait"}
                                 /\ KeyOf(worker.t) = m.key
         [] m.type = "limit"  -> worker.pc = "s3wait"
         [] m.type = "refuse" -> TRUE

Result(m) ==
    CASE m.type = "ack"    -> ValidateAck(m.through, worker.win)
      [] m.type = "grant"  -> "ok"
      [] m.type = "limit"  -> "limited"
      [] m.type = "refuse" -> "refused"

\* A reply nobody waits for is dropped.
DispatchReply ==
    /\ online
    /\ acking = NoOrder
    /\ inbox # <<>> /\ Head(inbox).type # "deliver"
    /\ LET m == Head(inbox) IN
          /\ worker' = IF Awaits(m) THEN [worker EXCEPT !.wait = Result(m)]
                       ELSE worker
          /\ excused' = IF m.type \in {"refuse", "limit"} /\ worker.t # 0
                        THEN excused \cup {worker.t} ELSE excused
    /\ inbox' = Tail(inbox)
    /\ UNCHANGED <<online, acking, acked, queue, rows, have, settled, told,
                   bounds>>

AckEvent ==
    /\ online
    /\ acking # NoOrder
    /\ acked' = acked \cup {acking}
    /\ acking' = NoOrder
    /\ UNCHANGED <<online, inbox, queue, rows, worker, have, history, bounds>>

Disconnect ==
    /\ online
    /\ drops < MaxDrops
    /\ drops' = drops + 1
    /\ online' = FALSE
    /\ inbox' = <<>>
    /\ acking' = NoOrder
    /\ worker' = IF worker.wait = "pending"
                 THEN [worker EXCEPT !.wait = "lost"] ELSE worker
    /\ excused' = IF worker.t # 0 THEN excused \cup {worker.t} ELSE excused
    /\ UNCHANGED <<acked, queue, rows, have, settled, told, deliveries,
                   crashes>>

Reconnect ==
    /\ ~online
    /\ online' = TRUE
    /\ UNCHANGED <<inbox, acking, acked, queue, rows, worker, have, history,
                   bounds>>

-----------------------------------------------------------------------------
(* The worker *)

Goto(pc) == worker' = [worker EXCEPT !.pc = pc, !.wait = "none"]
Close(s) == log' = [log EXCEPT ![worker.t].status = s]

\* Read a request, write its row, resolve what is sold.  An S3 object whose
\* connection or presigned URL fails is refused as an absent dataset is.
Take(kind) ==
    LET t == started + 1 IN
    /\ worker.pc = "idle"
    /\ queue # <<>>
    /\ t \in Transfers
    /\ queue' = Tail(queue)
    /\ started' = t
    /\ log' = [log EXCEPT ![t] =
                 [order |-> Head(queue), kind |-> kind,
                  status |-> IF kind = "s3" THEN "uploading" ELSE "received"]]
    /\ \E pc \in CASE kind = "absent" -> {"tellFailed"}
                   [] kind = "local"  -> {"hash"}
                   [] kind = "s3"     -> {"s3send", "tellFailed"} :
          worker' = [Idle EXCEPT !.t = t, !.pc = pc, !.try = 1]
    /\ have' = 0
    /\ UNCHANGED <<channel, history, bounds>>

\* The file is hashed in a thread; its row says uploading.
Hashed ==
    /\ worker.pc = "hash"
    /\ Close("uploading")
    /\ Goto("meta")
    /\ UNCHANGED <<channel, queue, started, have, history, bounds>>

\* The file can no longer be read.
ReadFails ==
    /\ worker.pc \in {"hash", "stream"}
    /\ Goto("tellFailed")
    /\ UNCHANGED <<channel, queue, rows, have, history, bounds>>

\* What is sent without a session raises ConnectionError, and the outermost
\* handler closes the row without a word to the server; on a socket that is
\* closing it raises ConnectionClosed, which is an unexpected error.
SendFails ==
    /\ worker.pc \in Sending
    /\ ~online
    /\ \/ /\ Close("failed")
          /\ IF worker.pc = "complete" THEN Goto("tellAfter")
             ELSE worker' = Idle
       \/ Goto("tellFailed") /\ UNCHANGED log
    /\ UNCHANGED <<channel, queue, started, have, history, bounds>>

SendMetadata ==
    /\ worker.pc = "meta"
    /\ online
    /\ worker' = [worker EXCEPT !.pc = "stream", !.win = 1, !.try = 1]
    /\ \E r \in {<<>>, <<Refusal>>} : inbox' = inbox \o r
    /\ UNCHANGED <<online, acking, acked, queue, rows, have, history, bounds>>

\* The window's chunks are sent; the server takes them or not, and answers
\* or not.  The last window is not waited for.
SendWindow ==
    /\ worker.pc = "stream"
    /\ online
    /\ \E got \in BOOLEAN :
          /\ have' = IF got /\ have + 1 = worker.win THEN worker.win ELSE have
          /\ \E r \in {<<>>, <<Refusal>>}
                      \cup IF got THEN {<<Frame("ack", worker.t, have')>>}
                           ELSE {} :
                inbox' = inbox \o r
    /\ Goto(IF worker.win = Windows THEN "complete" ELSE "await")
    /\ UNCHANGED <<online, acking, acked, queue, rows, history, bounds>>

\* Only now is the waiter for the acknowledgement registered.
AwaitAck ==
    /\ worker.pc = "await"
    /\ worker' = [worker EXCEPT !.pc = "acking", !.wait = "pending"]
    /\ UNCHANGED <<channel, queue, rows, have, history, bounds>>

WindowAcked ==
    /\ worker.pc = "acking"
    /\ worker.wait = "ok"
    /\ worker' = [worker EXCEPT !.pc = "stream", !.win = @ + 1, !.try = 1,
                                !.wait = "none"]
    /\ UNCHANGED <<channel, queue, rows, have, history, bounds>>

\* A short acknowledgement, a refusal or a lost connection: ConnectionError.
WindowFails ==
    /\ worker.pc = "acking"
    /\ worker.wait \in {"short", "refused", "lost"}
    /\ Close("failed")
    /\ worker' = Idle
    /\ UNCHANGED <<channel, queue, started, have, history, bounds>>

\* Mutant: the attempts are not counted.
TimeoutForever ==
    /\ worker.wait = "pending"
    /\ CASE worker.pc = "acking" -> Goto("stream") /\ UNCHANGED log
         [] worker.pc = "closing" -> Close("failed") /\ Goto("tellAfter")
         [] worker.pc = "s3wait" -> Close("failed") /\ worker' = Idle
    /\ UNCHANGED <<channel, queue, started, have, history, bounds>>

\* Mutant: the S3 row is not closed.
TimeoutLeavesRow ==
    /\ worker.wait = "pending"
    /\ CASE worker.pc = "acking" /\ worker.try = 1 ->
              /\ worker' = [worker EXCEPT !.pc = "stream", !.try = 2,
                                          !.wait = "none"]
              /\ UNCHANGED log
         [] worker.pc = "acking" /\ worker.try # 1 ->
              Goto("tellTimedOut") /\ UNCHANGED log
         [] worker.pc = "closing" -> Close("failed") /\ Goto("tellAfter")
         [] worker.pc = "s3wait" -> worker' = Idle /\ UNCHANGED log
    /\ UNCHANGED <<channel, queue, started, have, history, bounds>>

\* ACK_TIMEOUT_S.  A window is sent once more, then the transfer is given up.
Timeout ==
    /\ worker.wait = "pending"
    /\ CASE worker.pc = "acking" /\ worker.try = 1 ->
              /\ worker' = [worker EXCEPT !.pc = "stream", !.try = 2,
                                          !.wait = "none"]
              /\ UNCHANGED log
         [] worker.pc = "acking" /\ worker.try # 1 ->
              Goto("tellTimedOut") /\ UNCHANGED log
         [] worker.pc = "closing" -> Close("failed") /\ Goto("tellAfter")
         [] worker.pc = "s3wait" -> Close("failed") /\ worker' = Idle
    /\ UNCHANGED <<channel, queue, started, have, history, bounds>>

\* The server finalizes only what it holds; its answer may not come.
SendComplete ==
    /\ worker.pc = "complete"
    /\ online
    /\ worker' = [worker EXCEPT !.pc = "closing", !.wait = "pending"]
    /\ \/ /\ \E r \in {<<>>, <<Refusal>>} : inbox' = inbox \o r
          /\ UNCHANGED settled
       \/ /\ have = Windows
          /\ settled' = settled \cup {worker.t}
          /\ inbox' = Append(inbox, Frame("grant", worker.t, 0))
    /\ UNCHANGED <<online, acking, acked, queue, rows, have, told, excused,
                   bounds>>

\* The presigned URL is offered under the request's own id.
SendResponse ==
    /\ worker.pc = "s3send"
    /\ online
    /\ worker' = [worker EXCEPT !.pc = "s3wait", !.wait = "pending"]
    /\ \/ /\ \E r \in {<<>>, <<Refusal>>, <<Frame("limit", NoOrder, 0)>>} :
                inbox' = inbox \o r
          /\ UNCHANGED settled
       \/ /\ settled' = settled \cup {KeyOf(worker.t)}
          /\ inbox' = Append(inbox, Frame("grant", KeyOf(worker.t), 0))
    /\ UNCHANGED <<online, acking, acked, queue, rows, have, told, excused,
                   bounds>>

\* Mutant: it is sent twice more.
ResendTwice ==
    /\ worker.pc = "s3wait"
    /\ worker.wait = "limited"
    /\ worker' = [worker EXCEPT !.pc = "s3send", !.try = @ + 1, !.wait = "none"]
    /\ UNCHANGED <<channel, queue, rows, have, history, bounds>>

\* A rate-limited response is sent once more.
Resend ==
    /\ worker.pc = "s3wait"
    /\ worker.wait = "limited"
    /\ worker.try = 1
    /\ worker' = [worker EXCEPT !.pc = "s3send", !.try = 2, !.wait = "none"]
    /\ UNCHANGED <<channel, queue, rows, have, history, bounds>>

\* Mutant: any answer counts.
CompleteUnchecked ==
    /\ worker.pc \in {"closing", "s3wait"}
    /\ worker.wait \in {"ok", "refused"}
    /\ Close("completed")
    /\ worker' = Idle
    /\ UNCHANGED <<channel, queue, started, have, history, bounds>>

Complete ==
    /\ worker.pc \in {"closing", "s3wait"}
    /\ worker.wait = "ok"
    /\ Close("completed")
    /\ worker' = Idle
    /\ UNCHANGED <<channel, queue, started, have, history, bounds>>

Unconfirmed ==
    /\ \/ worker.pc \in {"closing", "s3wait"} /\ worker.wait \in {"refused", "lost"}
       \/ worker.pc = "s3wait" /\ worker.wait = "limited" /\ worker.try = 2
    /\ Close("failed")
    /\ IF worker.pc = "closing" THEN Goto("tellAfter") ELSE worker' = Idle
    /\ UNCHANGED <<channel, queue, started, have, history, bounds>>

\* _send_error swallows what its send raises.
Tell == told' = IF online THEN told \cup {worker.t} ELSE told

TellAndClose ==
    /\ worker.pc \in {"tellFailed", "tellTimedOut"}
    /\ Tell
    /\ Close(IF worker.pc = "tellFailed" THEN "failed" ELSE "timed_out")
    /\ worker' = Idle
    /\ UNCHANGED <<channel, queue, started, have, settled, excused, bounds>>

TellAfter ==
    /\ worker.pc = "tellAfter"
    /\ Tell
    /\ worker' = Idle
    /\ UNCHANGED <<channel, queue, rows, have, settled, excused, bounds>>

WorkerStep ==
    \/ \E kind \in Kinds : Take(kind)
    \/ Hashed \/ ReadFails \/ SendFails \/ SendMetadata
    \/ SendWindow \/ AwaitAck \/ WindowAcked \/ WindowFails
    \/ SendComplete \/ SendResponse \/ Resend \/ Timeout
    \/ Complete \/ Unconfirmed \/ TellAndClose \/ TellAfter

\* The queue and the worker live in memory; nothing reads the rows again.
CrashRestart ==
    /\ crashes < MaxCrashes
    /\ crashes' = crashes + 1
    /\ online' = FALSE
    /\ inbox' = <<>>
    /\ acking' = NoOrder
    /\ queue' = <<>>
    /\ worker' = Idle
    /\ have' = 0
    /\ UNCHANGED <<acked, rows, history, deliveries, drops>>

Next ==
    \/ \E o \in Orders : ServerOrders(o)
    \/ DispatchDeliver \/ DispatchReply \/ AckEvent
    \/ Disconnect \/ Reconnect
    \/ WorkerStep
    \/ CrashRestart

Spec == Init /\ [][Next]_vars

\* The worker is a task of a running loop and every wait of it is timed.
FairSpec == Spec /\ WF_vars(WorkerStep)

-----------------------------------------------------------------------------
(* Properties *)

\* Types.
TypeOK ==
    /\ online \in BOOLEAN
    /\ \A i \in DOMAIN inbox : inbox[i].type \in
          {"deliver", "ack", "grant", "refuse", "limit"}
    /\ acking \in Orders \cup {NoOrder}
    /\ acked \subseteq Orders
    /\ queue \in Seq(Orders)
    /\ started \in 0..MaxDeliveries
    /\ log \in [Transfers ->
                  [order : Orders \cup {NoOrder}, kind : Kinds,
                   status : {"none", "received", "uploading"} \cup Closed]]
    /\ worker \in
          [pc : {"idle", "hash", "await", "tellFailed", "tellTimedOut",
                 "tellAfter"} \cup Sending \cup Waiting,
           t : 0..started, win : 0..Windows, try : 0..2,
           wait : {"none", "pending", "ok", "short", "refused", "limited",
                   "lost"}]
    /\ have \in 0..Windows
    /\ settled \subseteq Transfers \cup Orders
    /\ told \subseteq Transfers
    /\ excused \subseteq Transfers

\* fulfillment_service._confirmed_result: a row says completed only when the
\* server confirmed that very transfer (for S3, that order).
CompletedIsConfirmed ==
    \A t \in Transfers :
       log[t].status = "completed" => KeyOf(t) \in settled

\* _validate_ack: a window is sent only when the server holds every earlier
\* one, however late or often acknowledgements come.
BackpressureHolds ==
    worker.pc \in {"stream", "await", "acking", "complete", "closing"} =>
       have + 1 >= worker.win

\* trust_channel_client: an event that was acknowledged is answered by a row
\* that closes, unless the process dies.
Answered(o) ==
    \E t \in Transfers : log[t].order = o /\ log[t].status \in Closed

AckedIsAnswered ==
    \A o \in Orders : (o \in acked) ~> (Answered(o) \/ crashes > 0)

\* The rows are the log the abstract specification describes.
Log == INSTANCE FulfillmentLog WITH
    status   <- [t \in Transfers |-> log[t].status],
    active   <- IF worker.pc \in {"idle", "tellAfter"} THEN 0 ELSE worker.t,
    settled  <- {t \in Transfers : KeyOf(t) \in settled},
    restarts <- crashes

KeepsLog == Log!Spec

\* fulfillment_service.py:16, "On error -> send vai.fulfillment.error": a
\* transfer of chunks that ends without success on a channel that never failed,
\* and that the server did not refuse, is reported to the server.
ErrorIsTold ==
    \A t \in Transfers :
       log[t].kind = "local" /\ log[t].status \in {"failed", "timed_out"}
       /\ worker.t # t =>
          t \in told \cup excused
=============================================================================
