-------------------------- MODULE ManifestTransfer --------------------------
(***************************************************************************)
(* One delivery of a data set of several members:                          *)
(* app/services/manifest_fulfillment.py, with FulfillmentInbox of          *)
(* trust_channel_client.py.  The server says in its metadata answer which  *)
(* members it has verified; the sender streams the others in windows,      *)
(* starts again from the server's word after a lost connection or a        *)
(* refusal, and gives up when its retry budget is spent.                   *)
(*                                                                         *)
(* The server is external and free to answer what it likes, or nothing;    *)
(* connections may be lost without bound.  The retry budget is a deadline: *)
(* it is counted in rounds (a metadata or complete exchange, a pause),     *)
(* each of which takes time.                                               *)
(***************************************************************************)
EXTENDS Naturals, Sequences, FiniteSets

CONSTANTS MemberOf,    \* MemberOf[c]: the member chunk c - 1 belongs to
          WINDOW_SIZE, \* fulfillment_service.WINDOW_SIZE
          Budget,      \* rounds in TRANSFER_COMPLETE_RETRY_BUDGET_S
          NoBudget,    \* retry_deadline is None
          MaxNet       \* bound: frames on their way to the sender

ASSUME ManifestAssumption ==
    /\ MemberOf \in Seq(Nat) /\ MemberOf # <<>>
    /\ WINDOW_SIZE \in Nat \ {0}
    /\ Budget \in Nat \ {0}
    /\ NoBudget \notin 0..Budget
    /\ MaxNet \in Nat \ {0}

VARIABLES
    online,     \* the session is established
    net,        \* frames on their way, or waiting in the inbox
    note,       \* the inbox holds "disconnected"
    pc,         \* where the sender is
    needMeta,   \* need_metadata
    verified,   \* members the server said it has verified
    origin,     \* first chunk of this streaming pass
    next,       \* first chunk of the current window
    attempt,    \* attempt of the current window
    highwater,  \* last chunk ever confirmed, counted from 1; 0 for none
    completing, \* completion_started
    budget,     \* what is left of the retry budget
    status,     \* FulfillmentLog.status
    granted,    \* history: the server granted the order
    authority,  \* history: metadata was answered on this session
    streamed    \* history: chunks sent since metadata was last answered

sender  == <<pc, needMeta, verified, origin, next, attempt, highwater,
             completing, budget>>
history == <<granted, authority, streamed>>
vars == <<online, net, note, sender, status, history>>

Chunks  == 1..Len(MemberOf)
Members == {MemberOf[c] : c \in Chunks}

\* Chunks still to stream from c on, and where the window that starts there
\* ends: at the acknowledgement cadence counted from the pass's origin, at
\* the last chunk of the plan, or when it is full.
Rest(v, c) == {k \in Chunks : k >= c /\ MemberOf[k] \notin v}

Boundary(o, k) ==
    (k - o) % WINDOW_SIZE = WINDOW_SIZE - 1 \/ k = Len(MemberOf)

\* Mutant: a window is closed by its size alone.
EndsWhenFull(v, o, c) ==
    {k \in Rest(v, c) : Cardinality(Rest(v, c) \ Rest(v, k + 1)) = WINDOW_SIZE}

Ends(v, o, c) ==
    {k \in Rest(v, c) :
       \/ Boundary(o, k)
       \/ Cardinality(Rest(v, c) \ Rest(v, k + 1)) = WINDOW_SIZE}

First(S) == CHOOSE k \in S : \A j \in S : k <= j
Last1(S) == CHOOSE k \in S : \A j \in S : k >= j

WindowEnd(v, o, c) ==
    IF Ends(v, o, c) # {} THEN First(Ends(v, o, c)) ELSE Last1(Rest(v, c))

expected == WindowEnd(verified, origin, next)

Window(v, o, c) == {k \in Rest(v, c) : k <= WindowEnd(v, o, c)}

Frame(type) == [type |-> type, n |-> 0, v |-> {}]
Ack(k)  == [Frame("ack") EXCEPT !.n = k]
Meta(v) == [Frame("meta") EXCEPT !.v = v]
RetryCodes == {"busy", "finalizing", "reset"}
Codes == RetryCodes \cup {"fatal"}
Frames == [type : {"ack", "meta", "grant", "results"} \cup Codes,
           n : 0..Len(MemberOf), v : SUBSET Members]
Refusals == {<<Frame(code)>> : code \in Codes}

Init ==
    /\ online = TRUE
    /\ net = <<>>
    /\ note = FALSE
    /\ pc = "start"
    /\ needMeta = TRUE
    /\ verified = {}
    /\ origin = 0
    /\ next = 0
    /\ attempt = 1
    /\ highwater = 0
    /\ completing = FALSE
    /\ budget = NoBudget
    /\ status = "received"
    /\ granted = FALSE
    /\ authority = FALSE
    /\ streamed = {}

-----------------------------------------------------------------------------
(* The channel *)

Disconnect ==
    /\ online
    /\ online' = FALSE
    /\ net' = <<>>
    /\ note' = TRUE
    /\ authority' = FALSE
    /\ UNCHANGED <<sender, status, granted, streamed>>

\* Reconnecting takes at least one back-off: a sender that listens has read
\* the inbox's note by then.
Reconnect ==
    /\ ~online
    /\ pc \in {"await", "window"} => ~note
    /\ online' = TRUE
    /\ UNCHANGED <<net, note, sender, status, history>>

-----------------------------------------------------------------------------
(* The retry budget *)

Started == IF budget = NoBudget THEN Budget ELSE budget

Spent == IF budget = NoBudget THEN NoBudget ELSE budget - 1

\* inbox.clear(): what was dispatched is dropped, and so is every answer to
\* an earlier request; an acknowledgement still under way will come through.
Kept(f) == f.type = "ack"

KeptFrom(frames, i) == {k \in i..Len(frames) : Kept(frames[k])}

InOrder(S) == {g \in [1..Cardinality(S) -> S] :
                 \A j, k \in 1..Cardinality(S) : j < k => g[j] < g[k]}

Cleared(frames) ==
    UNION {{[k \in 1..Cardinality(KeptFrom(frames, i)) |-> frames[g[k]]] :
              g \in InOrder(KeptFrom(frames, i))} : i \in 1..(Len(frames) + 1)}

\* Put the request on the wire with one of the answers the server may give.
Exchange(frames, answers) ==
    \E before \in Cleared(frames), r \in answers :
       /\ net' = before \o r
       /\ Len(net') <= MaxNet
       /\ note' = FALSE

\* Clear the inbox and fail to send: ConnectionError.
Unsent ==
    /\ \E before \in Cleared(net) : net' = before
    /\ note' = FALSE

Give(s) ==
    /\ pc' = s
    /\ UNCHANGED <<needMeta, verified, origin, next, attempt, highwater,
                   completing, budget>>

-----------------------------------------------------------------------------
(* The rounds *)

\* deliver_manifest: the plan is loaded, or is missing or invalid.
Start ==
    /\ pc = "start"
    /\ \/ Give("tell") /\ UNCHANGED status
       \/ Give("round") /\ status' = "uploading"
    /\ UNCHANGED <<online, net, note, history>>

\* The budget is gone: TimeoutError ends the run.
Exhausted ==
    /\ pc = "round"
    /\ budget = 0
    /\ Give("tell")
    /\ UNCHANGED <<online, net, note, status, history>>

\* No session: ConnectionError, and metadata first once it is back.
Pause == /\ pc' = "pause"
         /\ budget' = Started

RoundFails ==
    /\ pc = "round"
    /\ budget # 0
    /\ ~online
    /\ Unsent
    /\ Pause
    /\ needMeta' = TRUE
    /\ UNCHANGED <<online, verified, origin, next, attempt, highwater,
                   completing, status, history>>

Ask ==
    /\ pc = "round"
    /\ budget # 0
    /\ online
    /\ Exchange(net, {<<>>, <<Frame("grant")>>} \cup Refusals
                  \cup IF needMeta THEN {<<Meta(v)>> : v \in SUBSET Members}
                       ELSE {})
    /\ pc' = "await"
    /\ budget' = Spent
    /\ granted' = (granted \/ \E i \in DOMAIN net' : net'[i].type = "grant")
    /\ UNCHANGED <<online, needMeta, verified, origin, next, attempt,
                   highwater, completing, status, authority, streamed>>

-----------------------------------------------------------------------------
(* Streaming *)

Received == Tail(net)

\* What SendWindow answers: results of its chunks, the acknowledgement its
\* boundary asks for, a refusal, or nothing.
Answers(o, e) ==
    {<<>>, <<Frame("results")>>} \cup Refusals
      \cup IF Boundary(o, e) THEN {<<Ack(e)>>} ELSE {}

\* Go on from chunk c with v verified, the budget being b, the chunks of s
\* sent and what was received gone: the next window is sent, or all is
\* streamed and complete comes next.  Nothing is awaited before the window is
\* sent.  Reading a member may show that its bytes changed, which is fatal.
Stream(v, o, c, b, s) ==
    /\ verified' = v
    /\ origin' = o
    /\ next' = c
    /\ attempt' = 1
    /\ \/ /\ Rest(v, c) = {}
          /\ pc' = "round"
          /\ needMeta' = FALSE
          /\ completing' = TRUE
          /\ budget' = IF ~completing \/ b = NoBudget THEN Budget ELSE b
          /\ net' = Received
          /\ streamed' = s
          /\ UNCHANGED note
       \/ /\ Rest(v, c) # {} /\ b # 0
          /\ pc' = "window"
          /\ Exchange(Received, Answers(o, WindowEnd(v, o, c)))
          /\ budget' = b
          /\ streamed' = s \cup Window(v, o, c)
          /\ UNCHANGED <<needMeta, completing>>
       \/ /\ pc' = "tell"
          /\ net' = Received
          /\ budget' = b
          /\ streamed' = s
          /\ UNCHANGED <<needMeta, completing, note>>

\* Mutant: a new pass goes on after the last chunk ever confirmed.
MetadataAnsweredResumes ==
    /\ pc = "await" /\ needMeta
    /\ net # <<>> /\ Head(net).type = "meta"
    /\ LET v == Head(net).v
           o == IF Rest(v, highwater + 1) = {} THEN highwater + 1
                ELSE First(Rest(v, highwater + 1)) IN
          Stream(v, o, o, budget, {})
    /\ authority' = TRUE
    /\ UNCHANGED <<online, highwater, status, granted>>

MetadataAnswered ==
    /\ pc = "await" /\ needMeta
    /\ net # <<>> /\ Head(net).type = "meta"
    /\ LET v == Head(net).v
           o == IF Rest(v, 1) = {} THEN 1 ELSE First(Rest(v, 1)) IN
          Stream(v, o, o, budget, {})
    /\ authority' = TRUE
    /\ UNCHANGED <<online, highwater, status, granted>>

\* An acknowledgement of an earlier window.
IgnoreStaleAck ==
    /\ pc = "window"
    /\ net # <<>> /\ Head(net).type = "ack" /\ Head(net).n < expected
    /\ net' = Received
    /\ UNCHANGED <<online, note, sender, status, history>>

\* All chunks' results are in, and the acknowledgement is still needed.
ResultsOnly ==
    /\ pc = "window"
    /\ net # <<>> /\ Head(net).type = "results" /\ Boundary(origin, expected)
    /\ net' = Received
    /\ UNCHANGED <<online, note, sender, status, history>>

\* Mutant: any confirmed window restores the budget.
ProgressAnyWindow ==
    /\ highwater' = IF expected > highwater THEN expected ELSE highwater
    /\ IF ~completing
       THEN Stream(verified, origin, expected + 1, NoBudget, streamed)
       ELSE Stream(verified, origin, expected + 1, budget, streamed)

\* Only a chunk never confirmed before restores the budget.
Progress ==
    /\ highwater' = IF expected > highwater THEN expected ELSE highwater
    /\ IF expected > highwater /\ ~completing
       THEN Stream(verified, origin, expected + 1, NoBudget, streamed)
       ELSE Stream(verified, origin, expected + 1, budget, streamed)

WindowDone ==
    /\ pc = "window"
    /\ net # <<>>
    /\ \/ Head(net).type = "ack" /\ Head(net).n >= expected
       \/ Head(net).type = "results" /\ ~Boundary(origin, expected)
    /\ Progress
    /\ UNCHANGED <<online, status, granted, authority>>

\* The window is sent once more, with the same request ids.
WindowTimeout ==
    /\ pc = "window"
    /\ ~note
    /\ \/ /\ attempt = 1 /\ budget # 0 /\ online
          /\ attempt' = 2
          /\ Exchange(net, Answers(origin, expected))
          /\ UNCHANGED <<pc, budget, needMeta>>
       \/ /\ attempt = 1 /\ budget # 0 /\ ~online
          /\ Unsent
          /\ Pause
          /\ needMeta' = TRUE
          /\ UNCHANGED attempt
       \/ /\ attempt = 2 \/ budget = 0
          /\ pc' = "tell"
          /\ UNCHANGED <<attempt, budget, needMeta, net, note>>
    /\ UNCHANGED <<online, verified, origin, next, highwater, completing,
                   status, history>>

-----------------------------------------------------------------------------
(* What ends a wait *)

\* Mutant: the window goes on when the connection is back.
NoteReadInWindow ==
    /\ pc \in {"await", "window"}
    /\ note
    /\ note' = FALSE
    /\ IF pc = "window"
       THEN UNCHANGED <<pc, needMeta, budget>>
       ELSE Pause /\ needMeta' = TRUE
    /\ UNCHANGED <<online, net, verified, origin, next, attempt, highwater,
                   completing, status, history>>

NoteRead ==
    /\ pc \in {"await", "window"}
    /\ note
    /\ note' = FALSE
    /\ Pause
    /\ needMeta' = TRUE
    /\ UNCHANGED <<online, net, verified, origin, next, attempt, highwater,
                   completing, status, history>>

\* A refusal the sender knows sends it back to the server's word, at once or
\* after a pause; finalizing is waited out when complete was asked for.
Refused ==
    /\ pc \in {"await", "window"}
    /\ net # <<>> /\ Head(net).type \in RetryCodes
    /\ net' = Received
    /\ budget' = Started
    /\ pc' = IF Head(net).type = "reset" THEN "round" ELSE "pause"
    /\ needMeta' = (needMeta \/ pc = "window" \/ Head(net).type # "finalizing")
    /\ UNCHANGED <<online, note, verified, origin, next, attempt, highwater,
                   completing, status, history>>

\* Any other refusal is fatal, and so is an answer that is none: to metadata
\* or complete, an acknowledgement that comes late.
Rejected ==
    /\ pc \in {"await", "window"}
    /\ net # <<>>
    /\ \/ Head(net).type = "fatal"
       \/ pc = "await" /\ Head(net).type = "ack"
    /\ net' = Received
    /\ Give("tell")
    /\ UNCHANGED <<online, note, status, history>>

\* Metadata is asked for again, complete after a pause.
AwaitTimeout ==
    /\ pc = "await"
    /\ ~note
    /\ budget' = Started
    /\ pc' = IF budget = 0 THEN "tell"
             ELSE IF needMeta THEN "round" ELSE "pause"
    /\ UNCHANGED <<online, net, note, needMeta, verified, origin, next, attempt,
                   highwater, completing, status, history>>

\* Mutant: a pause may overrun the deadline.
PauseOverLong ==
    /\ pc = "pause"
    /\ budget' = budget - 1
    /\ pc' = IF budget' = 0 THEN "tell" ELSE "round"
    /\ UNCHANGED <<online, net, note, needMeta, verified, origin, next, attempt,
                   highwater, completing, status, history>>

PauseOver ==
    /\ pc = "pause"
    /\ budget' = IF budget = 0 THEN 0 ELSE budget - 1
    /\ pc' = IF budget' = 0 THEN "tell" ELSE "round"
    /\ UNCHANGED <<online, net, note, needMeta, verified, origin, next, attempt,
                   highwater, completing, status, history>>

\* has_grant: to complete, or already to metadata.
Finish ==
    /\ pc = "await"
    /\ net # <<>> /\ Head(net).type = "grant"
    /\ net' = Received
    /\ Give("ended")
    /\ status' = "completed"
    /\ UNCHANGED <<online, note, history>>

Tell ==
    /\ pc = "tell"
    /\ Give("ended")
    /\ status' = "failed"
    /\ UNCHANGED <<online, net, note, history>>

SenderStep ==
    \/ Start \/ Exhausted \/ RoundFails \/ Ask
    \/ MetadataAnswered \/ IgnoreStaleAck \/ ResultsOnly \/ WindowDone
    \/ WindowTimeout \/ NoteRead \/ Refused \/ Rejected
    \/ AwaitTimeout \/ PauseOver \/ Finish \/ Tell

Next == Disconnect \/ Reconnect \/ SenderStep

Spec == Init /\ [][Next]_vars

\* The sender is the worker's own task, and every wait of it is timed.
FairSpec == Spec /\ WF_vars(SenderStep)

-----------------------------------------------------------------------------
(* Properties *)

\* Types.
TypeOK ==
    /\ online \in BOOLEAN
    /\ net \in Seq(Frames) /\ Len(net) <= MaxNet
    /\ note \in BOOLEAN
    /\ pc \in {"start", "round", "await", "window", "pause", "tell", "ended"}
    /\ needMeta \in BOOLEAN
    /\ verified \subseteq Members
    /\ origin \in 0..Len(MemberOf)
    /\ next \in 0..(Len(MemberOf) + 1)
    /\ attempt \in 1..2
    /\ highwater \in 0..Len(MemberOf)
    /\ completing \in BOOLEAN
    /\ budget \in 0..Budget \cup {NoBudget}
    /\ status \in {"received", "uploading", "completed", "failed"}
    /\ granted \in BOOLEAN
    /\ authority \in BOOLEAN
    /\ streamed \subseteq Chunks

\* manifest_fulfillment.ManifestSender.has_grant: completed is what the
\* server granted.
CompletedIsGranted == status = "completed" => granted

\* Complete is asked for only when the server has every chunk or was sent it
\* since it last said which members it has: whatever windows were refused,
\* timed out or lost with a session, none is skipped (ManifestSender.stream).
WholeBeforeComplete ==
    ~needMeta => \A c \in Chunks : MemberOf[c] \in verified \/ c \in streamed

\* What the sender has under way is a window the server can hold, and the
\* acknowledgement it waits for is the first the server gives of its own
\* accord for it: whichever members are verified, however the pass began.
WindowsKeepCadence ==
    pc = "window" =>
       /\ expected \in Window(verified, origin, next)
       /\ Cardinality(Window(verified, origin, next)) <= WINDOW_SIZE
       /\ \A k \in Window(verified, origin, next) :
             Boundary(origin, k) => k = expected

\* "Never stream after reconnect until metadata returns server authority":
\* chunks are sent, or sent again, only on a session that answered metadata.
SendsChunks ==
    pc' = "window" /\ (pc # "window" \/ next' # next \/ attempt' # attempt)

AuthorityFirst == [][SendsChunks => authority']_vars

\* TRANSFER_COMPLETE_RETRY_BUDGET_S: whatever the server answers and however
\* often the connection is lost, the transfer ends and its row with it.
TransferEnds == <>(pc = "ended" /\ status \in {"completed", "failed"})
=============================================================================
