---------------------------- MODULE ManifestProofs ----------------------------
(***************************************************************************)
(* Theorems about ManifestTransfer, for any plan, window, retry budget and *)
(* number of lost connections.                                             *)
(***************************************************************************)
EXTENDS ManifestTransfer, FiniteSetTheorems, WellFoundedInduction,
        TLAPS

\* A window whose session is gone hears nothing but that it is gone: what was
\* in the inbox left with the session, and the note of its end is in it.
StreamsOnAuthority == pc = "window" /\ ~authority => note /\ net = <<>>

LEMMA AuthorityInit == Init => StreamsOnAuthority
BY DEF Init, StreamsOnAuthority

\* Steps of the channel.
LEMMA ChannelStep ==
  ASSUME StreamsOnAuthority, Disconnect \/ Reconnect
  PROVE  StreamsOnAuthority' /\ ~SendsChunks
<1>1. CASE Disconnect
  BY <1>1 DEF Disconnect, sender, StreamsOnAuthority, SendsChunks
<1>2. CASE Reconnect
  BY <1>2 DEF Reconnect, sender, history, StreamsOnAuthority, SendsChunks
<1> QED BY <1>1, <1>2

\* Steps of the sender that lead to no window.
LEMMA OtherStep ==
  ASSUME \/ Start \/ Exhausted \/ RoundFails \/ Ask \/ NoteRead \/ Refused
         \/ Rejected \/ AwaitTimeout \/ PauseOver \/ Finish \/ Tell
  PROVE  pc' # "window"
BY DEF Start, Exhausted, RoundFails, Ask, NoteRead, Refused, Rejected,
   AwaitTimeout, PauseOver, Finish, Tell, Give, Pause

\* Steps that send a window, again or for the first time: the answer to
\* metadata, a window confirmed, a window timed out.
LEMMA StreamStep ==
  ASSUME StreamsOnAuthority,
         MetadataAnswered \/ WindowDone \/ WindowTimeout
  PROVE  authority' \/ pc' # "window"
<1>1. CASE MetadataAnswered
  BY <1>1 DEF MetadataAnswered
<1>2. CASE WindowDone
  BY <1>2 DEF WindowDone, StreamsOnAuthority
<1>3. CASE WindowTimeout
  BY <1>3 DEF WindowTimeout, history, StreamsOnAuthority
<1> QED BY <1>1, <1>2, <1>3

LEMMA AuthorityStep ==
  ASSUME StreamsOnAuthority, [Next]_vars
  PROVE  StreamsOnAuthority' /\ (SendsChunks => authority')
<1>1. CASE Disconnect \/ Reconnect
  BY <1>1, ChannelStep
<1>2. CASE \/ Start \/ Exhausted \/ RoundFails \/ Ask \/ NoteRead \/ Refused
           \/ Rejected \/ AwaitTimeout \/ PauseOver \/ Finish \/ Tell
  BY <1>2, OtherStep DEF StreamsOnAuthority, SendsChunks
<1>3. CASE MetadataAnswered \/ WindowDone \/ WindowTimeout
  BY <1>3, StreamStep DEF StreamsOnAuthority, SendsChunks
<1>4. CASE IgnoreStaleAck \/ ResultsOnly
  BY <1>4 DEF IgnoreStaleAck, ResultsOnly, sender, history,
     StreamsOnAuthority, SendsChunks
<1>5. CASE UNCHANGED vars
  BY <1>5 DEF vars, sender, history, StreamsOnAuthority, SendsChunks
<1> QED BY <1>1, <1>2, <1>3, <1>4, <1>5 DEF Next, SenderStep

\* Whatever the server answers and however often the connection is lost, a
\* chunk is sent only on a session that answered metadata (AuthorityFirst).
THEOREM AuthorityIsFirst == Spec => AuthorityFirst
BY AuthorityInit, AuthorityStep, PTL DEF Spec, AuthorityFirst

-----------------------------------------------------------------------------
(* The least and the last chunk of a set, and the windows of a pass *)

LEMMA ChunkNumbers ==
  Len(MemberOf) \in Nat \ {0} /\ Chunks \subseteq Nat
BY ManifestAssumption DEF ManifestAssumption, Chunks

LEMMA LeastExists ==
  ASSUME NEW S, S \subseteq Nat, S # {}
  PROVE  \E k \in S : \A j \in S : k <= j
<1>1. IsWellFoundedOn(OpToRel(<, Nat), Nat)
  BY NatLessThanWellFounded
<1>2. PICK k \in S : \A j \in S : ~ (<<j, k>> \in OpToRel(<, Nat))
  BY <1>1, WFMin, Zenon
<1>3. \A j \in S : ~ (j < k)
  BY <1>2 DEF OpToRel
<1> QED BY <1>3

LEMMA FirstChunk ==
  ASSUME NEW S, S \subseteq Chunks, S # {}
  PROVE  First(S) \in S /\ \A j \in S : First(S) <= j
BY LeastExists, ChunkNumbers DEF First

LEMMA LastChunk ==
  ASSUME NEW S, S \subseteq Chunks, S # {}
  PROVE  Last1(S) \in S /\ \A j \in S : Last1(S) >= j
<1> DEFINE back == {Len(MemberOf) - k : k \in S}
<1>1. back \subseteq Nat /\ back # {}
  <2>1. \A k \in S : Len(MemberOf) - k \in Nat
    BY ChunkNumbers DEF Chunks
  <2> QED BY <2>1
<1> HIDE DEF back
<1>2. PICK b \in back : \A j \in back : b <= j
  BY <1>1, LeastExists
<1>3. PICK k \in S : b = Len(MemberOf) - k
  BY <1>2 DEF back
<1>4. \A j \in S : k >= j
  <2> TAKE j \in S
  <2>1. Len(MemberOf) - j \in back
    BY DEF back
  <2> QED BY <2>1, <1>2, <1>3, ChunkNumbers
<1> QED BY <1>3, <1>4 DEF Last1

\* A window ends at a chunk still to stream, not before the one it starts at.
LEMMA WindowEnds ==
  ASSUME NEW v, NEW o, NEW c, Rest(v, c) # {}
  PROVE  /\ WindowEnd(v, o, c) \in Rest(v, c)
         /\ WindowEnd(v, o, c) \in Chunks
         /\ WindowEnd(v, o, c) >= c
<1>1. Ends(v, o, c) \subseteq Rest(v, c) /\ Rest(v, c) \subseteq Chunks
  BY DEF Ends, Rest
<1>2. CASE Ends(v, o, c) # {}
  BY <1>1, <1>2, FirstChunk DEF WindowEnd, Rest
<1>3. CASE Ends(v, o, c) = {}
  BY <1>1, <1>3, LastChunk DEF WindowEnd, Rest
<1> QED BY <1>2, <1>3

-----------------------------------------------------------------------------
(* What is left of the frames when the inbox is cleared *)

LEMMA ClearedFrames ==
  ASSUME NEW frames \in Seq(Frames), NEW before \in Cleared(frames)
  PROVE  /\ before \in Seq(Frames)
         /\ Len(before) <= Len(frames)
         /\ \A i \in 1..Len(before) : before[i].type = "ack"
<1>1. PICK i \in 1..(Len(frames) + 1) :
        \E g \in InOrder(KeptFrom(frames, i)) :
          before = [k \in 1..Cardinality(KeptFrom(frames, i)) |-> frames[g[k]]]
  BY DEF Cleared
<1> DEFINE kept == KeptFrom(frames, i)
<1>2. PICK g \in InOrder(kept) :
        before = [k \in 1..Cardinality(kept) |-> frames[g[k]]]
  BY <1>1
<1>3. kept \subseteq 1..Len(frames)
  BY DEF KeptFrom
<1>4. Cardinality(kept) \in Nat /\ Cardinality(kept) <= Len(frames)
  <2>1. IsFiniteSet(1..Len(frames)) /\ Cardinality(1..Len(frames)) = Len(frames)
    <3>1. Len(frames) \in Nat /\ Len(frames) \in Int /\ 1 \in Int
      OBVIOUS
    <3>2. /\ IsFiniteSet(1..Len(frames))
          /\ Cardinality(1..Len(frames))
                = IF 1 > Len(frames) THEN 0 ELSE Len(frames) - 1 + 1
      BY <3>1, FS_Interval
    <3> QED BY <3>1, <3>2
  <2> QED BY <2>1, <1>3, FS_Subset, FS_CardinalityType
<1>5. \A k \in 1..Cardinality(kept) : g[k] \in kept
  BY <1>2 DEF InOrder
<1>6. \A k \in kept : frames[k] \in Frames /\ frames[k].type = "ack"
  BY <1>3 DEF KeptFrom, Kept
<1> HIDE DEF kept
<1>7. before \in Seq(Frames) /\ Len(before) = Cardinality(kept)
  BY <1>2, <1>4, <1>5, <1>6
<1> QED BY <1>2, <1>4, <1>5, <1>6, <1>7

\* A message's answer comes after the acknowledgements under way.
LEMMA ExchangedFrames ==
  ASSUME NEW frames \in Seq(Frames), NEW answers,
         \A r \in answers : r \in Seq(Frames),
         Exchange(frames, answers)
  PROVE  /\ net' \in Seq(Frames) /\ Len(net') <= MaxNet
         /\ \E r \in answers : \A i \in 1..Len(net') :
               \/ net'[i].type = "ack"
               \/ \E j \in 1..Len(r) : net'[i] = r[j]
<1>1. PICK before \in Cleared(frames), r \in answers :
        net' = before \o r /\ Len(net') <= MaxNet
  BY DEF Exchange
<1>2. /\ before \in Seq(Frames)
      /\ \A i \in 1..Len(before) : before[i].type = "ack"
  BY ClearedFrames
<1>3. r \in Seq(Frames)
  BY <1>1
<1>4. /\ net' \in Seq(Frames)
      /\ \A i \in 1..Len(net') : net'[i] = IF i <= Len(before) THEN before[i]
                                           ELSE r[i - Len(before)]
      /\ Len(net') = Len(before) + Len(r)
  BY <1>1, <1>2, <1>3
<1>5. \A i \in 1..Len(net') :
         \/ net'[i].type = "ack"
         \/ \E j \in 1..Len(r) : net'[i] = r[j]
  <2> TAKE i \in 1..Len(net')
  <2>1. CASE i <= Len(before)
    BY <2>1, <1>2, <1>4
  <2>2. CASE i > Len(before)
    BY <2>2, <1>2, <1>3, <1>4
  <2> QED BY <2>1, <2>2, <1>2
<1> QED BY <1>1, <1>4, <1>5

LEMMA ReceivedFrames ==
  ASSUME NEW frames \in Seq(Frames), frames # <<>>
  PROVE  /\ Tail(frames) \in Seq(Frames)
         /\ Len(Tail(frames)) = Len(frames) - 1
         /\ Len(frames) \in Nat \ {0}
         /\ \A i \in 1..Len(Tail(frames)) : Tail(frames)[i] = frames[i + 1]
         /\ Head(frames) \in Frames /\ Head(frames) = frames[1]
OBVIOUS

\* The answers the server may give are frames, and none of them to a window is
\* a grant.
LEMMA FrameTypes ==
  ASSUME NEW t \in {"ack", "meta", "grant", "results"} \cup Codes,
         NEW k \in 0..Len(MemberOf), NEW v \in SUBSET Members
  PROVE  /\ Frame(t) \in Frames /\ Frame(t).type = t
         /\ Ack(k) \in Frames /\ Ack(k).type = "ack"
         /\ Meta(v) \in Frames /\ Meta(v).type = "meta"
BY ChunkNumbers DEF Frame, Frames, Ack, Meta

LEMMA AnswerTypes ==
  ASSUME NEW o, NEW e \in Chunks
  PROVE  \A r \in Answers(o, e) : /\ r \in Seq(Frames)
                                  /\ \A j \in 1..Len(r) : r[j].type # "grant"
<1>1. \A r \in Answers(o, e) :
         \/ r = <<>>
         \/ \E f \in Frames : r = <<f>> /\ f.type # "grant"
  <2>1. \A t \in {"ack", "meta", "grant", "results"} \cup Codes :
           Frame(t) \in Frames /\ Frame(t).type = t
    BY FrameTypes, ChunkNumbers
  <2>2. Ack(e) \in Frames /\ Ack(e).type = "ack"
    BY FrameTypes, ChunkNumbers DEF Chunks
  <2>3. "grant" \notin Codes
    BY DEF Codes, RetryCodes
  <2> QED BY <2>1, <2>2, <2>3 DEF Answers, Refusals
<1> TAKE r \in Answers(o, e)
<1>2. CASE r = <<>>
  BY <1>2
<1>3. ASSUME NEW f \in Frames, r = <<f>>, f.type # "grant"
      PROVE  r \in Seq(Frames) /\ \A j \in 1..Len(r) : r[j].type # "grant"
  BY <1>3
<1> QED BY <1>1, <1>2, <1>3

-----------------------------------------------------------------------------
(* Types, and a pass that skips no chunk *)

\* Chunks the server lacks and was not sent before chunk c of this pass.
Missed(v, c, s) == {k \in Rest(v, 1) : k < c /\ k \notin s}

\* What makes the types and WholeBeforeComplete inductive: a pause has a
\* budget, a window has chunks, and all before its end were sent.
PassInv ==
    /\ TypeOK
    /\ pc = "pause" => budget # NoBudget
    /\ pc = "window" => /\ needMeta
                        /\ Rest(verified, next) # {}
                        /\ Missed(verified, expected + 1, streamed) = {}
    /\ WholeBeforeComplete

LEMMA PassInit == Init => PassInv
<1> SUFFICES ASSUME Init PROVE PassInv
  OBVIOUS
<1> USE ManifestAssumption, ChunkNumbers DEF ManifestAssumption, Init
<1>1. net \in Seq(Frames) /\ Len(net) <= MaxNet
  OBVIOUS
<1>2. /\ origin \in 0..Len(MemberOf) /\ next \in 0..(Len(MemberOf) + 1)
      /\ highwater \in 0..Len(MemberOf)
      /\ budget \in 0..Budget \cup {NoBudget}
      /\ attempt \in 1..2
  OBVIOUS
<1>3. TypeOK
  BY <1>1, <1>2 DEF TypeOK
<1> QED BY <1>3 DEF PassInv, WholeBeforeComplete

LEMMA StartedBudget ==
  ASSUME TypeOK
  PROVE  Started \in 0..Budget /\ Started # NoBudget
BY ManifestAssumption DEF ManifestAssumption, TypeOK, Started

\* A window closes a gap: what it sends is all that is still to stream from
\* its first chunk to its last.
LEMMA WindowFills ==
  ASSUME NEW v, NEW o, NEW c \in Nat, NEW s, Rest(v, c) # {},
         Missed(v, c, s) = {}
  PROVE  /\ Missed(v, WindowEnd(v, o, c) + 1, s \cup Window(v, o, c)) = {}
         /\ Window(v, o, c) \subseteq Chunks
<1> DEFINE e == WindowEnd(v, o, c)
<1>1. e \in Nat /\ e >= c
  BY WindowEnds, ChunkNumbers
<1>2. ASSUME NEW k \in Rest(v, 1), k < e + 1
      PROVE  k \in s \cup Window(v, o, c)
  <2>1. k \in Chunks /\ k \in Nat /\ k <= e
    BY <1>1, <1>2, ChunkNumbers DEF Rest
  <2>2. CASE k < c
    BY <2>2 DEF Missed
  <2>3. CASE k >= c
    BY <2>1, <2>3 DEF Window, Rest
  <2> QED BY <2>1, <2>2, <2>3
<1> QED BY <1>2 DEF Missed, Window, Rest

\* Nothing left to stream from c on, and nothing missed before it.
LEMMA AllStreamed ==
  ASSUME NEW v, NEW c \in Nat, NEW s, Rest(v, c) = {}, Missed(v, c, s) = {}
  PROVE  \A k \in Chunks : MemberOf[k] \in v \/ k \in s
BY ChunkNumbers DEF Missed, Rest, Chunks

LEMMA StreamKeepsPass ==
  ASSUME TypeOK, net # <<>>, needMeta,
         NEW v \in SUBSET Members, NEW o \in 0..Len(MemberOf),
         NEW c \in 0..(Len(MemberOf) + 1), NEW b \in 0..Budget \cup {NoBudget},
         NEW s \in SUBSET Chunks,
         Missed(v, c, s) = {},
         Stream(v, o, c, b, s),
         highwater' \in 0..Len(MemberOf), authority' \in BOOLEAN,
         UNCHANGED <<online, status, granted>>
  PROVE  PassInv'
<1> USE DEF TypeOK
<1>1. /\ verified' = v /\ origin' = o /\ next' = c /\ attempt' = 1
      /\ attempt' \in 1..2
  BY DEF Stream
<1>2. /\ Received \in Seq(Frames) /\ Len(Received) <= MaxNet
  BY ReceivedFrames, ManifestAssumption DEF Received, ManifestAssumption
<1>3. CASE /\ Rest(v, c) = {} /\ pc' = "round" /\ needMeta' = FALSE
           /\ completing' = TRUE /\ net' = Received /\ streamed' = s
           /\ budget' = IF ~completing \/ b = NoBudget THEN Budget ELSE b
           /\ UNCHANGED note
  <2>1. budget' \in 0..Budget \cup {NoBudget}
    BY <1>3, ManifestAssumption DEF ManifestAssumption
  <2>2. TypeOK'
    BY <1>1, <1>2, <1>3, <2>1
  <2>3. c \in Nat
    BY ChunkNumbers
  <2>4. \A k \in Chunks : MemberOf[k] \in v \/ k \in s
    BY <1>3, <2>3, AllStreamed
  <2>5. WholeBeforeComplete'
    BY <1>1, <1>3, <2>4 DEF WholeBeforeComplete
  <2> QED BY <1>3, <2>2, <2>5 DEF PassInv
<1>4. CASE /\ Rest(v, c) # {} /\ pc' = "window"
           /\ Exchange(Received, Answers(o, WindowEnd(v, o, c)))
           /\ budget' = b /\ streamed' = s \cup Window(v, o, c)
           /\ UNCHANGED <<needMeta, completing>>
  <2>1. WindowEnd(v, o, c) \in Chunks
    BY <1>4, WindowEnds
  <2>2. net' \in Seq(Frames) /\ Len(net') <= MaxNet
    BY <1>2, <1>4, <2>1, AnswerTypes, ExchangedFrames
  <2>3. note' = FALSE
    BY <1>4 DEF Exchange
  <2>4. /\ Missed(v, WindowEnd(v, o, c) + 1, streamed') = {}
        /\ streamed' \subseteq Chunks
    <3>1. c \in Nat
      BY ChunkNumbers
    <3> QED BY <1>4, <3>1, WindowFills
  <2>5. TypeOK'
    BY <1>1, <1>4, <2>2, <2>3, <2>4
  <2>6. expected' = WindowEnd(v, o, c)
    BY <1>1 DEF expected
  <2>7. WholeBeforeComplete'
    BY <1>4 DEF WholeBeforeComplete
  <2> QED BY <1>1, <1>4, <2>4, <2>5, <2>6, <2>7 DEF PassInv
<1>5. CASE /\ pc' = "tell" /\ net' = Received /\ budget' = b /\ streamed' = s
           /\ UNCHANGED <<needMeta, completing, note>>
  <2>1. TypeOK'
    BY <1>1, <1>2, <1>5
  <2> QED BY <1>5, <2>1 DEF PassInv, WholeBeforeComplete
<1> QED BY <1>3, <1>4, <1>5 DEF Stream

\* The answer to metadata starts a pass at the first chunk the server lacks.
LEMMA MetadataKeepsPass ==
  ASSUME PassInv, MetadataAnswered
  PROVE  PassInv'
<1> DEFINE v == Head(net).v
           o == IF Rest(v, 1) = {} THEN 1 ELSE First(Rest(v, 1))
<1>1. net \in Seq(Frames) /\ net # <<>> /\ needMeta /\ pc = "await"
  BY DEF PassInv, TypeOK, MetadataAnswered
<1>2. v \in SUBSET Members
  BY <1>1, ReceivedFrames DEF Frames
<1>3. /\ Stream(v, o, o, budget, {})
      /\ authority' \in BOOLEAN
      /\ UNCHANGED <<online, highwater, status, granted>>
  BY DEF MetadataAnswered
<1>4. Rest(v, 1) \subseteq Chunks
  BY DEF Rest
<1>5. /\ o \in 1..Len(MemberOf)
      /\ \A k \in Rest(v, 1) : o <= k
  BY <1>4, FirstChunk, ChunkNumbers DEF Chunks
<1> HIDE DEF v, o
<1>6. Missed(v, o, {}) = {}
  <2>1. o \in Nat
    BY <1>5, ChunkNumbers
  <2>2. ASSUME NEW k \in Rest(v, 1) PROVE ~ (k < o)
    <3>1. k \in Nat /\ o <= k
      BY <1>4, <1>5, ChunkNumbers
    <3> QED BY <2>1, <3>1
  <2> QED BY <2>2 DEF Missed
<1>7. /\ TypeOK /\ budget \in 0..Budget \cup {NoBudget}
      /\ highwater' \in 0..Len(MemberOf)
  BY <1>3 DEF PassInv, TypeOK
<1>8. o \in 0..Len(MemberOf) /\ o \in 0..(Len(MemberOf) + 1)
  BY <1>5, ChunkNumbers
<1> QED BY <1>1, <1>2, <1>3, <1>6, <1>7, <1>8, StreamKeepsPass

LEMMA WindowDoneKeepsPass ==
  ASSUME PassInv, WindowDone
  PROVE  PassInv'
<1>1. /\ TypeOK /\ net # <<>> /\ needMeta /\ Rest(verified, next) # {}
      /\ Missed(verified, expected + 1, streamed) = {}
  BY DEF PassInv, WindowDone
<1>2. expected \in Chunks
  BY <1>1, WindowEnds DEF expected
<1>3. expected + 1 \in 0..(Len(MemberOf) + 1)
  BY <1>2, ChunkNumbers DEF Chunks
<1>4. \E b \in {NoBudget, budget} :
         Stream(verified, origin, expected + 1, b, streamed)
  BY DEF WindowDone, Progress
<1>5. /\ highwater' \in 0..Len(MemberOf)
      /\ UNCHANGED <<online, status, granted, authority>>
  BY <1>1, <1>2, ChunkNumbers DEF WindowDone, Progress, TypeOK, Chunks
<1> HIDE DEF expected
<1> QED BY <1>1, <1>3, <1>4, <1>5, StreamKeepsPass DEF TypeOK

\* A window that timed out is sent again whole, or the pass is over.
LEMMA WindowTimeoutKeepsPass ==
  ASSUME PassInv, WindowTimeout
  PROVE  PassInv'
<1> USE DEF history
<1>1. /\ TypeOK /\ pc = "window" /\ needMeta /\ Rest(verified, next) # {}
      /\ Missed(verified, expected + 1, streamed) = {}
  BY DEF PassInv, WindowTimeout
<1>2. UNCHANGED <<online, verified, origin, next, highwater, completing,
                  status, granted, authority, streamed>>
  BY DEF WindowTimeout
<1>3. CASE /\ attempt' = 2
           /\ Exchange(net, Answers(origin, expected))
           /\ UNCHANGED <<pc, budget, needMeta>>
  <2>1. expected \in Chunks
    BY <1>1, WindowEnds DEF expected
  <2>2. net' \in Seq(Frames) /\ Len(net') <= MaxNet
    BY <1>1, <1>3, <2>1, AnswerTypes, ExchangedFrames DEF TypeOK
  <2>3. note' = FALSE /\ attempt' \in 1..2
    BY <1>3 DEF Exchange
  <2>4. TypeOK'
    BY <1>1, <1>2, <1>3, <2>2, <2>3 DEF TypeOK
  <2>5. expected' = expected
    BY <1>2 DEF expected
  <2> QED BY <1>1, <1>2, <1>3, <2>4, <2>5 DEF PassInv, WholeBeforeComplete
<1>4. CASE Unsent /\ Pause /\ needMeta' = TRUE /\ UNCHANGED attempt
  <2>1. PICK before \in Cleared(net) : net' = before
    BY <1>4 DEF Unsent
  <2>2. net' \in Seq(Frames) /\ Len(net') <= MaxNet
    BY <1>1, <2>1, ClearedFrames, ManifestAssumption
       DEF TypeOK, ManifestAssumption
  <2>3. /\ note' = FALSE /\ pc' = "pause"
        /\ budget' \in 0..Budget /\ budget' # NoBudget
    BY <1>1, <1>4, StartedBudget DEF Unsent, Pause
  <2>4. TypeOK'
    BY <1>1, <1>2, <1>4, <2>2, <2>3 DEF TypeOK
  <2> QED BY <1>4, <2>3, <2>4 DEF PassInv, WholeBeforeComplete
<1>5. CASE pc' = "tell" /\ UNCHANGED <<attempt, budget, needMeta, net, note>>
  <2>1. TypeOK'
    BY <1>1, <1>2, <1>5 DEF TypeOK
  <2> QED BY <1>1, <1>5, <2>1 DEF PassInv, WholeBeforeComplete
<1> QED BY <1>3, <1>4, <1>5 DEF WindowTimeout

\* A request for metadata or complete, and a round without a session.
LEMMA AskKeepsPass ==
  ASSUME PassInv, Ask
  PROVE  PassInv'
<1> DEFINE answers ==
      {<<>>, <<Frame("grant")>>} \cup Refusals
         \cup IF needMeta THEN {<<Meta(v)>> : v \in SUBSET Members} ELSE {}
<1>1. TypeOK /\ WholeBeforeComplete
  BY DEF PassInv
<1>2. \A r \in answers : r \in Seq(Frames)
  <2>1. \A t \in {"ack", "meta", "grant", "results"} \cup Codes :
           Frame(t) \in Frames
    BY FrameTypes, ChunkNumbers
  <2>2. \A v \in SUBSET Members : Meta(v) \in Frames
    BY FrameTypes, ChunkNumbers
  <2>3. \A r \in answers : r = <<>> \/ \E f \in Frames : r = <<f>>
    BY <2>1, <2>2 DEF Refusals
  <2>4. <<>> \in Seq(Frames) /\ \A f \in Frames : <<f>> \in Seq(Frames)
    OBVIOUS
  <2> HIDE DEF answers
  <2> QED BY <2>3, <2>4
<1>3. /\ Exchange(net, answers)
      /\ pc' = "await" /\ budget' = Spent /\ budget # 0
      /\ granted' = (granted \/ \E i \in DOMAIN net' : net'[i].type = "grant")
      /\ UNCHANGED <<online, needMeta, verified, origin, next, attempt,
                     highwater, completing, status, authority, streamed>>
  BY DEF Ask
<1> HIDE DEF answers
<1>4. net' \in Seq(Frames) /\ Len(net') <= MaxNet
  BY <1>1, <1>2, <1>3, ExchangedFrames DEF TypeOK
<1>5. note' = FALSE /\ granted' \in BOOLEAN
  BY <1>1, <1>3 DEF Exchange, TypeOK
<1>6. budget' \in 0..Budget \cup {NoBudget}
  BY <1>1, <1>3, ManifestAssumption DEF Spent, TypeOK, ManifestAssumption
<1>7. TypeOK'
  BY <1>1, <1>3, <1>4, <1>5, <1>6 DEF TypeOK
<1> QED BY <1>1, <1>3, <1>7 DEF PassInv, WholeBeforeComplete

LEMMA RoundFailsKeepsPass ==
  ASSUME PassInv, RoundFails
  PROVE  PassInv'
<1>1. TypeOK
  BY DEF PassInv
<1>2. PICK before \in Cleared(net) : net' = before
  BY DEF RoundFails, Unsent
<1>3. net' \in Seq(Frames) /\ Len(net') <= MaxNet
  BY <1>1, <1>2, ClearedFrames, ManifestAssumption
     DEF TypeOK, ManifestAssumption
<1>4. /\ note' = FALSE /\ pc' = "pause" /\ needMeta' = TRUE
      /\ budget' \in 0..Budget /\ budget' # NoBudget
      /\ UNCHANGED <<online, verified, origin, next, attempt, highwater,
                     completing, status, granted, authority, streamed>>
  BY <1>1, StartedBudget DEF RoundFails, Unsent, Pause, history
<1>5. TypeOK'
  BY <1>1, <1>3, <1>4 DEF TypeOK
<1> QED BY <1>4, <1>5 DEF PassInv, WholeBeforeComplete

\* Steps that read a frame, or none, and leave the pass as it is.
LEMMA ReadKeepsPass ==
  ASSUME PassInv,
         \/ IgnoreStaleAck \/ ResultsOnly \/ Refused \/ Rejected \/ Finish
  PROVE  PassInv'
<1> USE DEF history, sender
<1>1. TypeOK /\ net # <<>>
  BY DEF PassInv, IgnoreStaleAck, ResultsOnly, Refused, Rejected, Finish
<1>2. net' = Received
  BY DEF IgnoreStaleAck, ResultsOnly, Refused, Rejected, Finish
<1>3. net' \in Seq(Frames) /\ Len(net') <= MaxNet
  BY <1>1, <1>2, ReceivedFrames, ManifestAssumption
     DEF Received, TypeOK, ManifestAssumption
<1>4. UNCHANGED <<online, note, verified, origin, next, attempt, highwater,
                  completing, granted, authority, streamed>>
  BY DEF IgnoreStaleAck, ResultsOnly, Refused, Rejected, Finish, Give
<1>5. CASE IgnoreStaleAck \/ ResultsOnly
  <2>1. UNCHANGED <<pc, needMeta, budget, status>>
    BY <1>5 DEF IgnoreStaleAck, ResultsOnly
  <2>2. TypeOK'
    BY <1>1, <1>3, <1>4, <2>1 DEF TypeOK
  <2>3. expected' = expected
    BY <1>4 DEF expected
  <2> QED BY <1>4, <2>1, <2>2, <2>3 DEF PassInv, WholeBeforeComplete
<1>6. CASE Refused
  <2>1. /\ pc' \in {"round", "pause"} /\ needMeta' \in BOOLEAN
        /\ ~needMeta' => ~needMeta
        /\ budget' \in 0..Budget /\ budget' # NoBudget /\ status' = status
    BY <1>1, <1>6, StartedBudget DEF Refused, TypeOK
  <2>2. TypeOK'
    BY <1>1, <1>3, <1>4, <2>1 DEF TypeOK
  <2> QED BY <1>4, <2>1, <2>2 DEF PassInv, WholeBeforeComplete
<1>7. CASE Rejected \/ Finish
  <2>1. /\ pc' \in {"tell", "ended"}
        /\ status' \in {status, "completed"}
        /\ UNCHANGED <<needMeta, budget>>
    BY <1>7 DEF Rejected, Finish, Give
  <2>2. TypeOK'
    BY <1>1, <1>3, <1>4, <2>1 DEF TypeOK
  <2> QED BY <1>4, <2>1, <2>2 DEF PassInv, WholeBeforeComplete
<1> QED BY <1>5, <1>6, <1>7

LEMMA WaitKeepsPass ==
  ASSUME PassInv,
         \/ Start \/ Exhausted \/ NoteRead \/ AwaitTimeout \/ PauseOver \/ Tell
  PROVE  PassInv'
<1> USE DEF history
<1>1. TypeOK
  BY DEF PassInv
<1>2. UNCHANGED <<online, net, verified, origin, next, attempt, highwater,
                  completing, granted, authority, streamed>>
  BY DEF Start, Exhausted, NoteRead, AwaitTimeout, PauseOver, Tell, Give
<1>3. CASE Start \/ Exhausted \/ Tell
  <2>1. /\ pc' \in {"tell", "round", "ended"}
        /\ status' \in {status, "uploading", "failed"}
        /\ UNCHANGED <<note, needMeta, budget>>
    BY <1>3 DEF Start, Exhausted, Tell, Give
  <2>2. TypeOK'
    BY <1>1, <1>2, <2>1 DEF TypeOK
  <2> QED BY <1>2, <2>1, <2>2 DEF PassInv, WholeBeforeComplete
<1>4. CASE NoteRead
  <2>1. /\ pc' = "pause" /\ note' = FALSE /\ needMeta' = TRUE
        /\ budget' \in 0..Budget /\ budget' # NoBudget /\ status' = status
    BY <1>1, <1>4, StartedBudget DEF NoteRead, Pause
  <2>2. TypeOK'
    BY <1>1, <1>2, <2>1 DEF TypeOK
  <2> QED BY <2>1, <2>2 DEF PassInv, WholeBeforeComplete
<1>5. CASE AwaitTimeout
  <2>1. /\ pc' \in {"tell", "round", "pause"}
        /\ budget' \in 0..Budget /\ budget' # NoBudget
        /\ UNCHANGED <<note, needMeta, status>>
    BY <1>1, <1>5, StartedBudget DEF AwaitTimeout
  <2>2. TypeOK'
    BY <1>1, <1>2, <2>1 DEF TypeOK
  <2> QED BY <1>2, <2>1, <2>2 DEF PassInv, WholeBeforeComplete
<1>6. CASE PauseOver
  <2>1. budget \in 0..Budget
    BY <1>1, <1>6 DEF PauseOver, PassInv, TypeOK
  <2>2. budget' \in 0..Budget
    BY <1>6, <2>1, ManifestAssumption DEF PauseOver, ManifestAssumption
  <2>3. pc' \in {"tell", "round"} /\ UNCHANGED <<note, needMeta, status>>
    BY <1>6 DEF PauseOver
  <2>4. TypeOK'
    BY <1>1, <1>2, <2>2, <2>3 DEF TypeOK
  <2> QED BY <1>2, <2>3, <2>4 DEF PassInv, WholeBeforeComplete
<1> QED BY <1>3, <1>4, <1>5, <1>6

LEMMA PassStep == PassInv /\ [Next]_vars => PassInv'
<1> SUFFICES ASSUME PassInv, [Next]_vars PROVE PassInv'
  OBVIOUS
<1>1. CASE Disconnect
  <2>1. /\ net' = <<>> /\ net' \in Seq(Frames) /\ Len(net') <= MaxNet
        /\ online' = FALSE /\ note' = TRUE /\ authority' = FALSE
        /\ UNCHANGED <<sender, status, granted, streamed>>
    BY <1>1, ManifestAssumption DEF Disconnect, ManifestAssumption
  <2>2. TypeOK'
    BY <2>1 DEF PassInv, TypeOK, sender
  <2>3. expected' = expected
    BY <2>1 DEF expected, sender
  <2> QED BY <2>1, <2>2, <2>3 DEF PassInv, WholeBeforeComplete, sender
<1>2. CASE Reconnect \/ UNCHANGED vars
  <2>1. /\ online' \in {online, TRUE}
        /\ UNCHANGED <<net, note, sender, status, history>>
    BY <1>2 DEF Reconnect, vars
  <2>2. TypeOK'
    BY <2>1 DEF PassInv, TypeOK, sender, history
  <2>3. expected' = expected
    BY <2>1 DEF expected, sender
  <2> QED BY <2>1, <2>2, <2>3
          DEF PassInv, WholeBeforeComplete, sender, history
<1> QED BY <1>1, <1>2, MetadataKeepsPass, WindowDoneKeepsPass,
           WindowTimeoutKeepsPass, AskKeepsPass, RoundFailsKeepsPass,
           ReadKeepsPass, WaitKeepsPass DEF Next, SenderStep

\* The frames, the pass and the retry budget keep their types, for any plan,
\* answers of the server and lost connections (TypeOK).
THEOREM ManifestTypes == Spec => []TypeOK
<1>1. PassInv => TypeOK
  BY DEF PassInv
<1> QED BY <1>1, PassInit, PassStep, PTL DEF Spec

\* However passes are refused, timed out or lost and started again, complete
\* is asked for only when every chunk of a member the server lacks was sent in
\* the last pass (WholeBeforeComplete).
THEOREM NoChunkIsSkipped == Spec => []WholeBeforeComplete
<1>1. PassInv => WholeBeforeComplete
  BY DEF PassInv
<1> QED BY <1>1, PassInit, PassStep, PTL DEF Spec

-----------------------------------------------------------------------------
(* What is completed was granted *)

GrantInv ==
    /\ CompletedIsGranted
    /\ \A i \in 1..Len(net) : net[i].type = "grant" => granted

\* Exchanges other than a request for metadata or complete bring no grant.
LEMMA WindowHasNoGrant ==
  ASSUME NEW frames \in Seq(Frames), NEW o, NEW e \in Chunks,
         Exchange(frames, Answers(o, e))
  PROVE  \A i \in 1..Len(net') : net'[i].type # "grant"
<1>1. PICK r \in Answers(o, e) : \A i \in 1..Len(net') :
         \/ net'[i].type = "ack"
         \/ \E j \in 1..Len(r) : net'[i] = r[j]
  BY AnswerTypes, ExchangedFrames
<1>2. \A j \in 1..Len(r) : r[j].type # "grant"
  BY AnswerTypes
<1> QED BY <1>1, <1>2

LEMMA StreamKeepsGrant ==
  ASSUME TypeOK, GrantInv, net # <<>>, NEW v, NEW o, NEW c, NEW b, NEW s,
         Stream(v, o, c, b, s), UNCHANGED <<status, granted>>
  PROVE  GrantInv'
<1>1. /\ Received \in Seq(Frames)
      /\ \A i \in 1..Len(Received) : Received[i].type = "grant" => granted
  BY ReceivedFrames DEF Received, TypeOK, GrantInv
<1>2. CASE net' = Received
  BY <1>1, <1>2 DEF GrantInv, CompletedIsGranted
<1>3. CASE Rest(v, c) # {} /\ Exchange(Received, Answers(o, WindowEnd(v, o, c)))
  BY <1>1, <1>3, WindowEnds, WindowHasNoGrant DEF GrantInv, CompletedIsGranted
<1> QED BY <1>2, <1>3 DEF Stream

LEMMA GrantStep ==
  ASSUME PassInv, GrantInv, [Next]_vars
  PROVE  GrantInv'
<1> USE DEF GrantInv, CompletedIsGranted, history, sender
<1>1. TypeOK /\ net \in Seq(Frames)
  BY DEF PassInv, TypeOK
<1>2. CASE Disconnect
  BY <1>2 DEF Disconnect
<1>3. CASE Ask
  <2>1. net' \in Seq(Frames)
    BY <1>3, AskKeepsPass DEF PassInv, TypeOK
  <2>2. DOMAIN net' = 1..Len(net')
    BY <2>1
  <2>3. /\ granted' = (granted \/ \E i \in DOMAIN net' : net'[i].type = "grant")
        /\ status' = status
    BY <1>3 DEF Ask
  <2> QED BY <2>2, <2>3
<1>4. CASE MetadataAnswered
  BY <1>1, <1>4, StreamKeepsGrant DEF MetadataAnswered
<1>5. CASE WindowDone
  BY <1>1, <1>5, StreamKeepsGrant DEF WindowDone, Progress
<1>6. CASE WindowTimeout \/ RoundFails
  <2>1. UNCHANGED <<status, granted>>
    BY <1>6 DEF WindowTimeout, RoundFails
  <2>2. CASE pc = "window" /\ Exchange(net, Answers(origin, expected))
    <3>1. expected \in Chunks
      BY <2>2, WindowEnds DEF PassInv, expected
    <3> QED BY <1>1, <2>1, <2>2, <3>1, WindowHasNoGrant
  <2>3. CASE Unsent
    BY <1>1, <2>1, <2>3, ClearedFrames DEF Unsent
  <2>4. CASE net' = net
    BY <2>1, <2>4
  <2> QED BY <1>6, <2>2, <2>3, <2>4 DEF WindowTimeout, RoundFails
<1>7. CASE IgnoreStaleAck \/ ResultsOnly \/ Refused \/ Rejected \/ Finish
  <2>1. /\ net' = Tail(net) /\ net # <<>> /\ granted' = granted
        /\ \/ status' = status
           \/ status' = "completed" /\ Head(net).type = "grant"
    BY <1>7 DEF IgnoreStaleAck, ResultsOnly, Refused, Rejected, Finish, Received
  <2> QED BY <1>1, <2>1, ReceivedFrames
<1>8. CASE \/ Reconnect \/ Start \/ Exhausted \/ NoteRead \/ AwaitTimeout
           \/ PauseOver \/ Tell \/ UNCHANGED vars
  BY <1>8 DEF Reconnect, Start, Exhausted, NoteRead, AwaitTimeout, PauseOver,
     Tell, vars
<1> QED BY <1>2, <1>3, <1>4, <1>5, <1>6, <1>7, <1>8 DEF Next, SenderStep

\* A data set is completed only when the server granted the order, whichever
\* request the grant answered (CompletedIsGranted).
THEOREM CompletedWasGranted == Spec => []CompletedIsGranted
<1>1. Init => GrantInv
  BY DEF Init, GrantInv, CompletedIsGranted
<1>2. GrantInv => CompletedIsGranted
  BY DEF GrantInv
<1> QED BY <1>1, <1>2, PassInit, PassStep, GrantStep, PTL DEF Spec

-----------------------------------------------------------------------------
(* What is in a window *)

LEMMA FiniteChunks ==
  ASSUME NEW S, S \subseteq Chunks
  PROVE  IsFiniteSet(S) /\ Cardinality(S) \in Nat
<1>1. IsFiniteSet(Chunks)
  BY ChunkNumbers, FS_Interval DEF Chunks
<1> QED BY <1>1, FS_Subset, FS_CardinalityType

\* Chunks of a pass from c to k.
UpTo(v, c, k) == {j \in Rest(v, c) : j <= k}

\* A chunk that makes WINDOW_SIZE or more of them has one before or at it that
\* makes just WINDOW_SIZE.
LEMMA FullWindow ==
  ASSUME NEW v, NEW c, NEW e \in Rest(v, c),
         Cardinality(UpTo(v, c, e)) >= WINDOW_SIZE
  PROVE  \E k \in Rest(v, c) :
            k <= e /\ Cardinality(UpTo(v, c, k)) = WINDOW_SIZE
<1>1. Rest(v, c) \subseteq Chunks /\ Rest(v, c) \subseteq Nat
  BY ChunkNumbers DEF Rest
<1>2. WINDOW_SIZE \in Nat \ {0}
  BY ManifestAssumption DEF ManifestAssumption
<1>3. PICK k \in Rest(v, c) :
        /\ Cardinality(UpTo(v, c, k)) >= WINDOW_SIZE
        /\ \A j \in Rest(v, c) :
              Cardinality(UpTo(v, c, j)) >= WINDOW_SIZE => k <= j
  <2> DEFINE full ==
        {x \in Rest(v, c) : Cardinality(UpTo(v, c, x)) >= WINDOW_SIZE}
  <2>1. full \subseteq Chunks /\ full # {}
    BY <1>1
  <2>2. First(full) \in full /\ \A j \in full : First(full) <= j
    BY <2>1, FirstChunk
  <2> QED BY <2>2
<1> DEFINE below == {j \in Rest(v, c) : j < k}
<1>4. UpTo(v, c, k) = below \cup {k} /\ k \notin below /\ below \subseteq Chunks
  BY <1>1 DEF UpTo
<1> HIDE DEF below
<1>5. /\ IsFiniteSet(below) /\ Cardinality(below) \in Nat
      /\ Cardinality(UpTo(v, c, k)) = Cardinality(below) + 1
  BY <1>4, FiniteChunks, FS_AddElement
<1>6. Cardinality(below) < WINDOW_SIZE
  <2>1. CASE below = {}
    <3>1. Cardinality(below) = 0
      BY <2>1, FS_EmptySet
    <3> QED BY <3>1, <1>2
  <2>2. CASE below # {}
    <3>1. PICK last \in below : \A j \in below : last >= j
      BY <1>4, <2>2, LastChunk
    <3>2. last \in Rest(v, c) /\ last < k
      BY <3>1 DEF below
    <3>3. UpTo(v, c, last) = below
      BY <3>1, <3>2, <1>1 DEF UpTo, below
    <3>4. ~ (Cardinality(below) >= WINDOW_SIZE)
      BY <3>2, <3>3, <1>1, <1>3
    <3> QED BY <3>4, <1>2, <1>5
  <2> QED BY <2>1, <2>2
<1>7. k <= e
  BY <1>3
<1> QED BY <1>2, <1>3, <1>5, <1>6, <1>7

\* A window is not empty, holds WINDOW_SIZE chunks at most, and none before
\* its last is one the server acknowledges of its own accord.
LEMMA WindowFits ==
  ASSUME NEW v, NEW o, NEW c \in Nat, Rest(v, c) # {}
  PROVE  /\ WindowEnd(v, o, c) \in Window(v, o, c)
         /\ Cardinality(Window(v, o, c)) <= WINDOW_SIZE
         /\ \A k \in Window(v, o, c) :
               Boundary(o, k) => k = WindowEnd(v, o, c)
<1> DEFINE e == WindowEnd(v, o, c)
<1>1. e \in Rest(v, c) /\ e \in Nat
  BY WindowEnds, ChunkNumbers
<1>2. /\ Ends(v, o, c) \subseteq Rest(v, c) /\ Rest(v, c) \subseteq Chunks
      /\ Rest(v, c) \subseteq Nat
  BY ChunkNumbers DEF Ends, Rest
<1>3. \A k \in Ends(v, o, c) : e <= k
  BY <1>2, FirstChunk DEF WindowEnd
<1>4. \A k \in Window(v, o, c) : Boundary(o, k) => k = e
  <2> TAKE k \in Window(v, o, c)
  <2> HAVE Boundary(o, k)
  <2>1. k \in Ends(v, o, c) /\ k <= e /\ k \in Nat
    BY <1>2, ChunkNumbers DEF Window, Ends
  <2> QED BY <2>1, <1>1, <1>3
<1> HIDE DEF e
<1>5. Window(v, o, c) = UpTo(v, c, e)
  BY DEF Window, UpTo, e
<1>6. UpTo(v, c, e) \subseteq Chunks
  BY <1>2 DEF UpTo
<1>7. Cardinality(UpTo(v, c, e)) \in Nat
  BY <1>6, FiniteChunks
<1>8. Cardinality(UpTo(v, c, e)) <= WINDOW_SIZE
  <2>1. SUFFICES ASSUME Cardinality(UpTo(v, c, e)) > WINDOW_SIZE PROVE FALSE
    BY <1>7, ManifestAssumption DEF ManifestAssumption
  <2>2. PICK k \in Rest(v, c) :
           k <= e /\ Cardinality(UpTo(v, c, k)) = WINDOW_SIZE
    BY <2>1, <1>1, <1>7, FullWindow, ManifestAssumption DEF ManifestAssumption
  <2>3. \A j \in Rest(v, c) : j \in Rest(v, k + 1) <=> ~ (j <= k)
    BY <1>2 DEF Rest
  <2>4. Rest(v, c) \ Rest(v, k + 1) = UpTo(v, c, k)
    BY <2>3 DEF UpTo
  <2>5. k \in Ends(v, o, c)
    BY <2>2, <2>4 DEF Ends
  <2>6. k = e
    BY <2>2, <2>5, <1>1, <1>2, <1>3
  <2> QED BY <2>1, <2>2, <2>6, ManifestAssumption DEF ManifestAssumption
<1> QED BY <1>1, <1>4, <1>5, <1>8 DEF Window, e

\* No window is larger than WINDOW_SIZE or crosses a chunk the server
\* acknowledges, for any plan and any verified members (ManifestSender.stream).
THEOREM WindowsFit == Spec => []WindowsKeepCadence
<1>1. PassInv => WindowsKeepCadence
  <2> SUFFICES ASSUME PassInv, pc = "window" PROVE WindowsKeepCadence
    BY DEF WindowsKeepCadence
  <2>1. next \in Nat /\ Rest(verified, next) # {}
    BY ChunkNumbers DEF PassInv, TypeOK
  <2> QED BY <2>1, WindowFits DEF WindowsKeepCadence, expected
<1> QED BY <1>1, PassInit, PassStep, PTL DEF Spec
=============================================================================
