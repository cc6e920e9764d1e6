----------------------- MODULE DatasetLifecycleProofs -----------------------
(***************************************************************************)
(* For every set of datasets, workers and editors and every number of      *)
(* crashes: the types, one owner per dataset, the work pool, and that an   *)
(* unfinished dataset is somebody's business.                              *)
(***************************************************************************)
EXTENDS DatasetLifecycle, TLAPS

\* The copies handlers and workers write are rows.
LEMMA BlankRows == Absent \in Rows /\ NewRow \in Rows
  BY DEF Rows, Absent, NewRow, Statuses

LEMMA ExtractedRow == ASSUME NEW r \in Rows PROVE Extracted(r) \in Rows
  BY DEF Rows, Extracted

LEMMA StatusRow ==
  ASSUME NEW r \in Rows, NEW s \in Statuses
  PROVE  [r EXCEPT !.status = s] \in Rows
  BY DEF Rows

LEMMA EditedRow ==
  ASSUME NEW r \in Rows, NEW x \in {"pending", "complete"}
  PROVE  /\ [r EXCEPT !.confirmed = TRUE] \in Rows
         /\ [r EXCEPT !.listing = TRUE] \in Rows
         /\ [r EXCEPT !.described = TRUE] \in Rows
         /\ [r EXCEPT !.disclosed = x] \in Rows
         /\ [r EXCEPT !.disclosed = "pending", !.listing = TRUE] \in Rows
  BY DEF Rows

LEMMA RowSaved ==
  ASSUME NEW d \in Datasets, NEW r \in Rows, row \in [Datasets -> Rows],
         Save(d, r)
  PROVE  row' \in [Datasets -> Rows]
  BY DEF Save

\* Taking the first item of a queue of datasets.
LEMMA QueueHead ==
  ASSUME queue \in Seq(Datasets), queue # <<>>
  PROVE  /\ Head(queue) \in Datasets
         /\ Tail(queue) \in Seq(Datasets)
         /\ Len(queue) \in Nat \ {0}
         /\ Len(Tail(queue)) = Len(queue) - 1
         /\ Head(queue) = queue[1]
         /\ \A i \in 1..Len(Tail(queue)) : Tail(queue)[i] = queue[i + 1]
  OBVIOUS

-----------------------------------------------------------------------------
LEMMA TypeInit == Init => TypeOK
<1> SUFFICES ASSUME Init PROVE TypeOK
  OBVIOUS
<1>1. row \in [Datasets -> Rows]
  BY BlankRows DEF Init
<1>2. upload \in [Datasets -> {"none", "created", "streaming", "accepted",
                               "failed"}]
  BY DEF Init
<1>3. progress \in [Datasets -> {"none", "queued", "extracting"}]
  BY DEF Init
<1>4. worker \in [Workers -> Datasets \cup {NoDataset}]
  BY DEF Init
<1>5. copy \in [Workers -> Rows]
  BY BlankRows DEF Init
<1>6. /\ editing \in [Editors -> {"none", "describe", "publish", "disclose"}]
      /\ \A e \in Editors : editing[e] # "none" => target[e] \in Datasets
  BY DEF Init
<1>7. target \in [Editors -> Datasets \cup {NoDataset}]
  BY DEF Init
<1>8. memo \in [Editors -> Rows]
  BY BlankRows DEF Init
<1>9. /\ queue \in Seq(Datasets)
      /\ file \subseteq Datasets /\ artifact \subseteq Datasets
      /\ overwritten \subseteq Datasets
      /\ deleted \subseteq Datasets /\ lost \subseteq Datasets
      /\ current \in Datasets \cup {NoDataset}
      /\ crashes \in 0..MaxCrashes
  BY DatasetAssumption DEF Init
<1> QED BY <1>1, <1>2, <1>3, <1>4, <1>5, <1>6, <1>7, <1>8, <1>9 DEF TypeOK

LEMMA TypeStep == TypeOK /\ [Next]_vars => TypeOK'
<1> SUFFICES ASSUME TypeOK, [Next]_vars PROVE TypeOK'
  OBVIOUS
<1> USE DatasetAssumption DEF TypeOK, poolVars, editVars
<1>1. ASSUME NEW d \in Datasets, StartUpload(d)
     PROVE  TypeOK'
  <2>1. row' \in [Datasets -> Rows]
    BY <1>1, BlankRows, RowSaved DEF StartUpload
  <2> QED BY <1>1, <2>1 DEF StartUpload
<1>2. ASSUME NEW d \in Datasets, OpenFile(d)
     PROVE  TypeOK'
  BY <1>2 DEF OpenFile
<1>3. ASSUME NEW d \in Datasets, FinishUpload(d)
     PROVE  TypeOK'
  <2>1. row' \in [Datasets -> Rows]
    BY <1>3, BlankRows, RowSaved DEF FinishUpload
  <2>2. queue' \in Seq(Datasets)
    BY <1>3 DEF FinishUpload, Submit
  <2>3. /\ progress' \in [Datasets -> {"none", "queued", "extracting"}]
        /\ upload' \in [Datasets -> {"none", "created", "streaming",
                                     "accepted", "failed"}]
        /\ UNCHANGED <<file, artifact, current, worker, copy, editVars,
                        deleted, lost, crashes>>
    BY <1>3 DEF FinishUpload, Submit
  <2> QED BY <2>1, <2>2, <2>3
<1>4. ASSUME NEW d \in Datasets, RejectMagic(d)
     PROVE  TypeOK'
  <2>1. row' \in [Datasets -> Rows]
    BY <1>4, BlankRows, RowSaved DEF RejectMagic
  <2> QED BY <1>4, <2>1 DEF RejectMagic
<1>5. ASSUME NEW d \in Datasets, AbortUpload(d)
     PROVE  TypeOK'
  <2>1. row' \in [Datasets -> Rows]
    BY <1>5, BlankRows, RowSaved DEF AbortUpload, RemoveDataset
  <2> QED BY <1>5, <2>1 DEF AbortUpload, RemoveDataset
<1>6. ASSUME NEW d \in Datasets, ImportFails(d)
     PROVE  TypeOK'
  BY <1>6 DEF ImportFails
<1>7. ASSUME NEW d \in Datasets, Delete(d)
     PROVE  TypeOK'
  <2>1. row' \in [Datasets -> Rows]
    BY <1>7, BlankRows, RowSaved DEF Delete, RemoveDataset
  <2> QED BY <1>7, <2>1 DEF Delete, RemoveDataset
<1>8. ASSUME NEW d \in Datasets, DeleteFails(d)
     PROVE  TypeOK'
  <2>1. row' \in [Datasets -> Rows]
    BY <1>8, StatusRow, RowSaved DEF DeleteFails, Statuses
  <2> QED BY <1>8, <2>1 DEF DeleteFails
<1>9. ASSUME NEW d \in Datasets, Confirm(d)
     PROVE  TypeOK'
  <2>1. row' \in [Datasets -> Rows]
    BY <1>9, EditedRow, RowSaved DEF Confirm
  <2> QED BY <1>9, <2>1 DEF Confirm
<1>10. CASE ConfirmBatch
  <2>1. row' \in [Datasets -> Rows]
    BY <1>10, EditedRow DEF ConfirmBatch
  <2> QED BY <1>10, <2>1 DEF ConfirmBatch
<1>11. ASSUME NEW w \in Workers, TakeAndSkip(w)
     PROVE  TypeOK'
  <2>1. row' \in [Datasets -> Rows]
    BY <1>11, QueueHead, StatusRow, RowSaved DEF TakeAndSkip, Statuses
  <2> QED BY <1>11, <2>1, QueueHead, BlankRows DEF TakeAndSkip, Release
<1>12. ASSUME NEW w \in Workers, Take(w)
     PROVE  TypeOK'
  <2>1. row' \in [Datasets -> Rows]
    BY <1>12, QueueHead, StatusRow, RowSaved DEF Take, Statuses
  <2> QED BY <1>12, <2>1, QueueHead, StatusRow DEF Take, Statuses
<1>13. ASSUME NEW w \in Workers, ExtractOk(w)
     PROVE  TypeOK'
  <2>1. row' \in [Datasets -> Rows]
    BY <1>13, ExtractedRow, StatusRow, RowSaved DEF ExtractOk, Statuses
  <2> QED BY <1>13, <2>1, BlankRows DEF ExtractOk, Release
<1>14. ASSUME NEW w \in Workers, ExtractFails(w)
     PROVE  TypeOK'
  <2>1. row' \in [Datasets -> Rows]
    BY <1>14, ExtractedRow, StatusRow, RowSaved DEF ExtractFails, Statuses
  <2> QED BY <1>14, <2>1, BlankRows DEF ExtractFails, Release
<1>15. ASSUME NEW w \in Workers, ProcessRaises(w)
     PROVE  TypeOK'
  <2>1. row' \in [Datasets -> Rows]
    BY <1>15, StatusRow, RowSaved DEF ProcessRaises, Statuses
  <2> QED BY <1>15, <2>1, BlankRows DEF ProcessRaises, Release
<1>16. ASSUME NEW e \in Editors, NEW d \in Datasets, DescribeStart(e, d)
     PROVE  TypeOK'
  BY <1>16 DEF DescribeStart, Await
<1>17. ASSUME NEW e \in Editors, NEW d \in Datasets, PublishStart(e, d)
     PROVE  TypeOK'
  BY <1>17 DEF PublishStart, Await
<1>18. ASSUME NEW e \in Editors, NEW d \in Datasets, DiscloseStart(e, d)
     PROVE  TypeOK'
  <2>1. row' \in [Datasets -> Rows]
    BY <1>18, EditedRow, RowSaved DEF DiscloseStart
  <2>2. [row[d] EXCEPT !.disclosed = "pending", !.listing = TRUE] \in Rows
    BY EditedRow
  <2>3. memo' \in [Editors -> Rows]
    BY <1>18, <2>2 DEF DiscloseStart, Await
  <2>4. /\ editing' \in [Editors -> {"none", "describe", "publish", "disclose"}]
        /\ target' \in [Editors -> Datasets \cup {NoDataset}]
    BY <1>18 DEF DiscloseStart, Await
  <2>5. \A x \in Editors : editing'[x] # "none" => target'[x] \in Datasets
    BY <1>18 DEF DiscloseStart, Await
  <2>6. UNCHANGED <<file, artifact, upload, poolVars, overwritten, deleted,
                    lost, crashes>>
    BY <1>18 DEF DiscloseStart, Await
  <2> QED BY <2>1, <2>3, <2>4, <2>5, <2>6
<1>19. ASSUME NEW e \in Editors, DescribeEnd(e)
     PROVE  TypeOK'
  <2>1. row' \in [Datasets -> Rows]
    BY <1>19, EditedRow, RowSaved DEF DescribeEnd, WriteBack
  <2> QED BY <1>19, <2>1, BlankRows DEF DescribeEnd, WriteBack, Return
<1>20. ASSUME NEW e \in Editors, PublishEnd(e)
     PROVE  TypeOK'
  <2>1. row' \in [Datasets -> Rows]
    BY <1>20, EditedRow, RowSaved DEF PublishEnd
  <2> QED BY <1>20, <2>1, BlankRows DEF PublishEnd, Return
<1>21. ASSUME NEW e \in Editors, DiscloseEnd(e)
     PROVE  TypeOK'
  <2>1. row' \in [Datasets -> Rows]
    BY <1>21, EditedRow, RowSaved DEF DiscloseEnd, WriteBack
  <2> QED BY <1>21, <2>1, BlankRows DEF DiscloseEnd, WriteBack, Return
<1>22. CASE CrashRestart
  <2>1. upload' \in [Datasets -> {"none", "created", "streaming", "accepted",
                                  "failed"}]
    BY <1>22 DEF CrashRestart
  <2>2. copy' \in [Workers -> Rows]
    BY <1>22, BlankRows DEF CrashRestart
  <2>3. memo' \in [Editors -> Rows]
    BY <1>22, BlankRows DEF CrashRestart
  <2>4. progress' \in [Datasets -> {"none", "queued", "extracting"}]
    BY <1>22 DEF CrashRestart
  <2>5. worker' \in [Workers -> Datasets \cup {NoDataset}]
    BY <1>22 DEF CrashRestart
  <2>6. /\ editing' \in [Editors -> {"none", "describe", "publish",
                                     "disclose"}]
        /\ \A e \in Editors : editing'[e] = "none"
    BY <1>22 DEF CrashRestart
  <2>7. target' \in [Editors -> Datasets \cup {NoDataset}]
    BY <1>22 DEF CrashRestart
  <2>8. queue' \in Seq(Datasets) /\ lost' \subseteq Datasets
    BY <1>22 DEF CrashRestart
  <2> QED BY <1>22, <2>1, <2>2, <2>3, <2>4, <2>5, <2>6, <2>7, <2>8
          DEF CrashRestart
<1>23. CASE UNCHANGED vars
  BY <1>23 DEF vars
<1> QED
  BY <1>1, <1>2, <1>3, <1>4, <1>5, <1>6, <1>7, <1>8, <1>9, <1>10, <1>11,
     <1>12, <1>13, <1>14, <1>15, <1>16, <1>17, <1>18, <1>19, <1>20, <1>21,
     <1>22, <1>23 DEF Next, WorkerStep

\* Every reachable state is well typed (TypeOK).
THEOREM DatasetTypes == Spec => []TypeOK
<1> QED BY TypeInit, TypeStep, PTL DEF Spec

-----------------------------------------------------------------------------
(* One owner per dataset, and the work pool *)

\* What makes SingleOwner inductive: only an accepted upload is in the pool,
\* what a crash took out of it never comes back.
OwnerInv ==
    /\ SingleOwner
    /\ \A d \in Datasets :
          /\ Queued(d) \/ Held(d) => upload[d] = "accepted" /\ d \notin lost
          /\ d \in lost => upload[d] \in {"accepted", "failed"}

\* Who is queued after a submit and after the first item was taken.
LEMMA QueuedAfterSubmit ==
  ASSUME TypeOK, NEW d \in Datasets, queue' = Append(queue, d)
  PROVE  \A x \in Datasets : Queued(x)' <=> Queued(x) \/ x = d
<1>1. /\ Len(queue') = Len(queue) + 1
      /\ queue'[Len(queue) + 1] = d
      /\ \A i \in 1..Len(queue) : queue'[i] = queue[i]
  BY DEF TypeOK
<1>2. Len(queue) \in Nat
  BY DEF TypeOK
<1> QED BY <1>1, <1>2 DEF Queued

LEMMA QueuedAfterTake ==
  ASSUME TypeOK, SingleOwner, queue # <<>>, queue' = Tail(queue)
  PROVE  /\ \A x \in Datasets : Queued(x)' <=> Queued(x) /\ x # Head(queue)
         /\ \A i, j \in 1..Len(queue') : queue'[i] = queue'[j] => i = j
         /\ Queued(Head(queue))
<1>1. /\ Len(queue) \in Nat \ {0}
      /\ Len(queue') = Len(queue) - 1
      /\ Head(queue) = queue[1]
      /\ \A i \in 1..Len(queue') : queue'[i] = queue[i + 1]
  BY QueueHead DEF TypeOK
<1>2. \A i, j \in 1..Len(queue) : queue[i] = queue[j] => i = j
  BY DEF SingleOwner
<1>3. ASSUME NEW x \in Datasets
      PROVE  Queued(x)' <=> Queued(x) /\ x # Head(queue)
  <2>1. ASSUME Queued(x)' PROVE Queued(x) /\ x # Head(queue)
    <3>1. PICK i \in 1..Len(queue') : queue'[i] = x
      BY <2>1 DEF Queued
    <3>2. i + 1 \in 1..Len(queue) /\ queue[i + 1] = x /\ i + 1 # 1
      BY <3>1, <1>1
    <3> QED BY <3>2, <1>1, <1>2 DEF Queued
  <2>2. ASSUME Queued(x), x # Head(queue) PROVE Queued(x)'
    <3>1. PICK i \in 1..Len(queue) : queue[i] = x
      BY <2>2 DEF Queued
    <3>2. i - 1 \in 1..Len(queue') /\ queue'[i - 1] = x
      BY <3>1, <2>2, <1>1
    <3> QED BY <3>2 DEF Queued
  <2> QED BY <2>1, <2>2
<1>4. \A i, j \in 1..Len(queue') : queue'[i] = queue'[j] => i = j
  BY <1>1, <1>2
<1>5. Queued(Head(queue))
  BY <1>1 DEF Queued
<1> QED BY <1>3, <1>4, <1>5

\* The six ways in which a step can move the pool.
Quiet ==
    /\ UNCHANGED <<queue, worker, lost>>
    /\ \A d \in Datasets :
          /\ upload'[d] = "accepted" <=> upload[d] = "accepted"
          /\ upload[d] = "failed" => upload'[d] = "failed"

Submits(d) ==
    /\ upload[d] = "streaming"
    /\ upload' = [upload EXCEPT ![d] = "accepted"]
    /\ queue' = Append(queue, d)
    /\ UNCHANGED <<worker, lost>>

Skips(w) ==
    /\ worker[w] = NoDataset
    /\ queue # <<>>
    /\ queue' = Tail(queue)
    /\ worker' = [worker EXCEPT ![w] = NoDataset]
    /\ UNCHANGED <<upload, lost>>

Takes(w) ==
    /\ worker[w] = NoDataset
    /\ queue # <<>>
    /\ queue' = Tail(queue)
    /\ worker' = [worker EXCEPT ![w] = Head(queue)]
    /\ UNCHANGED <<upload, lost>>

Releases(w) ==
    /\ worker[w] # NoDataset
    /\ worker' = [worker EXCEPT ![w] = NoDataset]
    /\ UNCHANGED <<queue, upload, lost>>

Dies ==
    /\ queue' = <<>>
    /\ worker' = [w \in Workers |-> NoDataset]
    /\ lost' = lost \cup {d \in Datasets :
                  Queued(d) \/ Held(d) \/ upload[d] \in {"created", "streaming"}}
    /\ upload' = [d \in Datasets |->
          IF upload[d] \in {"created", "streaming"} THEN "failed"
          ELSE upload[d]]

LEMMA PoolMoves ==
  ASSUME TypeOK, [Next]_vars
  PROVE  \/ Quiet
         \/ \E d \in Datasets : Submits(d)
         \/ \E w \in Workers : Skips(w) \/ Takes(w) \/ Releases(w)
         \/ Dies
<1> USE DEF poolVars, editVars
<1>1. ASSUME NEW d \in Datasets,
             \/ StartUpload(d) \/ OpenFile(d) \/ RejectMagic(d)
             \/ AbortUpload(d) \/ ImportFails(d)
      PROVE  Quiet
  <2>1. /\ upload[d] \in {"none", "created", "streaming"}
        /\ \E s \in {"created", "streaming", "failed"} :
              upload' = [upload EXCEPT ![d] = s]
        /\ UNCHANGED <<queue, worker, lost>>
    BY <1>1 DEF StartUpload, OpenFile, RejectMagic, AbortUpload, ImportFails
  <2> QED BY <2>1 DEF TypeOK, Quiet
<1>2. ASSUME NEW d \in Datasets, FinishUpload(d)
      PROVE  Submits(d)
  BY <1>2 DEF FinishUpload, Submit, Submits
<1>3. ASSUME NEW d \in Datasets, Delete(d) \/ DeleteFails(d) \/ Confirm(d)
      PROVE  Quiet
  BY <1>3 DEF Delete, DeleteFails, Confirm, Quiet
<1>4. CASE ConfirmBatch
  BY <1>4 DEF ConfirmBatch, Quiet
<1>5. ASSUME NEW w \in Workers, WorkerStep(w)
      PROVE  Skips(w) \/ Takes(w) \/ Releases(w)
  <2>1. CASE TakeAndSkip(w)
    BY <2>1 DEF TakeAndSkip, Release, Skips
  <2>2. CASE Take(w)
    BY <2>2 DEF Take, Takes
  <2>3. CASE ExtractOk(w)
    BY <2>3 DEF ExtractOk, Release, Releases
  <2>4. CASE ExtractFails(w)
    BY <2>4 DEF ExtractFails, Release, Releases
  <2>5. CASE ProcessRaises(w)
    BY <2>5 DEF ProcessRaises, Release, Releases
  <2> QED BY <1>5, <2>1, <2>2, <2>3, <2>4, <2>5 DEF WorkerStep
<1>6. ASSUME NEW e \in Editors, NEW d \in Datasets,
             DescribeStart(e, d) \/ PublishStart(e, d) \/ DiscloseStart(e, d)
      PROVE  Quiet
  BY <1>6 DEF DescribeStart, PublishStart, DiscloseStart, Quiet
<1>7. ASSUME NEW e \in Editors,
             DescribeEnd(e) \/ PublishEnd(e) \/ DiscloseEnd(e)
      PROVE  Quiet
  BY <1>7 DEF DescribeEnd, PublishEnd, DiscloseEnd, Quiet
<1>8. CASE CrashRestart
  BY <1>8 DEF CrashRestart, Dies
<1>9. CASE UNCHANGED vars
  BY <1>9 DEF vars, Quiet
<1> QED BY <1>1, <1>2, <1>3, <1>4, <1>5, <1>6, <1>7, <1>8, <1>9 DEF Next

LEMMA OwnerStep == TypeOK /\ OwnerInv /\ [Next]_vars => OwnerInv'
<1> SUFFICES ASSUME TypeOK, OwnerInv, [Next]_vars PROVE OwnerInv'
  OBVIOUS
<1>1. CASE Quiet
  BY <1>1 DEF Quiet, OwnerInv, SingleOwner, Queued, Held, TypeOK
<1>2. ASSUME NEW d \in Datasets, Submits(d)
      PROVE  OwnerInv'
  <2>1. \A x \in Datasets : Queued(x)' <=> Queued(x) \/ x = d
    BY <1>2, QueuedAfterSubmit DEF Submits
  <2>2. ~Queued(d) /\ ~Held(d) /\ d \notin lost
    BY <1>2 DEF Submits, OwnerInv
  <2>3. \A x \in Datasets : Held(x)' <=> Held(x)
    BY <1>2 DEF Submits, Held
  <2>4. \A i, j \in 1..Len(queue') : queue'[i] = queue'[j] => i = j
    <3>1. /\ Len(queue) \in Nat
          /\ Len(queue') = Len(queue) + 1
          /\ queue'[Len(queue) + 1] = d
          /\ \A i \in 1..Len(queue) : queue'[i] = queue[i]
      BY <1>2 DEF Submits, TypeOK
    <3>2. \A i \in 1..Len(queue) : queue[i] # d
      BY <2>2 DEF Queued
    <3>3. \A i, j \in 1..Len(queue) : queue[i] = queue[j] => i = j
      BY DEF OwnerInv, SingleOwner
    <3> QED BY <3>1, <3>2, <3>3
  <2>5. SingleOwner'
    BY <1>2, <2>1, <2>2, <2>3, <2>4 DEF Submits, OwnerInv, SingleOwner
  <2>6. \A x \in Datasets :
          /\ (Queued(x) \/ Held(x))' => upload'[x] = "accepted" /\ x \notin lost'
          /\ x \in lost' => upload'[x] \in {"accepted", "failed"}
    BY <1>2, <2>1, <2>2, <2>3 DEF Submits, OwnerInv, TypeOK
  <2> QED BY <2>5, <2>6 DEF OwnerInv
<1>3. ASSUME NEW w \in Workers, Skips(w)
      PROVE  OwnerInv'
  <2>1. /\ \A x \in Datasets : Queued(x)' <=> Queued(x) /\ x # Head(queue)
        /\ \A i, j \in 1..Len(queue') : queue'[i] = queue'[j] => i = j
    BY <1>3, QueuedAfterTake DEF Skips, OwnerInv
  <2>2. worker' = worker
    BY <1>3 DEF Skips, TypeOK
  <2>3. \A x \in Datasets : Held(x)' <=> Held(x)
    BY <2>2 DEF Held
  <2> QED BY <1>3, <2>1, <2>2, <2>3 DEF Skips, OwnerInv, SingleOwner
<1>4. ASSUME NEW w \in Workers, Takes(w)
      PROVE  OwnerInv'
  <2>1. /\ \A x \in Datasets : Queued(x)' <=> Queued(x) /\ x # Head(queue)
        /\ \A i, j \in 1..Len(queue') : queue'[i] = queue'[j] => i = j
        /\ Queued(Head(queue)) /\ Head(queue) \in Datasets
    BY <1>4, QueuedAfterTake, QueueHead DEF Takes, OwnerInv, TypeOK
  <2>2. ~Held(Head(queue))
    BY <2>1 DEF OwnerInv, SingleOwner
  <2>3. \A x \in Datasets : Held(x)' <=> Held(x) \/ x = Head(queue)
    BY <1>4, <2>1, DatasetAssumption DEF Takes, Held, TypeOK
  <2>4. \A u, v \in Workers :
           worker'[u] = worker'[v] /\ worker'[u] # NoDataset => u = v
    BY <1>4, <2>2 DEF Takes, Held, TypeOK, OwnerInv, SingleOwner
  <2> QED BY <1>4, <2>1, <2>3, <2>4 DEF Takes, OwnerInv, SingleOwner
<1>5. ASSUME NEW w \in Workers, Releases(w)
      PROVE  OwnerInv'
  <2>1. \A x \in Datasets : /\ Queued(x)' <=> Queued(x)
                            /\ Held(x)' => Held(x)
    BY <1>5, DatasetAssumption DEF Releases, Queued, Held, TypeOK
  <2>2. \A u, v \in Workers :
           worker'[u] = worker'[v] /\ worker'[u] # NoDataset => u = v
    BY <1>5 DEF Releases, TypeOK, OwnerInv, SingleOwner
  <2> QED BY <1>5, <2>1, <2>2 DEF Releases, OwnerInv, SingleOwner
<1>6. CASE Dies
  <2>1. \A x \in Datasets : ~Queued(x)' /\ ~Held(x)'
    BY <1>6, DatasetAssumption DEF Dies, Queued, Held
  <2>2. \A x \in Datasets : x \in lost' => upload'[x] \in {"accepted", "failed"}
    BY <1>6 DEF Dies, OwnerInv
  <2>3. SingleOwner'
    BY <1>6, <2>1 DEF Dies, SingleOwner
  <2> QED BY <2>1, <2>2, <2>3 DEF OwnerInv
<1> QED BY PoolMoves, <1>1, <1>2, <1>3, <1>4, <1>5, <1>6

LEMMA OwnerInit == Init => OwnerInv
  BY DatasetAssumption DEF Init, OwnerInv, SingleOwner, Queued, Held

\* No interleaving gives a dataset two places in the queue or two workers, or
\* lets it be queued and worked on (SingleOwner).
THEOREM OneOwner == Spec => []SingleOwner
<1>1. OwnerInv => SingleOwner
  BY DEF OwnerInv
<1> QED BY <1>1, TypeInit, TypeStep, OwnerInit, OwnerStep, PTL DEF Spec

\* A step of the queue and its workers is a step of the work pool.
LEMMA PoolStep == TypeOK /\ OwnerInv /\ [Next]_vars => [Pool!Next]_(Pool!poolVars)
<1> SUFFICES ASSUME TypeOK, OwnerInv, [Next]_vars
             PROVE  Pool!Next \/ UNCHANGED Pool!poolVars
  OBVIOUS
<1> DEFINE phase == [x \in Datasets |-> PhaseOf(x)]
<1>0. OwnerInv'
  BY OwnerStep
<1>1. CASE Quiet
  <2>1. \A x \in Datasets : /\ Queued(x)' <=> Queued(x)
                            /\ Held(x)' <=> Held(x)
    BY <1>1 DEF Quiet, Queued, Held
  <2>2. phase' = phase
    BY <1>1, <2>1 DEF Quiet, PhaseOf
  <2> QED BY <1>1, <2>2 DEF Quiet, Pool!poolVars
<1>2. ASSUME NEW d \in Datasets, Submits(d)
      PROVE  Pool!Submit(d)
  <2>1. \A x \in Datasets : /\ Queued(x)' <=> Queued(x) \/ x = d
                            /\ Held(x)' <=> Held(x)
    BY <1>2, QueuedAfterSubmit DEF Submits, Held
  <2>2. ~Queued(d) /\ ~Held(d) /\ upload[d] # "accepted"
    BY <1>2 DEF Submits, OwnerInv
  <2>3. phase[d] = "new"
    BY <2>2 DEF PhaseOf
  <2>4. phase' = [phase EXCEPT ![d] = "waiting"]
    BY <1>2, <2>1, <2>2 DEF Submits, PhaseOf, TypeOK
  <2> QED BY <1>2, <2>3, <2>4 DEF Submits, Pool!Submit
<1>3. ASSUME NEW w \in Workers, Skips(w)
      PROVE  Pool!Skip(Head(queue))
  <2>1. /\ Head(queue) \in Datasets
        /\ Queued(Head(queue))
        /\ \A x \in Datasets : Queued(x)' <=> Queued(x) /\ x # Head(queue)
    BY <1>3, QueueHead, QueuedAfterTake DEF Skips, OwnerInv, TypeOK
  <2>2. worker' = worker
    BY <1>3 DEF Skips, TypeOK
  <2>3. \A x \in Datasets : Held(x)' <=> Held(x)
    BY <2>2 DEF Held
  <2>4. /\ ~Held(Head(queue)) /\ upload[Head(queue)] = "accepted"
        /\ Head(queue) \notin lost
    BY <2>1 DEF OwnerInv, SingleOwner
  <2>5. phase[Head(queue)] = "waiting"
    BY <2>1 DEF PhaseOf
  <2>6. phase' = [phase EXCEPT ![Head(queue)] = "done"]
    BY <1>3, <2>1, <2>3, <2>4 DEF Skips, PhaseOf
  <2> QED BY <2>2, <2>5, <2>6 DEF Pool!Skip
<1>4. ASSUME NEW w \in Workers, Takes(w)
      PROVE  Pool!Begin(w, Head(queue))
  <2>1. /\ Head(queue) \in Datasets
        /\ Queued(Head(queue))
        /\ \A x \in Datasets : Queued(x)' <=> Queued(x) /\ x # Head(queue)
    BY <1>4, QueueHead, QueuedAfterTake DEF Takes, OwnerInv, TypeOK
  <2>2. \A x \in Datasets : Held(x)' <=> Held(x) \/ x = Head(queue)
    BY <1>4, <2>1, DatasetAssumption DEF Takes, Held, TypeOK
  <2>3. phase[Head(queue)] = "waiting"
    BY <2>1 DEF PhaseOf
  <2>4. phase' = [phase EXCEPT ![Head(queue)] = "active"]
    BY <1>4, <2>1, <2>2 DEF Takes, PhaseOf
  <2> QED BY <1>4, <2>3, <2>4 DEF Takes, Pool!Begin
<1>5. ASSUME NEW w \in Workers, Releases(w)
      PROVE  Pool!End(w, worker[w])
  <2> DEFINE d == worker[w]
  <2>1. d \in Datasets /\ Held(d)
    BY <1>5 DEF Releases, TypeOK, Held
  <2>2. \A x \in Datasets : Queued(x)' <=> Queued(x)
    BY <1>5 DEF Releases, Queued
  <2>3. \A v \in Workers : worker[v] = d => v = w
    BY <1>5 DEF Releases, OwnerInv, SingleOwner
  <2>4. \A x \in Datasets : Held(x)' <=> Held(x) /\ x # d
    BY <1>5, <2>1, <2>3, DatasetAssumption DEF Releases, Held, TypeOK
  <2>5. ~Queued(d) /\ upload[d] = "accepted" /\ d \notin lost
    BY <2>1 DEF OwnerInv, SingleOwner
  <2>6. phase[d] = "active"
    BY <2>1, <2>5 DEF PhaseOf
  <2>7. phase' = [phase EXCEPT ![d] = "done"]
    BY <1>5, <2>1, <2>2, <2>4, <2>5 DEF Releases, PhaseOf
  <2> QED BY <1>5, <2>1, <2>6, <2>7 DEF Releases, Pool!End
<1>6. CASE Dies
  <2>1. \A x \in Datasets : ~Queued(x)' /\ ~Held(x)'
    BY <1>6, DatasetAssumption DEF Dies, Queued, Held
  <2>2. ASSUME NEW x \in Datasets
        PROVE  PhaseOf(x)' = IF PhaseOf(x) \in {"waiting", "active"}
                             THEN "forgotten" ELSE PhaseOf(x)
    <3>1. CASE Queued(x) \/ Held(x)
      BY <1>6, <2>1, <3>1 DEF Dies, PhaseOf, OwnerInv, TypeOK
    <3>2. CASE ~Queued(x) /\ ~Held(x)
      BY <1>6, <2>1, <3>2 DEF Dies, PhaseOf, OwnerInv, TypeOK
    <3> QED BY <3>1, <3>2
  <2>3. phase' = [x \in Datasets |->
                     IF phase[x] \in {"waiting", "active"}
                     THEN "forgotten" ELSE phase[x]]
    BY <2>2
  <2>4. worker' = [w \in Workers |-> NoDataset]
    BY <1>6 DEF Dies
  <2>5. Pool!Forget
    BY <2>3, <2>4, Zenon DEF Pool!Forget
  <2> QED BY <2>5 DEF Pool!Next
<1>7. \A w \in Workers : Skips(w) \/ Takes(w) => Head(queue) \in Datasets
  BY QueueHead DEF Skips, Takes, TypeOK
<1>8. \A w \in Workers : Releases(w) => worker[w] \in Datasets
  BY DEF Releases, TypeOK
<1> QED BY PoolMoves, <1>1, <1>2, <1>3, <1>4, <1>5, <1>6, <1>7, <1>8
        DEF Pool!Next

\* The processing queue with its workers implements the work pool (KeepsPool).
THEOREM QueueIsPool == Spec => KeepsPool
<1>1. Init => Pool!Init
  <2> SUFFICES ASSUME Init PROVE Pool!Init
    OBVIOUS
  <2>1. \A x \in Datasets : PhaseOf(x) = "new"
    BY DatasetAssumption DEF Init, PhaseOf, Queued, Held
  <2>2. [x \in Datasets |-> PhaseOf(x)] = [x \in Datasets |-> "new"]
    BY <2>1
  <2>3. worker = [w \in Workers |-> NoDataset]
    BY DEF Init
  <2> QED BY <2>2, <2>3 DEF Pool!Init
<1> QED BY <1>1, TypeInit, TypeStep, OwnerInit, OwnerStep, PoolStep, PTL
        DEF Spec, KeepsPool, Pool!Spec

-----------------------------------------------------------------------------
(* What the status page shows *)

\* Only receiving the last byte, a worker and a crash touch the queue.
LEMMA PoolLeftAlone ==
  ASSUME [Next]_vars
  PROVE  \/ UNCHANGED poolVars
         \/ \E d \in Datasets : FinishUpload(d)
         \/ \E w \in Workers : WorkerStep(w)
         \/ CrashRestart
<1>1. ASSUME NEW d \in Datasets,
             \/ StartUpload(d) \/ OpenFile(d) \/ RejectMagic(d)
             \/ AbortUpload(d) \/ ImportFails(d)
             \/ Delete(d) \/ DeleteFails(d) \/ Confirm(d) \/ ConfirmBatch
      PROVE  UNCHANGED poolVars
  BY <1>1 DEF StartUpload, OpenFile, RejectMagic, AbortUpload, ImportFails,
     Delete, DeleteFails, Confirm, ConfirmBatch
<1>2. ASSUME NEW e \in Editors,
             \/ \E d \in Datasets :
                   DescribeStart(e, d) \/ PublishStart(e, d) \/ DiscloseStart(e, d)
             \/ DescribeEnd(e) \/ PublishEnd(e) \/ DiscloseEnd(e)
      PROVE  UNCHANGED poolVars
  BY <1>2 DEF DescribeStart, PublishStart, DiscloseStart, DescribeEnd,
     PublishEnd, DiscloseEnd
<1>3. ConfirmBatch \/ UNCHANGED vars => UNCHANGED poolVars
  BY DEF ConfirmBatch, vars
<1> QED BY <1>1, <1>2, <1>3 DEF Next

\* The finally clause takes the item, and no other, off the page.
LEMMA ReleasedIsCleared ==
  ASSUME TypeOK, NEW w \in Workers, NEW d \in Datasets, Release(w, d)
  PROVE  /\ progress'[d] = "none"
         /\ \A x \in Datasets \ {d} : progress'[x] = progress[x]
         /\ current' = NoDataset
         /\ worker' = [worker EXCEPT ![w] = NoDataset]
  BY DEF Release, TypeOK

LEMMA ProgressStep ==
  ASSUME TypeOK, OwnerInv, ProgressIsLive, [Next]_vars
  PROVE  ProgressIsLive'
<1> USE DatasetAssumption DEF ProgressIsLive
<1>1. CASE UNCHANGED poolVars
  BY <1>1 DEF poolVars, Queued, Held
<1>2. ASSUME NEW d \in Datasets, FinishUpload(d)
      PROVE  ProgressIsLive'
  <2>1. /\ \A x \in Datasets : /\ Queued(x)' <=> Queued(x) \/ x = d
                               /\ Held(x)' <=> Held(x)
        /\ current' = current
        /\ Held(current)' <=> Held(current)
    BY <1>2, QueuedAfterSubmit DEF FinishUpload, Submit, Held
  <2>2. ~Held(d)
    BY <1>2 DEF FinishUpload, OwnerInv
  <2>3. /\ progress'[d] = "queued"
        /\ \A x \in Datasets \ {d} : progress'[x] = progress[x]
    BY <1>2 DEF FinishUpload, Submit, TypeOK
  <2> QED BY <2>1, <2>2, <2>3
<1>3. ASSUME NEW w \in Workers, TakeAndSkip(w)
      PROVE  ProgressIsLive'
  <2> DEFINE d == Head(queue)
  <2>1. /\ d \in Datasets /\ Queued(d)
        /\ \A x \in Datasets : Queued(x)' <=> Queued(x) /\ x # d
    BY <1>3, QueueHead, QueuedAfterTake DEF TakeAndSkip, OwnerInv, TypeOK
  <2>2. Release(w, d) /\ worker[w] = NoDataset
    BY <1>3 DEF TakeAndSkip
  <2>3. /\ progress'[d] = "none"
        /\ \A x \in Datasets \ {d} : progress'[x] = progress[x]
        /\ current' = NoDataset
        /\ worker' = [worker EXCEPT ![w] = NoDataset]
    BY <2>1, <2>2, ReleasedIsCleared
  <2>4. worker' = worker
    BY <2>2, <2>3 DEF TypeOK
  <2>5. \A x \in Datasets : Held(x)' <=> Held(x)
    BY <2>4 DEF Held
  <2>6. ~Held(d)
    BY <2>1 DEF OwnerInv, SingleOwner
  <2> QED BY <2>1, <2>3, <2>5, <2>6
<1>4. ASSUME NEW w \in Workers, Take(w)
      PROVE  ProgressIsLive'
  <2> DEFINE d == Head(queue)
  <2>1. /\ d \in Datasets /\ Queued(d)
        /\ \A x \in Datasets : Queued(x)' <=> Queued(x) /\ x # d
    BY <1>4, QueueHead, QueuedAfterTake DEF Take, OwnerInv, TypeOK
  <2>2. \A x \in Datasets : Held(x)' <=> Held(x) \/ x = d
    BY <1>4, <2>1 DEF Take, Held, TypeOK
  <2>3. /\ progress'[d] = "extracting"
        /\ \A x \in Datasets \ {d} : progress'[x] = progress[x]
        /\ current' = d
    BY <1>4, <2>1 DEF Take, TypeOK
  <2> QED BY <2>1, <2>2, <2>3
<1>5. ASSUME NEW w \in Workers,
             ExtractOk(w) \/ ExtractFails(w) \/ ProcessRaises(w)
      PROVE  ProgressIsLive'
  <2> DEFINE d == worker[w]
  <2>1. d \in Datasets /\ Held(d)
    BY <1>5 DEF ExtractOk, ExtractFails, ProcessRaises, TypeOK, Held
  <2>2. Release(w, d) /\ queue' = queue
    BY <1>5 DEF ExtractOk, ExtractFails, ProcessRaises
  <2>3. /\ progress'[d] = "none"
        /\ \A x \in Datasets \ {d} : progress'[x] = progress[x]
        /\ current' = NoDataset
        /\ worker' = [worker EXCEPT ![w] = NoDataset]
    BY <2>1, <2>2, ReleasedIsCleared
  <2>4. \A v \in Workers : worker[v] = d => v = w
    BY <2>1 DEF OwnerInv, SingleOwner
  <2>5. \A x \in Datasets : Held(x)' <=> Held(x) /\ x # d
    BY <2>1, <2>3, <2>4 DEF Held, TypeOK
  <2>6. \A x \in Datasets : Queued(x)' <=> Queued(x)
    BY <2>2 DEF Queued
  <2>7. ~Queued(d)
    BY <2>1 DEF OwnerInv, SingleOwner
  <2> QED BY <2>1, <2>3, <2>5, <2>6, <2>7
<1>6. CASE CrashRestart
  <2>1. \A x \in Datasets : ~Queued(x)' /\ ~Held(x)'
    BY <1>6 DEF CrashRestart, Queued, Held
  <2>2. current' = NoDataset /\ \A x \in Datasets : progress'[x] = "none"
    BY <1>6 DEF CrashRestart
  <2> QED BY <2>1, <2>2
<1> QED BY PoolLeftAlone, <1>1, <1>2, <1>3, <1>4, <1>5, <1>6 DEF WorkerStep

\* For every number of workers sharing one _current, the status page shows
\* work that is under way and no other (ProgressIsLive).
THEOREM ProgressIsTrue == Spec => []ProgressIsLive
<1>1. Init => ProgressIsLive
  BY DatasetAssumption DEF Init, ProgressIsLive, Queued, Held
<1> QED BY <1>1, TypeInit, TypeStep, OwnerInit, OwnerStep, ProgressStep, PTL
        DEF Spec

-----------------------------------------------------------------------------
(* What becomes of a row, whatever requests write back old copies *)

\* A step of a request that reads a row, awaits and writes it back.
RequestStep(e) ==
    \/ \E d \in Datasets :
          DescribeStart(e, d) \/ PublishStart(e, d) \/ DiscloseStart(e, d)
    \/ DescribeEnd(e) \/ PublishEnd(e) \/ DiscloseEnd(e)

\* Such a step changes a row's status only by writing back an old copy, and
\* then as the request's last step.
LEMMA RequestKeepsStatus ==
  ASSUME TypeOK, NEW e \in Editors, RequestStep(e), NEW x \in Datasets
  PROVE  \/ row'[x].status = row[x].status
         \/ x \in overwritten' /\ EndsRequestOn(x)
<1> USE DEF TypeOK
<1>1. ASSUME NEW d \in Datasets, DescribeStart(e, d) \/ PublishStart(e, d)
      PROVE  row'[x].status = row[x].status
  BY <1>1 DEF DescribeStart, PublishStart
<1>2. ASSUME NEW d \in Datasets, DiscloseStart(e, d)
      PROVE  row'[x].status = row[x].status
  BY <1>2 DEF DiscloseStart, Save, Rows
<1>3. CASE PublishEnd(e)
  BY <1>3 DEF PublishEnd, Save, Rows
<1>4. CASE DescribeEnd(e) \/ DiscloseEnd(e)
  <2>1. /\ target[e] \in Datasets
        /\ editing[e] # "none" /\ editing'[e] = "none"
    BY <1>4 DEF DescribeEnd, DiscloseEnd, Return
  <2>2. \/ row' = row
        \/ \E r \in Rows : WriteBack(target[e], r)
    BY <1>4, EditedRow DEF DescribeEnd, DiscloseEnd
  <2>3. ASSUME NEW r \in Rows, WriteBack(target[e], r)
        PROVE  \/ row'[x].status = row[x].status
               \/ x = target[e] /\ x \in overwritten'
    BY <2>1, <2>3 DEF WriteBack, Save
  <2> QED BY <2>1, <2>2, <2>3 DEF EndsRequestOn
<1> QED BY <1>1, <1>2, <1>3, <1>4 DEF RequestStep

\* It touches neither the queue, the workers, the uploads nor the files, and
\* forgets no overwriting.
LEMMA RequestLeavesRest ==
  ASSUME NEW e \in Editors, RequestStep(e)
  PROVE  /\ UNCHANGED <<file, artifact, upload, poolVars, deleted, lost>>
         /\ overwritten \subseteq overwritten'
BY DEF RequestStep, DescribeStart, PublishStart, DiscloseStart, DescribeEnd,
   PublishEnd, DiscloseEnd, Await, WriteBack, editVars

\* No step forgets an overwriting.
LEMMA OverwritingIsKept == [Next]_vars => overwritten \subseteq overwritten'
BY RequestLeavesRest
   DEF Next, vars, editVars, RequestStep, WorkerStep, StartUpload, OpenFile,
   FinishUpload, RejectMagic, AbortUpload, ImportFails, Delete, DeleteFails,
   Confirm, ConfirmBatch, TakeAndSkip, Take, ExtractOk, ExtractFails,
   ProcessRaises, CrashRestart

LEMMA ForgottenStep ==
  ASSUME TypeOK, OwnerInv, NothingForgotten, [Next]_vars
  PROVE  NothingForgotten'
<1> USE DatasetAssumption DEF NothingForgotten, TypeOK, poolVars, editVars
<1>0. overwritten \subseteq overwritten'
  BY OverwritingIsKept
<1>1. ASSUME NEW d \in Datasets,
             \/ StartUpload(d) \/ OpenFile(d) \/ RejectMagic(d)
             \/ AbortUpload(d) \/ ImportFails(d)
      PROVE  NothingForgotten'
  <2>1. \A x \in Datasets : /\ Queued(x)' <=> Queued(x)
                            /\ Held(x)' <=> Held(x)
    BY <1>1 DEF StartUpload, OpenFile, RejectMagic, AbortUpload, ImportFails,
       Queued, Held
  <2>2. lost' = lost /\ \A x \in Datasets \ {d} :
                           row'[x] = row[x] /\ upload'[x] = upload[x]
    BY <1>1 DEF StartUpload, OpenFile, RejectMagic, AbortUpload, ImportFails,
       Save, RemoveDataset
  <2>3. \/ row'[d].status = "absent"
        \/ upload'[d] \in {"created", "streaming"} /\ row'[d].status = "uploaded"
        \/ upload'[d] = "streaming" /\ row'[d] = row[d]
        \/ d \in Imported /\ upload'[d] = "failed" /\ row'[d] = row[d]
    BY <1>1 DEF StartUpload, OpenFile, RejectMagic, AbortUpload, ImportFails,
       Save, RemoveDataset, Exists, Absent, NewRow
  <2> QED BY <1>0, <2>1, <2>2, <2>3
<1>2. ASSUME NEW d \in Datasets, FinishUpload(d)
      PROVE  NothingForgotten'
  <2>1. \A x \in Datasets : /\ Queued(x)' <=> Queued(x) \/ x = d
                            /\ Held(x)' <=> Held(x)
    BY <1>2, QueuedAfterSubmit DEF FinishUpload, Submit, Held
  <2>2. lost' = lost /\ \A x \in Datasets \ {d} :
                           row'[x] = row[x] /\ upload'[x] = upload[x]
    BY <1>2 DEF FinishUpload, Save
  <2>3. row'[d] = row[d] \/ row'[d].status = "uploaded"
    BY <1>2 DEF FinishUpload, Save, NewRow, Absent
  <2> QED BY <1>0, <2>1, <2>2, <2>3
<1>3. ASSUME NEW d \in Datasets, Delete(d) \/ DeleteFails(d) \/ Confirm(d)
      PROVE  NothingForgotten'
  <2>1. \A x \in Datasets : /\ Queued(x)' <=> Queued(x)
                            /\ Held(x)' <=> Held(x)
    BY <1>3 DEF Delete, DeleteFails, Confirm, Queued, Held
  <2>2. UNCHANGED <<lost, upload>> /\ \A x \in Datasets \ {d} : row'[x] = row[x]
    BY <1>3 DEF Delete, DeleteFails, Confirm, Save, RemoveDataset
  <2>3. row'[d].status \in {row[d].status, "absent", "cancelled"}
    BY <1>3 DEF Delete, DeleteFails, Confirm, Save, RemoveDataset, Absent, Rows
  <2> QED BY <1>0, <2>1, <2>2, <2>3
<1>4. CASE ConfirmBatch
  <2>1. \A x \in Datasets : /\ Queued(x)' <=> Queued(x)
                            /\ Held(x)' <=> Held(x)
    BY <1>4 DEF ConfirmBatch, Queued, Held
  <2>2. UNCHANGED <<lost, upload>>
        /\ \A x \in Datasets : row'[x].status = row[x].status
    BY <1>4 DEF ConfirmBatch, Rows
  <2> QED BY <1>0, <2>1, <2>2
<1>5. ASSUME NEW w \in Workers, TakeAndSkip(w) \/ Take(w)
      PROVE  NothingForgotten'
  <2>1. /\ Head(queue) \in Datasets
        /\ \A x \in Datasets : Queued(x)' <=> Queued(x) /\ x # Head(queue)
    BY <1>5, QueueHead, QueuedAfterTake DEF TakeAndSkip, Take, OwnerInv
  <2>2. \A x \in Datasets : Held(x) => Held(x)'
    BY <1>5, <2>1 DEF TakeAndSkip, Take, Release, Held
  <2>3. UNCHANGED <<lost, upload>>
        /\ \A x \in Datasets \ {Head(queue)} : row'[x] = row[x]
    BY <1>5, <2>1 DEF TakeAndSkip, Take, Save
  <2>4. CASE TakeAndSkip(w)
    <3>1. row'[Head(queue)].status \in {"absent", "error", "cancelled"}
      BY <2>1, <2>4 DEF TakeAndSkip, Save, Exists, Rows
    <3> QED BY <1>0, <2>1, <2>2, <2>3, <3>1
  <2>5. CASE Take(w)
    <3>1. \A x \in Datasets : x = Head(queue) => Held(x)'
      BY <2>1, <2>5 DEF Take, Held
    <3>2. row'[Head(queue)].status = "extracting"
      BY <2>1, <2>5 DEF Take, Save, Rows
    <3> QED BY <1>0, <2>1, <2>2, <2>3, <3>1, <3>2
  <2> QED BY <1>5, <2>4, <2>5
<1>6. ASSUME NEW w \in Workers,
             ExtractOk(w) \/ ExtractFails(w) \/ ProcessRaises(w)
      PROVE  NothingForgotten'
  <2>1. worker[w] \in Datasets
    BY <1>6 DEF ExtractOk, ExtractFails, ProcessRaises
  <2>2. /\ \A x \in Datasets : Queued(x)' <=> Queued(x)
        /\ \A x \in Datasets \ {worker[w]} : Held(x) => Held(x)'
    BY <1>6 DEF ExtractOk, ExtractFails, ProcessRaises, Release, Queued, Held
  <2>3. UNCHANGED <<lost, upload>>
        /\ \A x \in Datasets \ {worker[w]} : row'[x] = row[x]
    BY <1>6, <2>1 DEF ExtractOk, ExtractFails, ProcessRaises, Save
  <2>4. row'[worker[w]].status \in
            {"absent", "error", "preview_ready", "cancelled"}
    <3>1. ExtractOk(w) =>
             row'[worker[w]].status \in {"preview_ready", "cancelled"}
      BY <2>1, ExtractedRow DEF ExtractOk, Save, Rows
    <3>2. ExtractFails(w) => row'[worker[w]].status = "error"
      BY <2>1, ExtractedRow DEF ExtractFails, Save, Rows
    <3>3. ProcessRaises(w) =>
             row'[worker[w]].status \in
                 {"absent", "error", "preview_ready", "cancelled"}
      BY <2>1 DEF ProcessRaises, Save, Rows
    <3> QED BY <1>6, <3>1, <3>2, <3>3
  <2> QED BY <1>0, <2>1, <2>2, <2>3, <2>4
<1>7. CASE CrashRestart
  <2>1. ASSUME NEW x \in Datasets \ lost'
        PROVE  /\ x \notin lost /\ ~Queued(x) /\ ~Held(x)
               /\ upload[x] \notin {"created", "streaming"}
               /\ upload'[x] = upload[x] /\ row'[x] = row[x]
    BY <1>7 DEF CrashRestart
  <2> QED BY <1>0, <2>1
<1>8. ASSUME NEW e \in Editors, RequestStep(e)
      PROVE  NothingForgotten'
  <2>1. /\ UNCHANGED <<upload, queue, worker, lost>>
        /\ overwritten \subseteq overwritten'
    BY <1>8, RequestLeavesRest
  <2>2. \A x \in Datasets : row'[x].status = row[x].status \/ x \in overwritten'
    BY <1>8, RequestKeepsStatus
  <2>3. \A x \in Datasets : /\ Queued(x)' <=> Queued(x)
                            /\ Held(x)' <=> Held(x)
    BY <2>1 DEF Queued, Held
  <2> QED BY <1>0, <2>1, <2>2, <2>3
<1>9. CASE UNCHANGED vars
  BY <1>9 DEF vars, Queued, Held
<1> QED
  BY <1>1, <1>2, <1>3, <1>4, <1>5, <1>6, <1>7, <1>8, <1>9
     DEF Next, WorkerStep, RequestStep

\* With any number of requests writing back old copies: an unfinished dataset
\* is nobody's only after a crash, a failed import, or such a write-back that
\* changed its status (NothingForgotten).
THEOREM NothingIsForgotten == Spec => []NothingForgotten
<1>1. Init => NothingForgotten
  <2>1. Init => \A d \in Datasets : row[d] = Absent
    BY DEF Init
  <2>2. Absent.status = "absent"
    BY DEF Absent
  <2> QED BY <2>1, <2>2 DEF NothingForgotten
<1>2. TypeOK /\ OwnerInv /\ NothingForgotten /\ [Next]_vars => NothingForgotten'
  BY ForgottenStep
<1> QED BY <1>1, <1>2, TypeInit, TypeStep, OwnerInit, OwnerStep, PTL DEF Spec

LEMMA ReadyStep ==
  ASSUME TypeOK, ReadyHasArtifact, [Next]_vars
  PROVE  ReadyHasArtifact'
<1> USE DatasetAssumption DEF ReadyHasArtifact, TypeOK
<1>0. overwritten \subseteq overwritten'
  BY OverwritingIsKept
<1>1. ASSUME NEW d \in Datasets,
             \/ StartUpload(d) \/ OpenFile(d) \/ FinishUpload(d)
             \/ RejectMagic(d) \/ AbortUpload(d) \/ ImportFails(d)
             \/ Delete(d) \/ DeleteFails(d) \/ Confirm(d)
      PROVE  ReadyHasArtifact'
  <2>1. \A x \in Datasets \ {d} :
           row'[x] = row[x] /\ (x \in artifact => x \in artifact')
    BY <1>1 DEF StartUpload, OpenFile, FinishUpload, RejectMagic,
       AbortUpload, ImportFails, Delete, DeleteFails, Confirm, Save,
       RemoveDataset
  <2>2. \/ row'[d].status \in {"absent", "uploaded", "cancelled"}
        \/ row'[d].status = row[d].status /\ artifact' = artifact
    BY <1>1 DEF StartUpload, OpenFile, FinishUpload, RejectMagic,
       AbortUpload, ImportFails, Delete, DeleteFails, Confirm, Save,
       RemoveDataset, Absent, NewRow, Rows
  <2> QED BY <1>0, <2>1, <2>2
<1>2. CASE ConfirmBatch
  <2>1. artifact' = artifact
        /\ \A x \in Datasets : row'[x].status = row[x].status
    BY <1>2 DEF ConfirmBatch, Rows
  <2> QED BY <1>0, <2>1
<1>3. ASSUME NEW w \in Workers, TakeAndSkip(w) \/ Take(w)
      PROVE  ReadyHasArtifact'
  <2>1. /\ Head(queue) \in Datasets
        /\ artifact' = artifact
        /\ \A x \in Datasets \ {Head(queue)} : row'[x] = row[x]
    BY <1>3, QueueHead DEF TakeAndSkip, Take, Save
  <2>2. \/ row'[Head(queue)] = row[Head(queue)]
        \/ row'[Head(queue)].status \in {"error", "extracting"}
    BY <1>3, <2>1 DEF TakeAndSkip, Take, Save, Rows
  <2> QED BY <1>0, <2>1, <2>2
<1>4. ASSUME NEW w \in Workers,
             ExtractOk(w) \/ ExtractFails(w) \/ ProcessRaises(w)
      PROVE  ReadyHasArtifact'
  <2>1. worker[w] \in Datasets
    BY <1>4 DEF ExtractOk, ExtractFails, ProcessRaises
  <2>2. /\ artifact \subseteq artifact'
        /\ \A x \in Datasets \ {worker[w]} : row'[x] = row[x]
    BY <1>4, <2>1 DEF ExtractOk, ExtractFails, ProcessRaises, Save
  <2>3. worker[w] \in artifact' \/ row'[worker[w]].status = "error"
    BY <1>4, <2>1, ExtractedRow
       DEF ExtractOk, ExtractFails, ProcessRaises, Save, Rows
  <2> QED BY <1>0, <2>1, <2>2, <2>3
<1>5. ASSUME NEW e \in Editors, RequestStep(e)
      PROVE  ReadyHasArtifact'
  <2>1. artifact' = artifact /\ overwritten \subseteq overwritten'
    BY <1>5, RequestLeavesRest
  <2>2. \A x \in Datasets : row'[x].status = row[x].status \/ x \in overwritten'
    BY <1>5, RequestKeepsStatus
  <2> QED BY <1>0, <2>1, <2>2
<1>6. CASE CrashRestart \/ UNCHANGED vars
  BY <1>6 DEF CrashRestart, vars, editVars
<1> QED
  BY <1>1, <1>2, <1>3, <1>4, <1>5, <1>6 DEF Next, WorkerStep, RequestStep

\* With any number of requests writing back old copies: no order of
\* extraction, deletion, failed deletion and crash leaves a finished row
\* without its artifact, unless such a write-back changed its status
\* (ReadyHasArtifact).
THEOREM ReadyIsOnDisk == Spec => []ReadyHasArtifact
<1>1. Init => ReadyHasArtifact
  <2>1. Init => \A d \in Datasets : row[d] = Absent
    BY DEF Init
  <2>2. Absent.status = "absent"
    BY DEF Absent
  <2> QED BY <2>1, <2>2 DEF ReadyHasArtifact
<1>2. TypeOK /\ ReadyHasArtifact /\ [Next]_vars => ReadyHasArtifact'
  BY ReadyStep
<1> QED BY <1>1, <1>2, TypeInit, TypeStep, PTL DEF Spec

\* Nothing takes a cancelled dataset back but the last step of a request that
\* holds an old copy of it (CancelledStays).
THEOREM CancelledIsFinal == Spec => CancelledStays
<1> DEFINE Stays ==
      \A d \in Datasets :
         row[d].status = "cancelled" /\ row'[d] # row[d]
           => \/ row'[d].status \notin {"extracting", "preview_ready"}
              \/ EndsRequestOn(d)
<1>1. ASSUME TypeOK, OwnerInv, Next
      PROVE  Stays
  <2> USE <1>1, DatasetAssumption DEF TypeOK
  <2>1. ASSUME NEW d \in Datasets,
               \/ StartUpload(d) \/ OpenFile(d) \/ FinishUpload(d)
               \/ RejectMagic(d) \/ AbortUpload(d) \/ ImportFails(d)
               \/ Delete(d) \/ DeleteFails(d) \/ Confirm(d)
        PROVE  Stays
    <3>1. \A x \in Datasets \ {d} : row'[x] = row[x]
      BY <2>1 DEF StartUpload, OpenFile, FinishUpload, RejectMagic,
         AbortUpload, ImportFails, Delete, DeleteFails, Confirm, Save,
         RemoveDataset
    <3>2. row[d].status = "cancelled"
             => row'[d] = row[d] \/ row'[d].status \in {"absent", "uploaded"}
      BY <2>1 DEF StartUpload, OpenFile, FinishUpload, RejectMagic,
         AbortUpload, ImportFails, Delete, DeleteFails, Confirm, Save,
         RemoveDataset, Absent, NewRow
    <3> QED BY <3>1, <3>2
  <2>2. CASE ConfirmBatch
    BY <2>2 DEF ConfirmBatch
  <2>3. ASSUME NEW w \in Workers, WorkerStep(w)
        PROVE  Stays
    <3>1. CASE TakeAndSkip(w)
      BY <3>1, QueueHead DEF TakeAndSkip, Save, Rows
    <3>2. CASE Take(w)
      BY <3>2, QueueHead DEF Take, Save
    <3>3. CASE ExtractOk(w) \/ ExtractFails(w) \/ ProcessRaises(w)
      <4>1. worker[w] \in Datasets
        BY <3>3 DEF ExtractOk, ExtractFails, ProcessRaises
      <4>2. \A x \in Datasets \ {worker[w]} : row'[x] = row[x]
        BY <3>3, <4>1 DEF ExtractOk, ExtractFails, ProcessRaises, Save
      <4>3. ExtractOk(w) => \/ row[worker[w]].status # "cancelled"
                            \/ row'[worker[w]].status = "cancelled"
        BY <4>1, ExtractedRow DEF ExtractOk, Save, Rows
      <4>4. ExtractFails(w) => row'[worker[w]].status = "error"
        BY <4>1, ExtractedRow DEF ExtractFails, Save, Rows
      <4>5. ProcessRaises(w) => \/ row'[worker[w]] = row[worker[w]]
                                \/ row'[worker[w]].status = "error"
        BY <4>1 DEF ProcessRaises, Save, Rows
      <4> QED BY <3>3, <4>1, <4>2, <4>3, <4>4, <4>5
    <3> QED BY <2>3, <3>1, <3>2, <3>3 DEF WorkerStep
  <2>4. ASSUME NEW e \in Editors, RequestStep(e)
        PROVE  Stays
    BY <2>4, RequestKeepsStatus
  <2>5. CASE CrashRestart
    BY <2>5 DEF CrashRestart
  <2> QED BY <1>1, <2>1, <2>2, <2>3, <2>4, <2>5 DEF Next, RequestStep
<1>2. UNCHANGED vars => UNCHANGED row
  BY DEF vars
<1> QED BY <1>1, TypeInit, TypeStep, OwnerInit, OwnerStep, PTL
        DEF Spec, CancelledStays
=============================================================================
