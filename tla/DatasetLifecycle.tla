-------------------------- MODULE DatasetLifecycle --------------------------
(***************************************************************************)
(* A dataset from its upload to its deletion: the upload handlers, the     *)
(* processing queue with its workers, confirmation, the handlers that edit *)
(* a finished dataset, and deletion.  Handlers and workers run on one      *)
(* asyncio loop: an action is the code between two awaits.  Every handler  *)
(* that awaits holds a copy of the row it read and writes the whole copy   *)
(* back (processing_service._save_record), creating the row if it is gone. *)
(*                                                                         *)
(* Single-file datasets only: multi_file_datasets_enabled is off by        *)
(* default (app/config.py).                                                *)
(***************************************************************************)
EXTENDS Naturals, Sequences

CONSTANTS Datasets,   \* dataset ids; an id is never used for two uploads
          Imported,   \* those copied by the local import
          Batch,      \* those uploaded in the one batch the runs look at
          Workers,    \* tasks running ProcessingQueue.worker_loop
          Editors,    \* requests that read a row, await, and write it back
          NoDataset,
          MaxCrashes  \* bound: process deaths

ASSUME DatasetAssumption ==
    /\ Imported \subseteq Datasets
    /\ Batch \subseteq Datasets \ Imported
    /\ NoDataset \notin Datasets
    /\ MaxCrashes \in Nat

VARIABLES
    row,       \* the dataset_records table
    file,      \* datasets whose upload file is on disk
    artifact,  \* datasets whose processed file is on disk
    upload,    \* where the handler that receives the file stands
    queue,     \* ProcessingQueue._queue
    current,   \* ProcessingQueue._current
    progress,  \* ProcessingQueue._progress
    worker,    \* the dataset each worker is extracting
    copy,      \* the worker's copy of its row
    editing,   \* what each editor awaits
    target,    \* the dataset it edits
    memo,      \* its copy of the row
    overwritten, \* history: datasets whose status a request's old copy changed
    deleted,   \* history: datasets whose DELETE was answered with success
    lost,      \* history: unfinished datasets a crash took out of memory
    crashes    \* process deaths so far

poolVars == <<queue, current, progress, worker, copy>>
editVars == <<editing, target, memo, overwritten>>
vars == <<row, file, artifact, upload, poolVars, editVars, deleted, lost,
          crashes>>

Statuses == {"absent", "uploaded", "extracting", "preview_ready", "error",
             "cancelled"}

\* A row, abstracted to what the handlers tell apart; "absent" is no row.
\* described and disclosed are parts of metadata_json.
Rows == [status: Statuses, processed_path: BOOLEAN, confirmed: BOOLEAN,
         listing: BOOLEAN, described: BOOLEAN,
         disclosed: {"none", "pending", "complete"}]

Absent == [status |-> "absent", processed_path |-> FALSE, confirmed |-> FALSE,
           listing |-> FALSE, described |-> FALSE, disclosed |-> "none"]

NewRow == [Absent EXCEPT !.status = "uploaded"]

\* The extractors set processed_path and replace the metadata.
Extracted(r) == [r EXCEPT !.processed_path = TRUE, !.described = FALSE,
                          !.disclosed = "none"]

Exists(d) == row[d].status # "absent"

Queued(d) == \E i \in 1..Len(queue) : queue[i] = d

Held(d) == \E w \in Workers : worker[w] = d

\* _save_record: an upsert of every column.
Save(d, r) == row' = [row EXCEPT ![d] = r]

\* delete_dataset: the upload file, the artifact the row names, the row.
RemoveDataset(d) ==
    /\ Save(d, Absent)
    /\ file' = file \ {d}
    /\ artifact' = IF row[d].processed_path THEN artifact \ {d} ELSE artifact

-----------------------------------------------------------------------------
Init ==
    /\ row = [d \in Datasets |-> Absent]
    /\ file = {}
    /\ artifact = {}
    /\ upload = [d \in Datasets |-> "none"]
    /\ queue = <<>>
    /\ current = NoDataset
    /\ progress = [d \in Datasets |-> "none"]
    /\ worker = [w \in Workers |-> NoDataset]
    /\ copy = [w \in Workers |-> Absent]
    /\ editing = [e \in Editors |-> "none"]
    /\ target = [e \in Editors |-> NoDataset]
    /\ memo = [e \in Editors |-> Absent]
    /\ overwritten = {}
    /\ deleted = {}
    /\ lost = {}
    /\ crashes = 0

-----------------------------------------------------------------------------
(* Receiving a file: POST /upload, POST /batch and the local import *)

\* create_dataset.  The import opens its destination before its first await.
StartUpload(d) ==
    /\ upload[d] = "none"
    /\ Save(d, NewRow)
    /\ IF d \in Imported
       THEN /\ upload' = [upload EXCEPT ![d] = "streaming"]
            /\ file' = file \cup {d}
       ELSE /\ upload' = [upload EXCEPT ![d] = "created"]
            /\ UNCHANGED file
    /\ UNCHANGED <<artifact, poolVars, editVars, deleted, lost, crashes>>

OpenFile(d) ==
    /\ upload[d] = "created"
    /\ upload' = [upload EXCEPT ![d] = "streaming"]
    /\ file' = file \cup {d}
    /\ UNCHANGED <<row, artifact, poolVars, editVars, deleted, lost, crashes>>

\* ProcessingQueue.submit: the queue is unbounded, put never waits.
Submit(d) ==
    /\ queue' = Append(queue, d)
    /\ progress' = [progress EXCEPT ![d] = "queued"]
    /\ UNCHANGED <<current, worker, copy>>

\* The last byte is written: the upload handlers save the copy they have held
\* since create_dataset, the import saves nothing.
FinishUpload(d) ==
    /\ upload[d] = "streaming"
    /\ upload' = [upload EXCEPT ![d] = "accepted"]
    /\ IF d \in Imported THEN UNCHANGED row ELSE Save(d, NewRow)
    /\ Submit(d)
    /\ UNCHANGED <<file, artifact, editVars, deleted, lost, crashes>>

\* The first bytes do not fit the extension: saved, then deleted again.  The
\* batch checks them before it creates the row.
RejectMagic(d) ==
    /\ d \notin Imported \cup Batch
    /\ upload[d] = "streaming"
    /\ upload' = [upload EXCEPT ![d] = "failed"]
    /\ Save(d, Absent)
    /\ file' = file \ {d}
    /\ UNCHANGED <<artifact, poolVars, editVars, deleted, lost, crashes>>

\* The client is gone or a write failed.  Without a row delete_dataset leaves
\* the file; only the disconnect of a single upload unlinks it by itself.
AbortUpload(d) ==
    /\ d \notin Imported
    /\ upload[d] \in {"created", "streaming"}
    /\ upload' = [upload EXCEPT ![d] = "failed"]
    /\ IF Exists(d)
       THEN RemoveDataset(d)
       ELSE /\ file' \in {file} \cup IF d \in Batch THEN {} ELSE {file \ {d}}
            /\ UNCHANGED <<row, artifact>>
    /\ UNCHANGED <<poolVars, editVars, deleted, lost, crashes>>

\* The import notes the error in its job and leaves row and file.
ImportFails(d) ==
    /\ d \in Imported
    /\ upload[d] = "streaming"
    /\ upload' = [upload EXCEPT ![d] = "failed"]
    /\ UNCHANGED <<row, file, artifact, poolVars, editVars, deleted, lost,
                   crashes>>

-----------------------------------------------------------------------------
(* ProcessingQueue.worker_loop and ProcessingService.process_file *)

\* Mutant: the finally clause leaves _current alone.
ReleaseKeepsCurrent(w, d) ==
    /\ worker' = [worker EXCEPT ![w] = NoDataset]
    /\ copy' = [copy EXCEPT ![w] = Absent]
    /\ progress' = [progress EXCEPT ![d] = "none"]
    /\ UNCHANGED current

\* The finally clause of worker_loop; _current is shared by the workers.
Release(w, d) ==
    /\ worker' = [worker EXCEPT ![w] = NoDataset]
    /\ copy' = [copy EXCEPT ![w] = Absent]
    /\ progress' = [progress EXCEPT ![d] = "none"]
    /\ current' = NoDataset

\* Mutant: the exception for a missing row keeps the worker at its item.
TakeAndSkipNoNet(w) ==
    /\ worker[w] = NoDataset
    /\ queue # <<>>
    /\ LET d == Head(queue) IN
       /\ Exists(d)
       /\ \/ d \notin file /\ Save(d, [row[d] EXCEPT !.status = "error"])
          \/ d \in file /\ row[d].status = "cancelled" /\ UNCHANGED row
       /\ queue' = Tail(queue)
       /\ Release(w, d)
    /\ UNCHANGED <<file, artifact, upload, editVars, deleted, lost, crashes>>

\* Next item, and process_file returns before it awaits: no row (the
\* ValueError finds no row to mark), no file, or cancelled.
TakeAndSkip(w) ==
    /\ worker[w] = NoDataset
    /\ queue # <<>>
    /\ LET d == Head(queue) IN
       /\ \/ ~Exists(d) /\ UNCHANGED row
          \/ /\ Exists(d)
             /\ d \notin file
             /\ Save(d, [row[d] EXCEPT !.status = "error"])
          \/ /\ d \in file
             /\ row[d].status = "cancelled"
             /\ UNCHANGED row
       /\ queue' = Tail(queue)
       /\ Release(w, d)
    /\ UNCHANGED <<file, artifact, upload, editVars, deleted, lost, crashes>>

\* Mutant: the item leaves the queue only when it is done.
TakePeeks(w) ==
    /\ worker[w] = NoDataset
    /\ queue # <<>>
    /\ LET d == Head(queue)
           r == [row[d] EXCEPT !.status = "extracting"]
       IN /\ Exists(d) /\ d \in file /\ row[d].status # "cancelled"
          /\ Save(d, r)
          /\ current' = d
          /\ progress' = [progress EXCEPT ![d] = "extracting"]
          /\ worker' = [worker EXCEPT ![w] = d]
          /\ copy' = [copy EXCEPT ![w] = r]
    /\ UNCHANGED <<file, artifact, upload, queue, editVars, deleted, lost,
                   crashes>>

\* Next item up to the await of the extraction thread.
Take(w) ==
    /\ worker[w] = NoDataset
    /\ queue # <<>>
    /\ LET d == Head(queue)
           r == [row[d] EXCEPT !.status = "extracting"]
       IN /\ Exists(d)
          /\ d \in file
          /\ row[d].status # "cancelled"
          /\ Save(d, r)
          /\ queue' = Tail(queue)
          /\ current' = d
          /\ progress' = [progress EXCEPT ![d] = "extracting"]
          /\ worker' = [worker EXCEPT ![w] = d]
          /\ copy' = [copy EXCEPT ![w] = r]
    /\ UNCHANGED <<file, artifact, upload, editVars, deleted, lost, crashes>>

\* Mutant: no cancellation check before the last save.
ExtractOkBlind(w) ==
    /\ worker[w] # NoDataset
    /\ LET d == worker[w] IN
       /\ Save(d, [Extracted(copy[w]) EXCEPT !.status = "preview_ready"])
       /\ artifact' = artifact \cup {d}
       /\ Release(w, d)
    /\ UNCHANGED <<file, upload, queue, editVars, deleted, lost, crashes>>

\* The extraction thread is done and the worker saves its copy, as cancelled
\* if the row says so at that moment and as preview_ready otherwise.
ExtractOk(w) ==
    /\ worker[w] # NoDataset
    /\ LET d == worker[w] IN
       /\ Save(d, [Extracted(copy[w]) EXCEPT !.status =
                      IF row[d].status = "cancelled" THEN "cancelled"
                      ELSE "preview_ready"])
       /\ artifact' = artifact \cup {d}
       /\ Release(w, d)
    /\ UNCHANGED <<file, upload, queue, editVars, deleted, lost, crashes>>

\* Mutant: the early return for a failed extraction is missing.
ExtractFailsReady(w) ==
    /\ worker[w] # NoDataset
    /\ LET d == worker[w] IN
       /\ Save(d, [copy[w] EXCEPT !.status = "preview_ready"])
       /\ Release(w, d)
    /\ UNCHANGED <<file, artifact, upload, queue, editVars, deleted, lost,
                   crashes>>

\* Mutant: a failed extraction goes back to the queue.
ExtractFailsRetries(w) ==
    /\ worker[w] # NoDataset
    /\ LET d == worker[w] IN
       /\ queue' = Append(queue, d)
       /\ Release(w, d)
    /\ UNCHANGED <<row, file, artifact, upload, editVars, deleted, lost,
                   crashes>>

\* The extractor raised, before or after it had written the artifact.
ExtractFails(w) ==
    /\ worker[w] # NoDataset
    /\ LET d == worker[w] IN
       /\ \/ /\ Save(d, [copy[w] EXCEPT !.status = "error"])
             /\ UNCHANGED artifact
          \/ /\ Save(d, [Extracted(copy[w]) EXCEPT !.status = "error"])
             /\ artifact' = artifact \cup {d}
       /\ Release(w, d)
    /\ UNCHANGED <<file, upload, queue, editVars, deleted, lost, crashes>>

\* Mutant: no _ensure_error_status.
ProcessRaisesUnmarked(w) ==
    /\ worker[w] # NoDataset
    /\ artifact' = artifact \cup {worker[w]}
    /\ Release(w, worker[w])
    /\ UNCHANGED <<row, file, upload, queue, editVars, deleted, lost, crashes>>

\* process_file itself raised (its last save, say) after the extraction:
\* worker_loop marks the row as it is now, unless it is in a terminal state.
ProcessRaises(w) ==
    /\ worker[w] # NoDataset
    /\ LET d == worker[w] IN
       /\ IF row[d].status \in {"absent", "error", "preview_ready", "cancelled"}
          THEN UNCHANGED row
          ELSE Save(d, [row[d] EXCEPT !.status = "error"])
       /\ artifact' = artifact \cup {d}
       /\ Release(w, d)
    /\ UNCHANGED <<file, upload, queue, editVars, deleted, lost, crashes>>

-----------------------------------------------------------------------------
(* Deletion and confirmation *)

\* The early states go through "cancelled"; nothing awaits before the row is
\* gone, so no other task ever sees it.
Delete(d) ==
    /\ Exists(d)
    /\ RemoveDataset(d)
    /\ deleted' = deleted \cup {d}
    /\ UNCHANGED <<upload, poolVars, editVars, lost, crashes>>

\* An unlink raises: the answer is an error, the row stays, cancelled unless
\* it was in error.  The upload file goes before the artifact.
DeleteFails(d) ==
    /\ Exists(d)
    /\ \/ d \in file /\ UNCHANGED file
       \/ /\ d \in artifact
          /\ row[d].processed_path
          /\ file' = file \ {d}
    /\ IF row[d].status \in {"uploaded", "extracting", "preview_ready"}
       THEN Save(d, [row[d] EXCEPT !.status = "cancelled"])
       ELSE UNCHANGED row
    /\ UNCHANGED <<artifact, upload, poolVars, editVars, deleted, lost,
                   crashes>>

Confirm(d) ==
    /\ row[d].status = "preview_ready"
    /\ Save(d, [row[d] EXCEPT !.confirmed = TRUE])
    /\ UNCHANGED <<file, artifact, upload, poolVars, editVars, deleted, lost,
                   crashes>>

\* One transaction over the rows of the batch.
ConfirmBatch ==
    /\ \E d \in Batch : Exists(d)
    /\ row' = [d \in Datasets |->
          IF /\ d \in Batch
             /\ row[d].status \in {"uploaded", "extracting", "preview_ready"}
          THEN [row[d] EXCEPT !.confirmed = TRUE]
          ELSE row[d]]
    /\ UNCHANGED <<file, artifact, upload, poolVars, editVars, deleted, lost,
                   crashes>>

-----------------------------------------------------------------------------
(* Requests that await between reading and writing a row *)

Await(e, op, d, r) ==
    /\ editing[e] = "none"
    /\ editing' = [editing EXCEPT ![e] = op]
    /\ target' = [target EXCEPT ![e] = d]
    /\ memo' = [memo EXCEPT ![e] = r]
    /\ UNCHANGED overwritten

\* Mutant: the request forgets its target and goes on.
ReturnHalfway(e) ==
    /\ UNCHANGED editing
    /\ target' = [target EXCEPT ![e] = NoDataset]
    /\ memo' = [memo EXCEPT ![e] = Absent]

Return(e) ==
    /\ editing' = [editing EXCEPT ![e] = "none"]
    /\ target' = [target EXCEPT ![e] = NoDataset]
    /\ memo' = [memo EXCEPT ![e] = Absent]

\* Save a copy of the row as it was before an await.
WriteBack(d, r) ==
    /\ Save(d, r)
    /\ overwritten' = IF r.status = row[d].status THEN overwritten
                      ELSE overwritten \cup {d}

\* POST /{id}/listing-metadata, to the await of the text provider.
DescribeStart(e, d) ==
    /\ row[d].status = "preview_ready"
    /\ Await(e, "describe", d, row[d])
    /\ UNCHANGED <<row, file, artifact, upload, poolVars, deleted, lost,
                   crashes>>

\* The text arrives and the whole copy is written, or the provider failed.
DescribeEnd(e) ==
    /\ editing[e] = "describe"
    /\ \/ WriteBack(target[e], [memo[e] EXCEPT !.described = TRUE])
       \/ UNCHANGED <<row, overwritten>>
    /\ Return(e)
    /\ UNCHANGED <<file, artifact, upload, poolVars, deleted, lost, crashes>>

\* POST /{id}/publish, to the await of the marketplace.
PublishStart(e, d) ==
    /\ row[d].status = "preview_ready"
    /\ Await(e, "publish", d, row[d])
    /\ UNCHANGED <<row, file, artifact, upload, poolVars, deleted, lost,
                   crashes>>

\* Accepted: only listing_id is written, and only to a row that still exists.
PublishEnd(e) ==
    /\ editing[e] = "publish"
    /\ \/ /\ Exists(target[e])
          /\ Save(target[e], [row[target[e]] EXCEPT !.listing = TRUE])
       \/ UNCHANGED row
    /\ Return(e)
    /\ UNCHANGED <<file, artifact, upload, poolVars, overwritten, deleted, lost,
                   crashes>>

\* POST /disclosure-snapshots: the decision and the listing id are saved; with
\* seller credentials the marketplace is asked, without the request ends here.
DiscloseStart(e, d) ==
    LET r == [row[d] EXCEPT !.disclosed = "pending", !.listing = TRUE] IN
    /\ Exists(d)
    /\ Save(d, r)
    /\ \/ Await(e, "disclose", d, r)
       \/ editing[e] = "none" /\ UNCHANGED editVars
    /\ UNCHANGED <<file, artifact, upload, poolVars, deleted, lost, crashes>>

\* Whatever the answer, the copy is written back.
DiscloseEnd(e) ==
    /\ editing[e] = "disclose"
    /\ \E answer \in {"pending", "complete"} :
          WriteBack(target[e], [memo[e] EXCEPT !.disclosed = answer])
    /\ Return(e)
    /\ UNCHANGED <<file, artifact, upload, poolVars, deleted, lost, crashes>>

-----------------------------------------------------------------------------
\* The process dies, or shuts down, and comes back: rows and files are kept,
\* the queue and every task are gone, and nothing is submitted again.
CrashRestart ==
    /\ crashes < MaxCrashes
    /\ crashes' = crashes + 1
    /\ lost' = lost \cup {d \in Datasets :
                  Queued(d) \/ Held(d) \/ upload[d] \in {"created", "streaming"}}
    /\ upload' = [d \in Datasets |->
          IF upload[d] \in {"created", "streaming"} THEN "failed"
          ELSE upload[d]]
    /\ queue' = <<>>
    /\ current' = NoDataset
    /\ progress' = [d \in Datasets |-> "none"]
    /\ worker' = [w \in Workers |-> NoDataset]
    /\ copy' = [w \in Workers |-> Absent]
    /\ editing' = [e \in Editors |-> "none"]
    /\ target' = [e \in Editors |-> NoDataset]
    /\ memo' = [e \in Editors |-> Absent]
    /\ UNCHANGED <<row, file, artifact, overwritten, deleted>>

WorkerStep(w) ==
    TakeAndSkip(w) \/ Take(w) \/ ExtractOk(w) \/ ExtractFails(w)
        \/ ProcessRaises(w)

Next ==
    \/ \E d \in Datasets :
          \/ StartUpload(d) \/ OpenFile(d) \/ FinishUpload(d)
          \/ RejectMagic(d) \/ AbortUpload(d) \/ ImportFails(d)
          \/ Delete(d) \/ DeleteFails(d) \/ Confirm(d)
    \/ ConfirmBatch
    \/ \E w \in Workers : WorkerStep(w)
    \/ \E e \in Editors :
          \/ \E d \in Datasets :
                DescribeStart(e, d) \/ PublishStart(e, d) \/ DiscloseStart(e, d)
          \/ DescribeEnd(e) \/ PublishEnd(e) \/ DiscloseEnd(e)
    \/ CrashRestart

Spec == Init /\ [][Next]_vars

\* The loop runs every worker that can run, and every extraction thread ends.
FairSpec == Spec /\ \A w \in Workers : WF_vars(WorkerStep(w))

-----------------------------------------------------------------------------
\* Types: the process writes only rows, states and positions that exist.
TypeOK ==
    /\ row \in [Datasets -> Rows]
    /\ file \subseteq Datasets
    /\ artifact \subseteq Datasets
    /\ upload \in [Datasets -> {"none", "created", "streaming", "accepted",
                                "failed"}]
    /\ queue \in Seq(Datasets)
    /\ current \in Datasets \cup {NoDataset}
    /\ progress \in [Datasets -> {"none", "queued", "extracting"}]
    /\ worker \in [Workers -> Datasets \cup {NoDataset}]
    /\ copy \in [Workers -> Rows]
    /\ editing \in [Editors -> {"none", "describe", "publish", "disclose"}]
    /\ target \in [Editors -> Datasets \cup {NoDataset}]
    /\ memo \in [Editors -> Rows]
    /\ \A e \in Editors : editing[e] # "none" => target[e] \in Datasets
    /\ overwritten \subseteq Datasets
    /\ deleted \subseteq Datasets
    /\ lost \subseteq Datasets
    /\ crashes \in 0..MaxCrashes

\* A dataset is at most once in the queue, in the hands of at most one worker,
\* and never in both places (submit, worker_loop): two extractions of one
\* dataset would write the same artifact.
SingleOwner ==
    /\ \A i, j \in 1..Len(queue) : queue[i] = queue[j] => i = j
    /\ \A v, w \in Workers :
          worker[v] = worker[w] /\ worker[v] # NoDataset => v = w
    /\ \A d \in Datasets : ~(Queued(d) /\ Held(d))

\* While the process lives an unfinished row is somebody's business: an
\* uploaded one is being received or queued, an extracting one is in a
\* worker's hands, whatever process_file raises (_ensure_error_status).  The
\* exceptions are a crash, a failed import, and a status that a request wrote
\* back from before its await.
NothingForgotten ==
    \A d \in Datasets \ (lost \cup overwritten) :
        /\ row[d].status = "uploaded" =>
              \/ upload[d] \in {"created", "streaming"}
              \/ Queued(d)
              \/ d \in Imported /\ upload[d] = "failed"
        /\ row[d].status = "extracting" => Held(d)

\* The status page never shows progress of a dataset nobody works on, nor
\* names one as current that no worker holds (clear_progress, _current).
ProgressIsLive ==
    /\ \A d \in Datasets :
          /\ progress[d] = "queued" <=> Queued(d)
          /\ progress[d] = "extracting" <=> Held(d)
    /\ current # NoDataset => Held(current)

\* A finished dataset has its artifact on disk: no order of extraction, failed
\* deletion and deletion leaves a preview_ready row without one, unless a
\* request wrote that status back from before its await.
ReadyHasArtifact ==
    \A d \in Datasets \ overwritten :
        row[d].status = "preview_ready" => d \in artifact

\* A request ends that has held a copy of d's row across its await.
EndsRequestOn(d) ==
    \E e \in Editors : /\ editing[e] # "none" /\ editing'[e] = "none"
                       /\ target[e] = d

\* Processing never takes a cancelled dataset back: not the item a worker
\* takes, not the save after the extraction, not the error path
\* (_is_cancelled).  Only a request that ends can, by the copy it held.
CancelledStays ==
    [][\A d \in Datasets :
          row[d].status = "cancelled" /\ row'[d] # row[d]
              => \/ row'[d].status \notin {"extracting", "preview_ready"}
                 \/ EndsRequestOn(d)]_vars

\* Where a dataset stands in the pool its queue and its workers are.
PhaseOf(d) ==
    IF Queued(d) THEN "waiting"
    ELSE IF Held(d) THEN "active"
    ELSE IF upload[d] # "accepted" THEN "new"
    ELSE IF d \in lost THEN "forgotten" ELSE "done"

Pool == INSTANCE WorkPool WITH
    phase <- [d \in Datasets |-> PhaseOf(d)],
    hands <- worker

\* The queue and its workers are a work pool: a dataset is submitted once, is
\* in one pair of hands, and never goes round twice (ProcessingQueue).
KeepsPool == Pool!Spec

\* One bad file never stops the queue (worker_loop's docstring): whatever is
\* queued is finished, failed, cancelled or deleted in the end, or forgotten
\* by a crash.
QueueDrains ==
    \A d \in Datasets :
        Queued(d) ~> /\ ~Queued(d) /\ ~Held(d)
                     /\ row[d].status \in {"uploaded", "extracting"}
                           => d \in lost

-----------------------------------------------------------------------------
(* What comments and docs say of the program, and the code does not do *)

\* Processing does not bring back a dataset whose DELETE was answered with
\* success: its "background tasks abort" (routers/datasets.py, delete_dataset).
DeletedStaysDeleted ==
    [][\A d \in deleted :
          ~Exists(d) /\ upload' = upload /\ editing' = editing
              => row'[d] = row[d]]_vars
=============================================================================
