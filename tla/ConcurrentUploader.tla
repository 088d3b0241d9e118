------------------------- MODULE ConcurrentUploader -------------------------
(***************************************************************************)
(* ConcurrentUploader.upload (boto/glacier/concurrent.py): the pool of     *)
(* ConcurrentTransferer between the start and the end of a Glacier         *)
(* multipart upload.  An API call that raises may still have taken effect. *)
(***************************************************************************)
EXTENDS ConcurrentTransferer

VARIABLES upload,   \* the multipart upload at the service
          stored    \* the parts the service has stored

uploadVars == <<upload, stored>>

uploaderVars == <<transferVars, uploadVars>>

UploaderInit ==
    /\ TransferInit
    /\ upload = "none"
    /\ stored = {}

\* initiate_multipart_upload, then _add_work_items_to_queue.
StartUpload ==
    /\ AddWorkItems
    /\ upload' = "open"
    /\ UNCHANGED stored

\* initiate_multipart_upload raises.
InitiateFails ==
    /\ main = "start"
    /\ upload' \in {"none", "open"}
    /\ EndCall("raised")
    /\ UNCHANGED stored

\* The constructor of a worker raises: it opens the file.
UploadSpawnFails ==
    /\ main = "spawn"
    /\ EndCall("raised")
    /\ UNCHANGED uploadVars

\* The except branch of upload: abort_multipart_upload, which may itself
\* raise, and the UploadArchiveError is raised again.
AbortUpload ==
    /\ main = "joined"
    /\ failed
    /\ upload' \in {"open", "aborted"}
    /\ EndCall("raised")
    /\ UNCHANGED stored

\* complete_multipart_upload; the tree hash of no parts at all is an
\* IndexError before the call (glacier/utils.py:108).
CompleteUpload ==
    /\ main = "joined"
    /\ ~failed
    /\ \/ /\ TotalParts > 0
          /\ upload' = "completed"
          /\ \E how \in {"returned", "raised"} : EndCall(how)
       \/ UNCHANGED upload /\ EndCall("raised")
    /\ UNCHANGED stored

MainProceeds ==
    \/ AllReceived \/ TakeResult \/ JoinThreads
    \/ \E w \in Worker : SpawnThread(w) \/ StopThread(w)

\* _upload_chunk
UploadPart(w) ==
    /\ ChunkDone(w)
    /\ stored' = stored \cup {work[w]}
    /\ UNCHANGED upload

UploadPartFails(w) ==
    /\ ChunkFails(w)
    /\ stored' \in {stored, stored \cup {work[w]}}
    /\ UNCHANGED upload

MainStepUpload ==
    \/ StartUpload \/ InitiateFails \/ UploadSpawnFails
    \/ AbortUpload \/ CompleteUpload
    \/ MainProceeds /\ UNCHANGED uploadVars

WorkerStepUpload(w) ==
    \/ UploadPart(w)
    \/ UploadPartFails(w)
    \/ (CheckContinue(w) \/ GetWork(w) \/ PutResult(w)) /\ UNCHANGED uploadVars

UploaderNext == MainStepUpload \/ \E w \in Worker : WorkerStepUpload(w)

\* Weak fairness of main and of every worker: running threads, and API calls
\* that end, with an exception if need be.
UploaderSpec ==
    /\ UploaderInit /\ [][UploaderNext]_uploaderVars
    /\ WF_uploaderVars(MainStepUpload)
    /\ \A w \in Worker : WF_uploaderVars(WorkerStepUpload(w))

-----------------------------------------------------------------------------
(* Properties.                                                             *)

\* When main is about to complete an upload the service holds every part,
\* and every slot of the tree hash is filled (concurrent.py:145-156).
CompletesWholeArchive ==
    upload # "none" /\ main = "joined" /\ ~failed => stored = Part /\ hash_chunks = Part

\* No worker sends a part of an upload that has been completed or aborted,
\* as main joins the threads first (concurrent.py:60-66, 148-156).
NoPartAfterEnd == \A w \in Worker : wpc[w] = "chunk" => upload = "open"

\* The upload at the service follows the protocol: parts only while it is
\* open, completed only when whole, ended once (concurrent.py:134-158).
Protocol == INSTANCE MultipartUpload WITH Part <- Part, upload <- upload, stored <- stored
ImplementsProtocol == Protocol!UploadSpec
=============================================================================
