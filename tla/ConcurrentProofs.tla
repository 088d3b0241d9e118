--------------------------- MODULE ConcurrentProofs ---------------------------
(***************************************************************************)
(* The concurrent upload and the concurrent download of the Glacier layer  *)
(* are the thread pool with an upload or a file beside it, so the          *)
(* invariant of the pool holds of both; the upload implements the          *)
(* multipart protocol, and what a download returns is the archive, for any *)
(* number of workers, parts and attempts.                                  *)
(***************************************************************************)
EXTENDS ConcurrentUploader, ConcurrentDownloader, ConcurrentTransfererProofs

-----------------------------------------------------------------------------
(* The upload.                                                             *)

\* Where the upload stands, from where main is and whether workers run.
UploadStatus ==
    /\ upload \in {"none", "open", "completed", "aborted"}
    /\ main = "start" => upload = "none"
    /\ main \in {"spawn", "wait", "stop", "join", "joined"} => upload = "open"
    /\ (\E w \in Worker : wpc[w] \notin {"new", "exited"}) => upload = "open"

\* A part that counts as done, anywhere on its way to main, is at the service.
DoneIsStored ==
    /\ stored \subseteq Part
    /\ hash_chunks \subseteq stored
    /\ \A n \in 1..Len(result_queue) : result_queue[n].ok => result_queue[n].part \in stored
    /\ \A w \in Worker : wpc[w] = "put_ok" => work[w] \in stored

UInv == IInv /\ UploadStatus /\ DoneIsStored

LEMMA UploadIsTransfer ==
    ASSUME UploaderNext
    PROVE  [TransferNext]_transferVars
<1>1. CASE MainStepUpload
  BY <1>1 DEF MainStepUpload, StartUpload, InitiateFails, UploadSpawnFails, AbortUpload,
              CompleteUpload, MainProceeds, TransferNext, MainStep
<1>2. ASSUME NEW w \in Worker, WorkerStepUpload(w)
      PROVE  TransferNext
  BY <1>2 DEF WorkerStepUpload, UploadPart, UploadPartFails, TransferNext, WorkerStep
<1>3. QED
  BY <1>1, <1>2 DEF UploaderNext

\* The steps of a worker that is busy happen while the upload is open.
LEMMA BusyMeansOpen ==
    ASSUME UInv, NEW w \in Worker, wpc[w] \notin {"new", "exited"}
    PROVE  upload = "open"
BY DEF UInv, UploadStatus

LEMMA StatusHolds ==
    ASSUME UInv, UploaderNext
    PROVE  UploadStatus'
<1> USE DEF UInv, uploadVars
<1>1. CASE StartUpload
  BY <1>1 DEF StartUpload, AddWorkItems, UploadStatus, workerVars
<1>2. CASE InitiateFails
  BY <1>2 DEF InitiateFails, EndCall, UploadStatus, IInv, NotStarted, workerVars
<1>3. CASE UploadSpawnFails
  BY <1>3 DEF UploadSpawnFails, EndCall, UploadStatus, workerVars
<1>4. CASE AbortUpload \/ CompleteUpload
  BY <1>4 DEF AbortUpload, CompleteUpload, EndCall, UploadStatus,
              IInv, QuietAfterJoin, workerVars
<1>5. CASE (AllReceived \/ TakeResult \/ JoinThreads) /\ UNCHANGED uploadVars
  BY <1>5 DEF AllReceived, TakeResult, JoinThreads, UploadStatus, workerVars
<1>6. ASSUME NEW w \in Worker, SpawnThread(w) \/ StopThread(w), UNCHANGED uploadVars
      PROVE  UploadStatus'
  BY <1>6 DEF SpawnThread, StopThread, UploadStatus, workerVars
<1>7. ASSUME NEW w \in Worker, WorkerStepUpload(w)
      PROVE  UploadStatus'
  <2>1. upload = "open" /\ upload' = upload /\ main' = main
    BY <1>7, BusyMeansOpen DEF WorkerStepUpload, UploadPart, UploadPartFails,
       ChunkDone, ChunkFails, CheckContinue, GetWork, PutResult, mainVars
  <2>2. QED
    BY <2>1 DEF UploadStatus
<1>8. QED
  BY <1>1, <1>2, <1>3, <1>4, <1>5, <1>6, <1>7 DEF UploaderNext, MainStepUpload, MainProceeds

LEMMA StoredHolds ==
    ASSUME UInv, UploaderNext
    PROVE  DoneIsStored'
<1> USE DEF UInv, uploadVars
<1>1. CASE StartUpload
  BY <1>1 DEF StartUpload, AddWorkItems, DoneIsStored, workerVars
<1>2. CASE InitiateFails \/ UploadSpawnFails \/ AbortUpload \/ CompleteUpload
  BY <1>2 DEF InitiateFails, UploadSpawnFails, AbortUpload, CompleteUpload, EndCall,
              DoneIsStored, workerVars
<1>3. CASE (AllReceived \/ JoinThreads) /\ UNCHANGED uploadVars
  BY <1>3 DEF AllReceived, JoinThreads, DoneIsStored, workerVars
<1>4. CASE TakeResult /\ UNCHANGED uploadVars
  <2>1. /\ result_queue \in Seq(Result) /\ result_queue # <<>>
        /\ result_queue' = Tail(result_queue)
    BY <1>4 DEF TakeResult, IInv, TypeOK
  <2>2. /\ 1 \in 1..Len(result_queue) /\ Head(result_queue) = result_queue[1]
        /\ \A n \in 1..Len(result_queue') :
              n + 1 \in 1..Len(result_queue) /\ result_queue'[n] = result_queue[n + 1]
    BY <2>1, TailFacts
  <2>3. hash_chunks' \subseteq stored
    BY <1>4, <2>2 DEF TakeResult, DoneIsStored
  <2>4. QED
    BY <1>4, <2>2, <2>3 DEF TakeResult, DoneIsStored, workerVars
<1>5. ASSUME NEW w \in Worker, SpawnThread(w) \/ StopThread(w), UNCHANGED uploadVars
      PROVE  DoneIsStored'
  BY <1>5 DEF SpawnThread, StopThread, DoneIsStored, workerVars, IInv, TypeOK
<1>6. ASSUME NEW w \in Worker, UploadPart(w) \/ UploadPartFails(w)
      PROVE  DoneIsStored'
  <2>1. wpc[w] = "chunk" /\ work[w] \in Part
    BY <1>6 DEF UploadPart, UploadPartFails, ChunkDone, ChunkFails, IInv, WorkWhileBusy, Busy
  <2>2. /\ stored \subseteq stored' /\ stored' \subseteq Part
        /\ wpc'[w] = "put_ok" => work[w] \in stored'
        /\ \A u \in Worker \ {w} : wpc'[u] = wpc[u]
        /\ UNCHANGED <<hash_chunks, result_queue, work>>
    BY <1>6, <2>1 DEF UploadPart, UploadPartFails, ChunkDone, ChunkFails, DoneIsStored,
                      IInv, TypeOK, mainVars
  <2>3. QED
    BY <2>2 DEF DoneIsStored
<1>7. ASSUME NEW w \in Worker, CheckContinue(w) \/ GetWork(w), UNCHANGED uploadVars
      PROVE  DoneIsStored'
  <2>1. /\ wpc'[w] # "put_ok"
        /\ \A u \in Worker \ {w} : wpc'[u] = wpc[u] /\ work'[u] = work[u]
        /\ UNCHANGED <<hash_chunks, result_queue>>
    BY <1>7 DEF CheckContinue, GetWork, IInv, TypeOK, mainVars
  <2>2. QED
    BY <1>7, <2>1 DEF DoneIsStored
<1>8. ASSUME NEW w \in Worker, PutResult(w), UNCHANGED uploadVars
      PROVE  DoneIsStored'
  <2>1. work[w] \in Part
    BY <1>8 DEF PutResult, IInv, WorkWhileBusy, Busy
  <2>2. /\ Len(result_queue) \in Nat
        /\ Len(result_queue') = Len(result_queue) + 1
        /\ \A n \in 1..Len(result_queue) : result_queue'[n] = result_queue[n]
        /\ result_queue'[Len(result_queue) + 1] =
              [part |-> work[w], ok |-> wpc[w] = "put_ok"]
    <3>1. [part |-> work[w], ok |-> wpc[w] = "put_ok"] \in Result
      BY <2>1 DEF Result
    <3>2. QED
      BY <1>8, <3>1, AppendProperties DEF PutResult, IInv, TypeOK
  <2>3. /\ wpc'[w] # "put_ok"
        /\ \A u \in Worker \ {w} : wpc'[u] = wpc[u] /\ work'[u] = work[u]
        /\ UNCHANGED hash_chunks
    BY <1>8 DEF PutResult, IInv, TypeOK, mainVars
  <2>4. \A n \in 1..Len(result_queue') : result_queue'[n].ok => result_queue'[n].part \in stored
    <3>1. wpc[w] = "put_ok" => work[w] \in stored
      BY DEF DoneIsStored
    <3>2. \A n \in 1..Len(result_queue) : result_queue[n].ok => result_queue[n].part \in stored
      BY DEF DoneIsStored
    <3> DEFINE done == wpc[w] = "put_ok"
               r == result_queue'[Len(result_queue) + 1]
    <3>3. r.part = work[w] /\ r.ok = done
      <4>1. r = [part |-> work[w], ok |-> done]
        BY <2>2
      <4> HIDE DEF done, r
      <4>2. QED
        BY <4>1
    <3>4. r.ok => r.part \in stored
      BY <3>1, <3>3
    <3>5. QED
      BY <2>2, <3>2, <3>4
  <2>5. \A u \in Worker : wpc'[u] = "put_ok" => work'[u] \in stored
    BY <2>3 DEF DoneIsStored
  <2>6. QED
    BY <1>8, <2>3, <2>4, <2>5 DEF DoneIsStored
<1>9. QED
  BY <1>1, <1>2, <1>3, <1>4, <1>5, <1>6, <1>7, <1>8
     DEF UploaderNext, MainStepUpload, MainProceeds, WorkerStepUpload

-----------------------------------------------------------------------------
(* Theorems: the upload.                                                   *)

LEMMA UploadInitHolds == UploaderInit => UInv
<1> SUFFICES ASSUME UploaderInit PROVE UInv
  OBVIOUS
<1>1. IInv
  BY InitHolds DEF UploaderInit
<1>2. UploadStatus /\ DoneIsStored
  BY DEF UploaderInit, TransferInit, UploadStatus, DoneIsStored
<1>3. QED
  BY <1>1, <1>2 DEF UInv

LEMMA UploadStepHolds ==
    ASSUME UInv, [UploaderNext]_uploaderVars
    PROVE  UInv'
<1>1. CASE UploaderNext
  BY <1>1, UploadIsTransfer, StepHolds, StatusHolds, StoredHolds DEF UInv
<1>2. CASE UNCHANGED uploaderVars
  <2>1. IInv'
    BY <1>2, StepHolds DEF UInv, uploaderVars
  <2>2. QED
    BY <1>2, <2>1 DEF uploaderVars, uploadVars, transferVars, mainVars, workerVars, UInv,
                      UploadStatus, DoneIsStored
<1>3. QED
  BY <1>1, <1>2

\* The inductive invariant of the uploader (concurrent.py:110-174).
THEOREM UploadInvariant == UploaderSpec => []UInv
BY UploadInitHolds, UploadStepHolds, PTL DEF UploaderSpec

\* The uploader is the pool with an upload beside it: what is proved of the
\* pool holds of it.
THEOREM UploaderIsPool == UploaderSpec => TransferSafety
<1>1. UploaderInit => TransferInit
  BY DEF UploaderInit
<1>2. [UploaderNext]_uploaderVars => [TransferNext]_transferVars
  BY UploadIsTransfer DEF uploaderVars
<1>3. QED
  BY <1>1, <1>2, PTL DEF UploaderSpec, TransferSafety

\* upload() completes an archive only with every part stored and every slot
\* of the tree hash filled (concurrent.py:145-156).
THEOREM UploadCompletesWholeArchive == UploaderSpec => []CompletesWholeArchive
<1>1. UInv => CompletesWholeArchive
  BY DEF UInv, IInv, AllSlotsFilled, DoneIsStored, CompletesWholeArchive
<1>2. QED
  BY <1>1, UploadInvariant, PTL

\* No worker is sending a part of an upload that has ended
\* (concurrent.py:60-66, 148-156).
THEOREM UploadNoPartAfterEnd == UploaderSpec => []NoPartAfterEnd
<1>1. UInv => NoPartAfterEnd
  BY DEF UInv, UploadStatus, NoPartAfterEnd
<1>2. QED
  BY <1>1, UploadInvariant, PTL

\* Every step of the uploader is a step of the multipart protocol or leaves
\* the upload alone.
LEMMA StepImplementsProtocol ==
    ASSUME UInv, [UploaderNext]_uploaderVars
    PROVE  [Protocol!UploadNext]_(Protocol!uploadVars)
<1> USE DEF Protocol!UploadNext, Protocol!uploadVars, uploadVars
<1>1. CASE StartUpload
  BY <1>1 DEF StartUpload, AddWorkItems, UInv, UploadStatus, Protocol!Initiate
<1>2. CASE InitiateFails
  BY <1>2 DEF InitiateFails, UInv, UploadStatus, Protocol!Initiate
<1>3. CASE UploadSpawnFails \/ (MainProceeds /\ UNCHANGED uploadVars)
  BY <1>3 DEF UploadSpawnFails
<1>4. CASE AbortUpload
  BY <1>4 DEF AbortUpload, UInv, UploadStatus, Protocol!Abort
<1>5. CASE CompleteUpload
  <2>1. stored = Part /\ upload = "open"
    BY <1>5 DEF CompleteUpload, UInv, UploadStatus, IInv, AllSlotsFilled, DoneIsStored
  <2>2. QED
    BY <1>5, <2>1 DEF CompleteUpload, Protocol!Complete
<1>6. ASSUME NEW w \in Worker, UploadPart(w) \/ UploadPartFails(w)
      PROVE  [Protocol!UploadNext]_(Protocol!uploadVars)
  <2>1. work[w] \in Part /\ upload = "open"
    BY <1>6 DEF UploadPart, UploadPartFails, ChunkDone, ChunkFails, UInv, UploadStatus,
                IInv, WorkWhileBusy, Busy
  <2>2. QED
    BY <1>6, <2>1 DEF UploadPart, UploadPartFails, Protocol!StorePart
<1>7. CASE UNCHANGED uploaderVars
  BY <1>7 DEF uploaderVars
<1>8. QED
  BY <1>1, <1>2, <1>3, <1>4, <1>5, <1>6, <1>7 DEF UploaderNext, MainStepUpload, WorkerStepUpload

\* The uploader implements the Glacier multipart protocol: it stores parts
\* only in the open upload and completes it only when it is whole.
THEOREM UploadImplementsProtocol == UploaderSpec => ImplementsProtocol
<1>1. UploaderInit => Protocol!UploadInit
  BY DEF UploaderInit, Protocol!UploadInit
<1>2. QED
  BY <1>1, UploadInvariant, StepImplementsProtocol, PTL
     DEF UploaderSpec, ImplementsProtocol, Protocol!UploadSpec

-----------------------------------------------------------------------------
(* The download.                                                           *)

\* Until main raises, the file holds exactly the parts main has received, and
\* wrong data only where a worker accepted it.
FileIsFaithful ==
    /\ corrupt \subseteq Part
    /\ file \in [Part -> Content]
    /\ main # "raised" => \A p \in Part : p \in hash_chunks <=> file[p] # "hole"
    /\ \A p \in Part : file[p] = "bad" => p \in corrupt

\* The verdict of the final tree hash.
ReturnedIsVerified == main = "returned" => ~failed /\ corrupt = {}

DInv == IInv /\ FileIsFaithful /\ ReturnedIsVerified

LEMMA DownloadIsTransfer ==
    ASSUME DownloaderNext
    PROVE  [TransferNext]_transferVars
<1>1. CASE MainStepDownload
  BY <1>1 DEF MainStepDownload, WritePart, WriteFails, OpenFails, VerifyArchive, DownloadSpawnFails,
              TransferNext, MainStep
<1>2. ASSUME NEW w \in Worker, WorkerStepDownload(w)
      PROVE  TransferNext
  BY <1>2 DEF WorkerStepDownload, DownloadPart, TransferNext, WorkerStep
<1>3. QED
  BY <1>1, <1>2 DEF DownloaderNext

LEMMA FileHolds ==
    ASSUME DInv, DownloaderNext
    PROVE  FileIsFaithful' /\ ReturnedIsVerified'
<1> USE DEF DInv, downloadVars
<1>1. CASE WritePart
  <2> DEFINE p == Head(result_queue).part
  <2>1. p \in Part
    <3>1. Head(result_queue) \in Result
      BY <1>1, TailFacts DEF WritePart, TakeResult, IInv, TypeOK
    <3>2. QED
      BY <3>1 DEF Result
  <2>2. main = "wait" /\ main' \in {"wait", "stop"}
    BY <1>1 DEF WritePart, TakeResult
  <2>3. CASE Head(result_queue).ok
    <3>1. /\ file' = [file EXCEPT ![p] = IF p \in corrupt THEN "bad" ELSE "good"]
          /\ hash_chunks' = hash_chunks \cup {p}
          /\ corrupt' = corrupt
      BY <1>1, <2>3 DEF WritePart, TakeResult
    <3>2. QED
      BY <2>1, <2>2, <3>1 DEF FileIsFaithful, Content, ReturnedIsVerified
  <2>4. CASE ~Head(result_queue).ok
    BY <1>1, <2>2, <2>4 DEF WritePart, TakeResult, FileIsFaithful, ReturnedIsVerified
  <2>5. QED
    BY <2>3, <2>4
<1>2. CASE WriteFails
  <2> DEFINE p == Head(result_queue).part
  <2>1. p \in Part
    <3>1. Head(result_queue) \in Result
      BY <1>2, TailFacts DEF WriteFails, LoseResult, IInv, TypeOK
    <3>2. QED
      BY <3>1 DEF Result
  <2>2. /\ main' = "raised"
        /\ corrupt' = corrupt
        /\ \/ file' = file
           \/ file' = [file EXCEPT ![p] = IF p \in corrupt THEN "bad" ELSE "good"]
    BY <1>2 DEF WriteFails, LoseResult
  <2>3. QED
    BY <2>1, <2>2 DEF FileIsFaithful, Content, ReturnedIsVerified
<1>3. CASE OpenFails \/ DownloadSpawnFails
  BY <1>3 DEF OpenFails, DownloadSpawnFails, EndCall, FileIsFaithful, ReturnedIsVerified
<1>4. CASE VerifyArchive
  BY <1>4 DEF VerifyArchive, EndCall, FileIsFaithful, ReturnedIsVerified
<1>5. CASE (AddWorkItems \/ JoinThreads \/ AllReceived) /\ UNCHANGED downloadVars
  BY <1>5 DEF AddWorkItems, JoinThreads, AllReceived, FileIsFaithful, ReturnedIsVerified
<1>6. ASSUME NEW w \in Worker, SpawnThread(w) \/ StopThread(w), UNCHANGED downloadVars
      PROVE  FileIsFaithful' /\ ReturnedIsVerified'
  BY <1>6 DEF SpawnThread, StopThread, FileIsFaithful, ReturnedIsVerified
<1>7. ASSUME NEW w \in Worker, DownloadPart(w)
      PROVE  FileIsFaithful' /\ ReturnedIsVerified'
  <2>1. work[w] \in Part /\ main # "returned"
    BY <1>7 DEF DownloadPart, ChunkDone, IInv, WorkWhileBusy, Busy, QuietAfterJoin
  <2>2. /\ corrupt \subseteq corrupt' /\ corrupt' \subseteq Part
        /\ UNCHANGED <<file, hash_chunks, main>>
    BY <1>7, <2>1 DEF DownloadPart, ChunkDone, mainVars, FileIsFaithful
  <2>3. QED
    BY <2>1, <2>2 DEF FileIsFaithful, ReturnedIsVerified
<1>8. ASSUME NEW w \in Worker, UNCHANGED downloadVars,
             CheckContinue(w) \/ GetWork(w) \/ ChunkFails(w) \/ PutResult(w)
      PROVE  FileIsFaithful' /\ ReturnedIsVerified'
  BY <1>8 DEF CheckContinue, GetWork, ChunkFails, PutResult, mainVars,
              FileIsFaithful, ReturnedIsVerified
<1>9. QED
  BY <1>1, <1>2, <1>3, <1>4, <1>5, <1>6, <1>7, <1>8
     DEF DownloaderNext, MainStepDownload, WorkerStepDownload

-----------------------------------------------------------------------------
(* Theorems: the download.                                                 *)

LEMMA DownloadInitHolds == DownloaderInit => DInv
<1> SUFFICES ASSUME DownloaderInit PROVE DInv
  OBVIOUS
<1>1. IInv
  BY InitHolds DEF DownloaderInit
<1>2. FileIsFaithful /\ ReturnedIsVerified
  BY DEF DownloaderInit, TransferInit, FileIsFaithful, Content, ReturnedIsVerified
<1>3. QED
  BY <1>1, <1>2 DEF DInv

LEMMA DownloadStepHolds ==
    ASSUME DInv, [DownloaderNext]_downloaderVars
    PROVE  DInv'
<1>1. CASE DownloaderNext
  BY <1>1, DownloadIsTransfer, StepHolds, FileHolds DEF DInv
<1>2. CASE UNCHANGED downloaderVars
  <2>1. IInv'
    BY <1>2, StepHolds DEF DInv, downloaderVars
  <2>2. QED
    BY <1>2, <2>1 DEF downloaderVars, downloadVars, transferVars, mainVars, DInv,
                      FileIsFaithful, ReturnedIsVerified
<1>3. QED
  BY <1>1, <1>2

\* The inductive invariant of the downloader (concurrent.py:292-350).
THEOREM DownloadInvariant == DownloaderSpec => []DInv
BY DownloadInitHolds, DownloadStepHolds, PTL DEF DownloaderSpec

\* The downloader is the pool with a file beside it: what is proved of the
\* pool holds of it.
THEOREM DownloaderIsPool == DownloaderSpec => TransferSafety
<1>1. DownloaderInit => TransferInit
  BY DEF DownloaderInit
<1>2. [DownloaderNext]_downloaderVars => [TransferNext]_transferVars
  BY DownloadIsTransfer DEF downloaderVars
<1>3. QED
  BY <1>1, <1>2, PTL DEF DownloaderSpec, TransferSafety

\* What main has received is at its place in the file (concurrent.py:335-340).
THEOREM DownloadReceivedIsWritten == DownloaderSpec => []ReceivedIsWritten
<1>1. DInv => ReceivedIsWritten
  BY DEF DInv, FileIsFaithful, ReceivedIsWritten
<1>2. QED
  BY <1>1, DownloadInvariant, PTL

\* download() returns only with the archive's data at every offset of the
\* file (concurrent.py:326-350).
THEOREM DownloadReturnsTheArchive == DownloaderSpec => []ReturnsTheArchive
<1>1. DInv => ReturnsTheArchive
  <2>1. SUFFICES ASSUME DInv, main = "returned", NEW p \in Part
                 PROVE  file[p] = "good"
    BY DEF ReturnsTheArchive
  <2>2. hash_chunks = Part /\ corrupt = {}
    BY <2>1 DEF DInv, ReturnedIsVerified, IInv, AllSlotsFilled
  <2>3. file[p] \in Content /\ file[p] # "hole" /\ file[p] # "bad"
    BY <2>1, <2>2 DEF DInv, FileIsFaithful
  <2>4. QED
    BY <2>3 DEF Content
<1>2. QED
  BY <1>1, DownloadInvariant, PTL
=============================================================================
