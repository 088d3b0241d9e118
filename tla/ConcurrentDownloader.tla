------------------------ MODULE ConcurrentDownloader ------------------------
(***************************************************************************)
(* ConcurrentDownloader.download (boto/glacier/concurrent.py): the pool of *)
(* ConcurrentTransferer fetching the parts of an archive, and main writing *)
(* each one at its offset of the file and verifying the archive's tree     *)
(* hash at the end.                                                        *)
(*                                                                         *)
(* A part's data is checked against the tree hash that came with it, so    *)
(* what a worker returns is the archive's data or data that was corrupted  *)
(* together with its hash.  Hashes are taken to be collision-free.         *)
(***************************************************************************)
EXTENDS ConcurrentTransferer

VARIABLES corrupt,  \* the parts whose accepted data is not the archive's
          file      \* what the file holds at each part's offset

downloadVars == <<corrupt, file>>

downloaderVars == <<transferVars, downloadVars>>

Content == {"hole", "good", "bad"}

DownloadTypeOK ==
    /\ TypeOK
    /\ corrupt \subseteq Part
    /\ file \in [Part -> Content]

DownloaderInit ==
    /\ TransferInit
    /\ corrupt = {}
    /\ file = [p \in Part |-> "hole"]

\* _download_chunk returns: its own hash check has passed.
DownloadPart(w) ==
    /\ ChunkDone(w)
    /\ corrupt' \in {corrupt, corrupt \cup {work[w]}}
    /\ UNCHANGED file

\* A part from result_queue goes to its place in the file.
WritePart ==
    /\ TakeResult
    /\ LET p == Head(result_queue).part
       IN  file' = IF Head(result_queue).ok
                   THEN [file EXCEPT ![p] = IF p \in corrupt THEN "bad" ELSE "good"]
                   ELSE file
    /\ UNCHANGED corrupt

\* f.seek, f.write or f.flush raises, with the data on disk or not.
WriteFails ==
    /\ LoseResult
    /\ LET p == Head(result_queue).part
       IN  file' \in {file, [file EXCEPT ![p] = IF p \in corrupt THEN "bad" ELSE "good"]}
    /\ UNCHANGED corrupt

\* open(filename, "wb") raises, or the hash of no parts at all is an
\* IndexError (glacier/utils.py:108): both before any result is taken, and
\* nobody shuts the threads down.
OpenFails ==
    /\ main = "wait"
    /\ received = 0
    /\ EndCall("raised")
    /\ UNCHANGED downloadVars

\* Fault: the tree hash of the whole archive is not compared.
TrustParts ==
    /\ main = "joined"
    /\ EndCall(IF failed THEN "raised" ELSE "returned")
    /\ UNCHANGED downloadVars

\* After the join: the exception of a part, or the verdict on the tree hash.
VerifyArchive ==
    /\ main = "joined"
    /\ EndCall(IF failed \/ corrupt # {} THEN "raised" ELSE "returned")
    /\ UNCHANGED downloadVars

\* A thread cannot be started.
DownloadSpawnFails ==
    /\ main = "spawn"
    /\ EndCall("raised")
    /\ UNCHANGED downloadVars

MainStepDownload ==
    \/ WritePart \/ WriteFails \/ OpenFails \/ VerifyArchive \/ DownloadSpawnFails
    \/ /\ \/ AddWorkItems \/ JoinThreads
          \/ TotalParts > 0 /\ AllReceived
          \/ \E w \in Worker : SpawnThread(w) \/ StopThread(w)
       /\ UNCHANGED downloadVars

WorkerStepDownload(w) ==
    \/ DownloadPart(w)
    \/ (CheckContinue(w) \/ GetWork(w) \/ ChunkFails(w) \/ PutResult(w))
          /\ UNCHANGED downloadVars

DownloaderNext == MainStepDownload \/ \E w \in Worker : WorkerStepDownload(w)

\* Weak fairness of main and of every worker: running threads, and requests
\* that end, with an exception if need be.
DownloaderSpec ==
    /\ DownloaderInit /\ [][DownloaderNext]_downloaderVars
    /\ WF_downloaderVars(MainStepDownload)
    /\ \A w \in Worker : WF_downloaderVars(WorkerStepDownload(w))

-----------------------------------------------------------------------------
(* Properties.                                                             *)

\* download() returns only when every offset of the file holds the archive's
\* data (concurrent.py:326-350).
ReturnsTheArchive == main = "returned" => \A p \in Part : file[p] = "good"

\* What main has received is on disk, and nothing is written for a part that
\* is not there yet (concurrent.py:335-340).
ReceivedIsWritten ==
    main \in {"wait", "stop", "join", "joined"} =>
        \A p \in Part : p \in hash_chunks <=> file[p] # "hole"
=============================================================================
