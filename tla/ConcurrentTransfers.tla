------------------------ MODULE ConcurrentTransfers ------------------------
(***************************************************************************)
(* A call of ConcurrentUploader.upload or of ConcurrentDownloader.download *)
(* (boto/glacier/concurrent.py): transfer names the one that a behaviour   *)
(* is of.  The file of an upload is what is to be sent, and no upload is   *)
(* open at the service while a download runs.                              *)
(***************************************************************************)
EXTENDS ConcurrentUploader, ConcurrentDownloader

VARIABLE transfer

vars == <<transfer, transferVars, uploadVars, downloadVars>>

Init ==
    \/ /\ transfer = "upload"
       /\ UploaderInit
       /\ corrupt = {} /\ file = [p \in Part |-> "good"]
    \/ /\ transfer = "download"
       /\ DownloaderInit
       /\ upload = "none" /\ stored = {}

MainRuns ==
    /\ UNCHANGED transfer
    /\ \/ transfer = "upload" /\ MainStepUpload /\ UNCHANGED downloadVars
       \/ transfer = "download" /\ MainStepDownload /\ UNCHANGED uploadVars

WorkerRuns(w) ==
    /\ UNCHANGED transfer
    /\ \/ transfer = "upload" /\ WorkerStepUpload(w) /\ UNCHANGED downloadVars
       \/ transfer = "download" /\ WorkerStepDownload(w) /\ UNCHANGED uploadVars

Next == MainRuns \/ \E w \in Worker : WorkerRuns(w)

\* The fairness of UploaderSpec and DownloaderSpec.
Spec ==
    /\ Init /\ [][Next]_vars
    /\ WF_vars(MainRuns)
    /\ \A w \in Worker : WF_vars(WorkerRuns(w))
=============================================================================
