--------------------------- MODULE ResumableUpload ---------------------------
(***************************************************************************)
(* ResumableUploadHandler.send_file (boto/gs/resumable_upload_handler.py). *)
(* A process sends one file to one object; the URI of the upload is kept   *)
(* in a tracker file, so that a process started after a failure or a crash *)
(* asks the service what it holds and goes on from there.  The file may be *)
(* edited while no process runs.                                           *)
(*                                                                         *)
(* pc:  idle, returned, raised   no process, or send_file is over          *)
(*      attempt                  at the top of the retry loop              *)
(*      query, start, send       the three requests of an attempt          *)
(*      requery                  the query after a failed send             *)
(*      remove, check            after a successful send                   *)
(*      retry                    in track_progress_less_iterations         *)
(*                                                                         *)
(* A digest is the sequence of the bytes hashed.  Any request may fail     *)
(* after the service has acted on it.                                      *)
(***************************************************************************)
EXTENDS Integers, Sequences

CONSTANTS Byte,
          Contents,     \* what the user may write to the file
          NoObject,
          BUFFER_SIZE,
          NumRetries    \* num_retries

ASSUME ResumableUploadAssumption ==
    /\ Contents \subseteq Seq(Byte)
    /\ NoObject \notin Seq(Byte)
    /\ BUFFER_SIZE \in Nat \ {0, 1}
    /\ NumRetries \in Nat

VARIABLES
    file,      \* the bytes of the local file
    tracker,   \* what the tracker file holds: none, uri, or garbled
    upload,    \* the upload at the service that the last URI names
    object,    \* the object at the service
    pc, tracker_uri, fp, digesters, digesters_before_attempt,
    server_has_bytes, server_had_bytes_before_attempt, server_end,
    progress_less_iterations,
    disposition,   \* of the exception that is being handled
    etag           \* what the service said it stored

serviceVars == <<upload, object>>
digestVars == <<digesters, digesters_before_attempt>>
progressVars == <<server_has_bytes, server_had_bytes_before_attempt, progress_less_iterations>>
processVars == <<tracker_uri, fp, digestVars, progressVars, server_end, disposition, etag>>
vars == <<file, tracker, serviceVars, pc, processVars>>

Down == pc \in {"idle", "returned", "raised"}

FileLength == Len(file)

\* The service has never heard of an upload, holds a part of it, or has made
\* the object of it.
Upload == [state : {"none", "active", "done"}, data : Seq(Byte)]

TypeOK ==
    /\ file \in Seq(Byte)
    /\ tracker \in {"none", "uri", "garbled"}
    /\ upload \in Upload
    /\ object \in Seq(Byte) \cup {NoObject}
    /\ pc \in {"idle", "returned", "raised", "attempt", "query", "start", "send",
               "requery", "remove", "check", "retry"}
    /\ tracker_uri \in {"none", "uri", "garbled"}
    /\ fp \in 0..FileLength
    /\ digesters \in Seq(Byte)
    /\ digesters_before_attempt \in Seq(Byte)
    /\ server_has_bytes \in Nat
    /\ server_had_bytes_before_attempt \in Nat
    /\ server_end \in Int
    /\ progress_less_iterations \in Nat
    /\ disposition \in {"none", "wait", "abort", "retryable"}
    /\ etag \in Seq(Byte)

-----------------------------------------------------------------------------
\* The locals of a process, at its start and when there is none.
FreshProcess ==
    /\ fp' = 0
    /\ digesters' = <<>>
    /\ digesters_before_attempt' = <<>>
    /\ server_has_bytes' = 0
    /\ server_had_bytes_before_attempt' = 0
    /\ server_end' = -1
    /\ progress_less_iterations' = 0
    /\ disposition' = "none"
    /\ etag' = <<>>

End(how) == pc' = how /\ tracker_uri' = "none" /\ FreshProcess

\* __init__, which loads the tracker URI, and send_file up to its loop.
StartProcess ==
    /\ Down
    /\ pc' = "attempt"
    /\ tracker_uri' = tracker
    /\ FreshProcess
    /\ UNCHANGED <<file, tracker, serviceVars>>

\* Disposition ABORT: the tracker file is removed and the exception raised.
Abort == End("raised") /\ tracker' = "none"

\* The top of the loop, and the choice in _attempt_resumable_upload.
Attempt ==
    /\ pc = "attempt"
    /\ server_had_bytes_before_attempt' = server_has_bytes
    /\ digesters_before_attempt' = digesters
    /\ server_end' = -1
    /\ pc' = IF tracker_uri = "none" THEN "start" ELSE "query"
    /\ UNCHANGED <<file, tracker, serviceVars, tracker_uri, fp, digesters,
                   server_has_bytes, progress_less_iterations, disposition, etag>>

\* The digests are brought up to the bytes the service has.  The test is
\* `if server_end': it is skipped when the service has exactly one byte.
\* If the service has more than the file the transfer starts over.
CatchUp ==
    IF server_end' = 0
    THEN pc' = "send" /\ UNCHANGED <<fp, digesters>>
    ELSE LET n == IF server_end' < FileLength THEN server_end' + 1 ELSE FileLength
         IN  /\ pc' = IF server_end' < FileLength THEN "send" ELSE "start"
             /\ fp' = n
             /\ digesters' = digesters \o SubSeq(file, 1, n)

\* Fault: progress is judged by the last byte the service has.
ServerPosOfEnd == server_has_bytes' = server_end' + 1 /\ CatchUp

\* server_has_bytes is set to server_start, which the protocol makes 0.
ServerPos == server_has_bytes' = 0 /\ CatchUp

\* _query_server_pos: 200 when the object is there, 308 with the range.
QueryAnswered ==
    /\ pc = "query"
    /\ tracker_uri = "uri"
    /\ \/ upload.state = "active" /\ server_end' = Len(upload.data) - 1
       \/ upload.state = "done" /\ server_end' = FileLength - 1
    /\ ServerPos
    /\ UNCHANGED <<file, tracker, serviceVars, tracker_uri, digesters_before_attempt,
                   server_had_bytes_before_attempt, progress_less_iterations,
                   disposition, etag>>

\* Any other answer means START_OVER; an exception leaves the attempt.
QueryRefused ==
    /\ pc = "query"
    /\ pc' \in {"start", "retry"}
    /\ UNCHANGED <<file, tracker, serviceVars, processVars>>

\* _start_new_resumable_upload succeeds.  The tracker file is not truncated:
\* a URI shorter than the one it held is left with the tail of that.
StartUpload ==
    /\ pc = "start"
    /\ upload' = [state |-> "active", data |-> <<>>]
    /\ \/ tracker' = "uri"
       \/ tracker # "none" /\ tracker' = "garbled"
    /\ tracker_uri' = "uri"
    /\ server_has_bytes' = 0
    /\ pc' = "send"
    /\ UNCHANGED <<file, object, fp, digestVars, server_had_bytes_before_attempt,
                   server_end, progress_less_iterations, disposition, etag>>

\* 500, 503, no Location header, or an exception: retried.
StartFails ==
    /\ pc = "start"
    /\ server_has_bytes' = 0
    /\ pc' = "retry"
    /\ UNCHANGED <<file, tracker, serviceVars, tracker_uri, fp, digestVars,
                   server_had_bytes_before_attempt, server_end,
                   progress_less_iterations, disposition, etag>>

\* Another status, or the tracker file cannot be written.
StartAborts ==
    /\ pc = "start"
    /\ Abort
    /\ upload' \in {upload, [state |-> "active", data |-> <<>>]}
    /\ UNCHANGED <<file, object>>

-----------------------------------------------------------------------------
(* _upload_file_bytes: one PUT with the rest of the file, from fp on.      *)

Sent == SubSeq(file, fp + 1, FileLength)

\* What EOF is found at, by the handler's own count of bytes.
TotalBytesUploaded == server_end + 1 + Len(Sent)

\* The service keeps any number of the bytes that reach it, and makes the
\* object when it has as many as the request declared.
Grown(k) ==
    LET data == upload.data \o SubSeq(file, fp + 1, fp + k)
    IN  [state |-> IF Len(data) = FileLength THEN "done" ELSE "active", data |-> data]

ServiceKeeps(n) ==
    /\ \/ UNCHANGED upload
       \/ /\ upload.state = "active"
          /\ \E k \in 0..n : /\ Len(upload.data) + k <= FileLength
                             /\ upload' = Grown(k)
    /\ object' = IF upload'.state = "done" /\ upload.state # "done"
                 THEN upload'.data ELSE object

\* An exception while the bytes [fp, p) have been sent and hashed and one
\* more buffer has been read, or, all sent, while waiting for the response.
\* Only a socket error goes through the except clause with its query.
SendBreaks ==
    /\ pc = "send"
    /\ \E p \in fp..FileLength :
          /\ (p - fp) % BUFFER_SIZE = 0 \/ p = FileLength
          /\ fp' = IF p + BUFFER_SIZE < FileLength THEN p + BUFFER_SIZE ELSE FileLength
          /\ digesters' = digesters \o SubSeq(file, fp + 1, p)
          /\ ServiceKeeps(fp' - fp)
    /\ disposition' = "retryable"
    /\ pc' \in {"requery", "retry"}
    /\ UNCHANGED <<file, tracker, tracker_uri, digesters_before_attempt, progressVars,
                   server_end, etag>>

SendEnds ==
    /\ pc = "send"
    /\ fp' = FileLength
    /\ digesters' = digesters \o Sent
    /\ UNCHANGED <<file, tracker, tracker_uri, digesters_before_attempt, progressVars,
                   server_end>>

\* "File changed during upload: EOF at %d bytes of %d byte file."
SendFindsEof ==
    /\ SendEnds
    /\ TotalBytesUploaded # FileLength
    /\ ServiceKeeps(Len(Sent))
    /\ disposition' = "abort"
    /\ pc' = "requery"
    /\ UNCHANGED etag

\* 200, with the etag of the object.
SendSucceeds ==
    /\ SendEnds
    /\ TotalBytesUploaded = FileLength
    /\ ServiceKeeps(Len(Sent))
    /\ upload'.state = "done"
    /\ etag' = upload'.data
    /\ pc' = "remove"
    /\ UNCHANGED disposition

\* 408, 500 and 503 are retried after a delay, any other status aborts.
SendRefused ==
    /\ SendEnds
    /\ TotalBytesUploaded = FileLength
    /\ ServiceKeeps(Len(Sent))
    /\ disposition' \in {"wait", "abort"}
    /\ pc' = "requery"
    /\ UNCHANGED etag

\* The except clause of _attempt_resumable_upload: 400 aborts, any other
\* status raises again, and an exception of the query replaces the first.
Requery ==
    /\ pc = "requery"
    /\ \/ Abort
       \/ disposition # "abort" /\ pc' = "retry" /\ UNCHANGED <<tracker, processVars>>
       \/ /\ disposition = "abort"
          /\ disposition' = "retryable" /\ pc' = "retry"
          /\ UNCHANGED <<tracker, tracker_uri, fp, digestVars, progressVars, server_end, etag>>
    /\ UNCHANGED <<file, serviceVars>>

-----------------------------------------------------------------------------
\* Fault: an attempt without progress is not counted.
TrackProgressUncounted ==
    /\ pc = "retry"
    /\ pc' = "attempt"
    /\ digesters' = digesters_before_attempt
    /\ disposition' = "none"
    /\ UNCHANGED <<file, tracker, serviceVars, tracker_uri, fp, digesters_before_attempt,
                   progressVars, server_end, etag>>

\* track_progress_less_iterations; giving up keeps the tracker file.
TrackProgress ==
    LET progress == server_has_bytes > server_had_bytes_before_attempt
        count == IF progress THEN 0 ELSE progress_less_iterations + 1
    IN  /\ pc = "retry"
        /\ IF count > NumRetries
           THEN End("raised")
           ELSE /\ pc' = "attempt"
                /\ progress_less_iterations' = count
                /\ digesters' = IF progress THEN digesters ELSE digesters_before_attempt
                /\ disposition' = "none"
                /\ UNCHANGED <<tracker_uri, fp, digesters_before_attempt, server_has_bytes,
                               server_had_bytes_before_attempt, server_end, etag>>
        /\ UNCHANGED <<file, tracker, serviceVars>>

\* Success: the tracker file goes before the md5 is checked.
RemoveTracker ==
    /\ pc = "remove"
    /\ tracker' = "none"
    /\ pc' = "check"
    /\ UNCHANGED <<file, serviceVars, processVars>>

\* Fault: an upload in one piece is not checked.
CheckFinalMd5OfResumed ==
    /\ pc = "check"
    /\ \/ digesters = etag \/ progress_less_iterations = 0
    /\ End("returned")
    /\ UNCHANGED <<file, tracker, serviceVars>>

\* _check_final_md5: the digest is that of the object.
CheckFinalMd5 ==
    /\ pc = "check"
    /\ digesters = etag
    /\ End("returned")
    /\ UNCHANGED <<file, tracker, serviceVars>>

\* It is not: the object is deleted and the upload aborted.  A socket error
\* of open_read or delete is retried, another exception raised.
DeleteWrongObject ==
    /\ pc = "check"
    /\ digesters # etag
    /\ \/ object' = NoObject /\ Abort
       \/ object' = object /\ Abort
       \/ /\ object' \in {object, NoObject}
          /\ pc' = "retry"
          /\ UNCHANGED <<tracker, processVars>>
    /\ UNCHANGED <<file, upload>>

-----------------------------------------------------------------------------
(* The environment: the process dies, the user edits the file.             *)

Crash ==
    /\ ~Down
    /\ End("idle")
    /\ UNCHANGED <<file, tracker, serviceVars>>

EditFile ==
    /\ Down
    /\ file' \in Contents
    /\ pc' = "idle"
    /\ UNCHANGED <<tracker, serviceVars, processVars>>

Init ==
    /\ file \in Contents
    /\ tracker = "none"
    /\ upload = [state |-> "none", data |-> <<>>]
    /\ object = NoObject
    /\ pc = "idle"
    /\ tracker_uri = "none"
    /\ fp = 0
    /\ digesters = <<>>
    /\ digesters_before_attempt = <<>>
    /\ server_has_bytes = 0
    /\ server_had_bytes_before_attempt = 0
    /\ server_end = -1
    /\ progress_less_iterations = 0
    /\ disposition = "none"
    /\ etag = <<>>

SendFile ==
    \/ Attempt \/ QueryAnswered \/ QueryRefused
    \/ StartUpload \/ StartFails \/ StartAborts
    \/ SendBreaks \/ SendFindsEof \/ SendSucceeds \/ SendRefused \/ Requery
    \/ TrackProgress \/ RemoveTracker \/ CheckFinalMd5 \/ DeleteWrongObject

Next == StartProcess \/ SendFile \/ Crash \/ EditFile

\* A running process keeps running; every request is answered or times out.
Spec == Init /\ [][Next]_vars /\ WF_vars(SendFile)

-----------------------------------------------------------------------------
(* Properties.                                                             *)

\* send_file returns only when the object is the file, through crashes,
\* edits between processes, and transfers resumed from the tracker file.  A
\* file of one byte is the exception, as CatchUp shows
\* (resumable_upload_handler.py:426-451, 504-525, 650-664).
ReturnsTheFile == pc = "returned" => object = file \/ FileLength = 1

\* An object that is the file is not deleted as one "with incorrect content":
\* retries and resumptions leave the digest that of the whole file, but for
\* a file of one byte (resumable_upload_handler.py:426-451, 504-555).
GoodObjectIsKept ==
    [][object # NoObject /\ object' = NoObject => object # file \/ FileLength = 1]_vars

\* A process does not send for ever (resumable_upload_handler.py:556-563).
SendFileEnds == ~Down ~> Down
=============================================================================
