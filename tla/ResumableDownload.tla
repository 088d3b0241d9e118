-------------------------- MODULE ResumableDownload --------------------------
(***************************************************************************)
(* ResumableDownloadHandler.get_file (s3/resumable_download_handler.py),   *)
(* with the Key.get_file it calls (s3/key.py).  The etag of the object is  *)
(* kept in a tracker file, so that a process started after a failure goes  *)
(* on from the end of the partial file when the object still has that      *)
(* etag.  The object may be replaced at any time, by an earlier version of *)
(* it too.                                                                 *)
(*                                                                         *)
(* pc:  idle, returned, raised  no process, or get_file is over            *)
(*      attempt, truncate       before the request of an attempt           *)
(*      get, read               Key.get_file: the request, the body        *)
(*      done                    the body has ended                         *)
(*      retry, close            after a failure                            *)
(*                                                                         *)
(* A byte is its version of the object and its place in it; an etag is a   *)
(* version.                                                                *)
(***************************************************************************)
EXTENDS Integers, Sequences

CONSTANTS Size,        \* the sizes of the versions of the object
          NoEtag, NoResponse,
          NumRetries,  \* num_retries
          MaxFile,     \* bound: the file grows no longer
          MaxReplacements  \* bound: the object is replaced no more often

Version == DOMAIN Size

ASSUME ResumableDownloadAssumption ==
    /\ Size \in Seq(Nat) /\ Size # <<>>
    /\ NoEtag \notin Version
    /\ NumRetries \in Nat
    /\ MaxFile \in Nat
    /\ MaxReplacements \in Nat

VARIABLES
    object,       \* the version the service has
    replacements,
    file, tracker,
    append_mode,  \* the caller's fp writes at the end of the file
    pc,
    etag_value,   \* etag_value_for_current_download
    key_etag,     \* key.etag, with which goes key.size
    resp,         \* key.resp: the next byte of the body, and the last
    fp,           \* the position of fp
    start,        \* the first byte the request asks for
    again,        \* in the get_file of the except clause
    had_file_bytes_before_attempt, progress_less_iterations,
    misnamed,     \* history: the file was started with another version than
                  \* the one the tracker file names
    spoilt        \* history: what has happened to the file since its last start

countVars == <<had_file_bytes_before_attempt, progress_less_iterations>>
processVars == <<etag_value, key_etag, resp, fp, start, again, countVars>>
service == <<object, replacements>>
history == <<misnamed, spoilt>>
vars == <<service, file, tracker, append_mode, pc, processVars, history>>

Down == pc \in {"idle", "returned", "raised"}

Hole == [version |-> 0, place |-> 0]
Byte(v, n) == [version |-> v, place |-> n]

IsPartOf(f, v) == /\ Len(f) <= Size[v]
                  /\ \A n \in 1..Len(f) : f[n] = Byte(v, n)

Response == [version : Version, next : Nat, last : Nat]

TypeOK ==
    /\ object \in Version
    /\ replacements \in 0..MaxReplacements
    /\ file \in Seq([version : Nat, place : Nat])
    /\ tracker \in Version \cup {NoEtag}
    /\ append_mode \in BOOLEAN
    /\ pc \in {"idle", "returned", "raised", "attempt", "truncate", "get", "read", "done",
               "retry", "close"}
    /\ etag_value \in Version \cup {NoEtag}
    /\ key_etag \in Version \cup {NoEtag}
    /\ resp \in Response \cup {NoResponse}
    /\ fp \in Nat
    /\ start \in Nat
    /\ again \in BOOLEAN
    /\ had_file_bytes_before_attempt \in Nat
    /\ progress_less_iterations \in Nat
    /\ misnamed \in BOOLEAN
    /\ spoilt \subseteq {"crash", "replaced", "restored", "pipe", "position"}

-----------------------------------------------------------------------------
FreshProcess ==
    /\ resp' = NoResponse
    /\ fp' = 0
    /\ start' = 0
    /\ again' = FALSE
    /\ had_file_bytes_before_attempt' = 0
    /\ progress_less_iterations' = 0

End(how) == pc' = how /\ etag_value' = NoEtag /\ key_etag' = NoEtag /\ FreshProcess

\* The caller looks the key up and opens the file; __init__ loads the etag.
StartProcess ==
    /\ Down
    /\ pc' = "attempt"
    /\ etag_value' = tracker
    /\ key_etag' = object
    /\ FreshProcess
    /\ UNCHANGED <<service, file, tracker, append_mode, history>>

\* Fault: any partial file of a known download is continued.
ResumeWhateverTheEtag == file # <<>> /\ etag_value # NoEtag

\* There is a partial file, of the version the key names.
CanResume == file # <<>> /\ etag_value = key_etag

\* The top of the loop: get_cur_file_size leaves fp at the end of the file.
BeginAttempt ==
    /\ pc = "attempt"
    /\ had_file_bytes_before_attempt' = Len(file)
    /\ fp' = Len(file)

\* The rest is asked for with a Range header.  A misnamed file is of a
\* version that was there for a while, and the key names the one before.
Resume ==
    /\ BeginAttempt
    /\ CanResume
    /\ Len(file) < Size[key_etag]
    /\ start' = Len(file)
    /\ pc' = "get"
    /\ spoilt' = spoilt \cup (IF misnamed THEN {"restored"} ELSE {})
    /\ UNCHANGED <<service, file, tracker, append_mode, etag_value, key_etag, resp, again,
                   progress_less_iterations, misnamed>>

AlreadyComplete ==
    /\ BeginAttempt
    /\ CanResume
    /\ Len(file) = Size[key_etag]
    /\ pc' = "done"
    /\ UNCHANGED <<service, file, tracker, append_mode, etag_value, key_etag, resp, start,
                   again, progress_less_iterations, history>>

\* "is larger than": the tracker file is removed, the exception raised.
LargerThanObject ==
    /\ pc = "attempt"
    /\ CanResume
    /\ Len(file) > Size[key_etag]
    /\ tracker' = NoEtag
    /\ End("raised")
    /\ UNCHANGED <<service, file, append_mode, history>>

\* _save_tracker_info ...
SaveTracker ==
    /\ BeginAttempt
    /\ ~CanResume
    /\ etag_value' = key_etag
    /\ tracker' = key_etag
    /\ start' = 0
    /\ pc' = "truncate"
    /\ UNCHANGED <<service, file, append_mode, key_etag, resp, again,
                   progress_less_iterations, history>>

\* ... which may fail, and the file that is opened is then empty.
SaveTrackerFails ==
    /\ pc = "attempt"
    /\ ~CanResume
    /\ tracker' = NoEtag
    /\ End("raised")
    /\ UNCHANGED <<service, file, append_mode, history>>

\* fp.truncate(0): the position of fp stays where it was.
Truncate ==
    /\ pc = "truncate"
    /\ file' = <<>>
    /\ spoilt' = IF fp > 0 /\ ~append_mode THEN {"position"} ELSE {}
    /\ misnamed' = FALSE
    /\ pc' = "get"
    /\ UNCHANGED <<service, tracker, append_mode, processVars>>

-----------------------------------------------------------------------------
(* Key.get_file, with override_num_retries = 0.                            *)

\* open_read does nothing while there is a response.  Otherwise the answer
\* is of the version the service has now, and gives the key its etag.
OpenRead ==
    /\ pc = "get"
    /\ IF resp # NoResponse
       THEN UNCHANGED <<resp, key_etag, history>>
       ELSE /\ start < Size[object] \/ start = 0
            /\ resp' = [version |-> object, next |-> start + 1,
                        last |-> IF start > 0 /\ Size[key_etag] < Size[object]
                                 THEN Size[key_etag] ELSE Size[object]]
            /\ key_etag' = object
            /\ misnamed' = IF file = <<>> THEN object # tracker ELSE misnamed
            /\ spoilt' = spoilt \cup
                  (IF again /\ file # <<>> THEN {"pipe"} ELSE {}) \cup
                  (IF start > 0 /\ object # key_etag THEN {"replaced"} ELSE {})
    /\ pc' = "read"
    /\ UNCHANGED <<service, file, tracker, append_mode, etag_value, fp, start, again,
                   countVars>>

\* A write at fp, or at the end of a file opened to append.
Written(f, b) ==
    IF append_mode \/ fp <= Len(f) THEN Append(f, b)
    ELSE [n \in 1..fp + 1 |-> IF n <= Len(f) THEN f[n] ELSE IF n <= fp THEN Hole ELSE b]

ReadChunk ==
    /\ pc = "read"
    /\ resp.next <= resp.last
    /\ Len(file) < MaxFile /\ fp < MaxFile
    /\ file' = Written(file, Byte(resp.version, resp.next))
    /\ fp' = Len(file')
    /\ resp' = [resp EXCEPT !.next = @ + 1]
    /\ UNCHANGED <<service, tracker, append_mode, pc, etag_value, key_etag, start, again,
                   countVars, history>>

\* No more data: the end of the body, or of a connection that was closed in
\* it, which read() does not tell apart.  get_file closes the key.
ReadEnds ==
    /\ pc = "read"
    /\ resp' = NoResponse
    /\ pc' = IF again THEN "retry" ELSE "done"
    /\ again' = FALSE
    /\ UNCHANGED <<service, file, tracker, append_mode, etag_value, key_etag, fp, start,
                   countVars, history>>

\* An exception to retry, from the request or the body.
GetFails ==
    /\ pc \in {"get", "read"}
    /\ ~again
    /\ pc' = "retry"
    /\ UNCHANGED <<service, file, tracker, append_mode, processVars, history>>

\* EPIPE: get_file is called again in the except clause, without the Range.
BrokenPipe ==
    /\ pc \in {"get", "read"}
    /\ ~again
    /\ again' = TRUE
    /\ start' = 0
    /\ pc' = "get"
    /\ UNCHANGED <<service, file, tracker, append_mode, etag_value, key_etag, resp, fp,
                   countVars, history>>

\* An exception not to retry (an error status, a full disk), or any in the
\* except clause: raised, and the tracker file is kept.
GetRaises ==
    /\ pc \in {"get", "read"}
    /\ End("raised")
    /\ UNCHANGED <<service, file, tracker, append_mode, history>>

-----------------------------------------------------------------------------
Return ==
    /\ pc = "done"
    /\ tracker' = NoEtag
    /\ End("returned")
    /\ UNCHANGED <<service, file, append_mode, history>>

\* Fault: an attempt without progress is not counted.
JudgeUncounted ==
    /\ pc = "retry"
    /\ pc' = "close"
    /\ UNCHANGED <<service, file, tracker, append_mode, processVars, history>>

\* Progress is a file that has grown.  Giving up keeps the tracker file.
JudgeProgress ==
    LET count == IF Len(file) > had_file_bytes_before_attempt
                 THEN 0 ELSE progress_less_iterations + 1
    IN  /\ pc = "retry"
        /\ IF count > NumRetries
           THEN End("raised")
           ELSE /\ progress_less_iterations' = count
                /\ pc' = "close"
                /\ UNCHANGED <<etag_value, key_etag, resp, fp, start, again,
                               had_file_bytes_before_attempt>>
        /\ UNCHANGED <<service, file, tracker, append_mode, history>>

\* key.close() reads the body to its end.  IncompleteRead is ignored, and
\* leaves the key with a response that has ended; other exceptions escape.
CloseKey ==
    /\ pc = "close"
    /\ \/ /\ resp' = NoResponse
          /\ pc' = "attempt"
          /\ UNCHANGED <<etag_value, key_etag, fp, start, again, countVars>>
       \/ /\ resp # NoResponse
          /\ resp' = [resp EXCEPT !.next = resp.last + 1]
          /\ pc' = "attempt"
          /\ UNCHANGED <<etag_value, key_etag, fp, start, again, countVars>>
       \/ resp # NoResponse /\ End("raised")
    /\ UNCHANGED <<service, file, tracker, append_mode, history>>

-----------------------------------------------------------------------------
(* The environment.                                                        *)

\* The process dies.  With the tracker file saved and the partial file not
\* yet truncated, the one names what the other is not.
Crash ==
    /\ ~Down
    /\ spoilt' = spoilt \cup (IF pc = "truncate" /\ file # <<>> THEN {"crash"} ELSE {})
    /\ End("idle")
    /\ UNCHANGED <<service, file, tracker, append_mode, misnamed>>

ReplaceObject ==
    /\ replacements < MaxReplacements
    /\ replacements' = replacements + 1
    /\ object' \in Version \ {object}
    /\ UNCHANGED <<file, tracker, append_mode, pc, processVars, history>>

\* The file may hold anything before the first download.
Init ==
    /\ object = 1
    /\ replacements = 0
    /\ file \in {<<>>, <<Hole>>}
    /\ tracker = NoEtag
    /\ append_mode \in BOOLEAN
    /\ pc = "idle"
    /\ etag_value = NoEtag
    /\ key_etag = NoEtag
    /\ resp = NoResponse
    /\ fp = 0
    /\ start = 0
    /\ again = FALSE
    /\ had_file_bytes_before_attempt = 0
    /\ progress_less_iterations = 0
    /\ misnamed = FALSE
    /\ spoilt = {}

GetFile ==
    \/ Resume \/ AlreadyComplete \/ LargerThanObject
    \/ SaveTracker \/ SaveTrackerFails \/ Truncate
    \/ OpenRead \/ ReadChunk \/ ReadEnds \/ GetFails \/ BrokenPipe \/ GetRaises
    \/ Return \/ JudgeProgress \/ CloseKey

Next == StartProcess \/ GetFile \/ Crash \/ ReplaceObject

\* A running process keeps running: a body ends or times out.
Spec == Init /\ [][Next]_vars /\ WF_vars(GetFile)

-----------------------------------------------------------------------------
(* Properties.                                                             *)

\* get_file returns with a part of one version of the object: resumptions,
\* in this process or a later one, join nothing else, but for five ways that
\* are named by spoilt (resumable_download_handler.py:176-222, 286-302).
\* Whether the part is the whole is left to the caller (lines 263-267).
ReturnsOneVersion ==
    pc = "returned" /\ spoilt = {} => \E v \in Version : IsPartOf(file, v)

\* A broken pipe is no different: "we need to close and reopen the key before
\* resuming the download" (resumable_download_handler.py:293-296), and yet the
\* whole object is asked for, and written after what is there already.
BrokenPipeIsResumed ==
    pc = "returned" /\ spoilt \subseteq {"pipe"} => \E v \in Version : IsPartOf(file, v)

\* get_file does not go on for ever (resumable_download_handler.py:318-333).
GetFileEnds == ~Down ~> Down
=============================================================================
