----------------------------- MODULE KeySender -----------------------------
(***************************************************************************)
(* Key.set_contents_from_file and set_contents_from_stream (boto/s3/key.py)*)
(* with the sender that _mexe calls for each attempt (module Mexe).  Calls *)
(* follow one another on one Key object.                                   *)
(*                                                                         *)
(* sending:  idle, attempt (the sender is about to be called), send (it    *)
(* writes the body), returned, raised                                      *)
(*                                                                         *)
(* A byte is its file and its place in it; a digest, the etag too, is the  *)
(* sequence of the bytes hashed.                                           *)
(***************************************************************************)
EXTENDS Integers, Sequences

CONSTANTS FileSize,       \* the sizes of the files that are sent, in order
          NoDigest,
          ChunkSize,      \* BufferSize
          SizeLimits,     \* what size may be; 0 is none
          SendRetries     \* num_retries

ASSUME KeySenderAssumption ==
    /\ FileSize \in Seq(Nat)
    /\ ChunkSize \in Nat \ {0}
    /\ SizeLimits \subseteq Nat
    /\ SendRetries \in Nat

VARIABLES
    s3_object,     \* the bytes of the object
    local_md5,     \* local_hashes['md5'], which outlives a call
    calls,         \* how many calls there were; the last sends that file
    how,           \* of the call: what it sends, whether the source can seek,
                   \* whether it is chunked, and the md5 in its headers
    sending, attempts,
    place,         \* fp.tell()
    read_from_stream,
    digester,      \* of the closure, NoDigest if there is none
    was            \* history: the object before the call

senderVars == <<s3_object, local_md5, calls, how, sending, attempts, place, read_from_stream,
                digester, was>>

Content(file) == [n \in 1..FileSize[file] |-> <<file, n>>]

Data == Seq((DOMAIN FileSize) \X Nat)

SenderTypeOK ==
    /\ s3_object \in Data
    /\ local_md5 \in Data \cup {NoDigest}
    /\ calls \in 0..Len(FileSize)
    /\ how \in [data : Data, from : Nat, seekable : BOOLEAN, chunked : BOOLEAN,
                content_md5 : Data \cup {NoDigest}]
    /\ sending \in {"idle", "attempt", "send", "returned", "raised"}
    /\ attempts \in 0..SendRetries
    /\ place \in Nat
    /\ read_from_stream \in BOOLEAN
    /\ digester \in Data \cup {NoDigest}
    /\ was \in Data

-----------------------------------------------------------------------------
\* The bytes from a place on, up to the size if there is one.
Part(file, from, size) ==
    SubSeq(Content(file), from + 1,
           IF size = 0 \/ from + size > FileSize[file] THEN FileSize[file] ELSE from + size)

\* _send_file_internal up to the request: there is a digester unless the key
\* has an md5, and that of a key is put into the headers.
BeginCall(from, data, seekable, chunked, md5) ==
    /\ calls' = calls + 1
    /\ local_md5' = md5
    /\ how' = [data |-> data, from |-> from, seekable |-> seekable, chunked |-> chunked,
               content_md5 |-> md5]
    /\ sending' = "attempt"
    /\ attempts' = 0
    /\ place' = from
    /\ read_from_stream' = FALSE
    /\ digester' = IF md5 = NoDigest THEN <<>> ELSE NoDigest
    /\ was' = s3_object
    /\ UNCHANGED s3_object

MayCall == sending \in {"idle", "returned", "raised"} /\ calls < Len(FileSize)

\* The md5 is computed first.  A file that is at its end is refused.
SetContentsFromFile ==
    /\ MayCall
    /\ \E from \in 0..FileSize[calls + 1], size \in SizeLimits :
          LET data == Part(calls + 1, from, size)
          IN  /\ from < FileSize[calls + 1] \/ from = 0
              /\ BeginCall(from, data, TRUE, FALSE, data)

\* Chunked, with the digest taken on the fly, unless the key has one, and
\* from where the source is.
SetContentsFromStream ==
    /\ MayCall
    /\ \E from \in 0..FileSize[calls + 1], size \in SizeLimits, seekable \in BOOLEAN :
          BeginCall(from, Part(calls + 1, from, size), seekable, TRUE, local_md5)

-----------------------------------------------------------------------------
(* The sender.                                                             *)

\* Fault: the source is read on from where it is.
RewindNever == UNCHANGED place

Rewind == place' = IF how.seekable THEN how.from ELSE place

BeginAttempt ==
    /\ sending = "attempt"
    /\ how.seekable \/ ~read_from_stream
    /\ Rewind
    /\ sending' = "send"
    /\ UNCHANGED <<s3_object, local_md5, calls, how, attempts, read_from_stream, digester, was>>

\* "Cannot retry failed request. fp does not support seeking."
CannotRetry ==
    /\ sending = "attempt"
    /\ ~how.seekable /\ read_from_stream
    /\ sending' = "raised"
    /\ UNCHANGED <<s3_object, local_md5, calls, how, attempts, place, read_from_stream,
                   digester, was>>

\* From where the source is to the end of what is to be sent.
Body == SubSeq(how.data, place - how.from + 1, Len(how.data))

Hashed(bytes) == digester' = IF digester = NoDigest THEN NoDigest ELSE digester \o bytes

\* _mexe tries again, or gives up.
Again ==
    IF attempts < SendRetries
    THEN sending' = "attempt" /\ attempts' = attempts + 1
    ELSE sending' = "raised" /\ UNCHANGED attempts

\* The connection breaks before anything is read.
ConnectFails ==
    /\ sending = "send"
    /\ Again
    /\ UNCHANGED <<s3_object, local_md5, calls, how, place, read_from_stream, digester, was>>

\* It breaks while a chunk is sent: the chunk was read and not hashed.
SendChunkFails ==
    /\ sending = "send"
    /\ \E n \in 0..Len(Body) :
          /\ n % ChunkSize = 0 /\ n < Len(Body)
          /\ Hashed(SubSeq(Body, 1, n))
          /\ place' = place + (IF n + ChunkSize < Len(Body) THEN n + ChunkSize
                              ELSE Len(Body))
    /\ read_from_stream' = ~how.seekable
    /\ Again
    /\ UNCHANGED <<s3_object, local_md5, calls, how, was>>

\* The body is sent, and the digest taken.
BodySent ==
    /\ sending = "send"
    /\ place' = place + Len(Body)
    /\ read_from_stream' = ~how.seekable
    /\ Hashed(Body)
    /\ local_md5' = IF digester = NoDigest THEN local_md5 ELSE digester'
    /\ UNCHANGED <<calls, how, was>>

\* A Content-MD5 that is not that of the body is refused, and so is a body
\* that is not as long as its Content-Length.
Accepted ==
    /\ how.content_md5 \in {NoDigest, Body}
    /\ how.chunked \/ Len(Body) = Len(how.data)

\* 200, and should_retry compares the etag.
Answered200 ==
    /\ BodySent
    /\ Accepted
    /\ s3_object' = Body
    /\ sending' = IF local_md5' = Body THEN "returned" ELSE "raised"
    /\ UNCHANGED attempts

\* No answer, 400 RequestTimeout, or, if it is not chunked, 500, 503 or a
\* redirect: tried again, though the object may have been stored.
AnswerLost ==
    /\ BodySent
    /\ s3_object' \in {s3_object, Body}
    /\ s3_object' = Body /\ s3_object # Body => Accepted
    /\ Again

\* Any other status.
AnsweredError ==
    /\ BodySent
    /\ s3_object' \in {s3_object, Body}
    /\ s3_object' = Body /\ s3_object # Body => Accepted
    /\ sending' = "raised"
    /\ UNCHANGED attempts

SenderInit ==
    /\ s3_object = <<>>
    /\ local_md5 = NoDigest
    /\ calls = 0
    /\ how = [data |-> <<>>, from |-> 0, seekable |-> TRUE, chunked |-> FALSE,
              content_md5 |-> NoDigest]
    /\ sending = "idle"
    /\ attempts = 0
    /\ place = 0
    /\ read_from_stream = FALSE
    /\ digester = NoDigest
    /\ was = <<>>

SenderNext ==
    \/ SetContentsFromFile \/ SetContentsFromStream
    \/ BeginAttempt \/ CannotRetry \/ ConnectFails \/ SendChunkFails
    \/ Answered200 \/ AnswerLost \/ AnsweredError

-----------------------------------------------------------------------------
(* Properties.                                                             *)

\* A call leaves the object as it was or makes it the whole of what it was
\* to send, whatever attempts broke off where, and returns only when it has
\* (key.py:767-902, 972-1025).
SendsTheWhole ==
    /\ s3_object \in {was, how.data}
    /\ sending = "returned" => s3_object = how.data
=============================================================================
