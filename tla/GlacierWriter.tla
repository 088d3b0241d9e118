---------------------------- MODULE GlacierWriter ----------------------------
(***************************************************************************)
(* Writer, its _Partitioner and resume_file_upload                         *)
(* (boto/glacier/writer.py), with Vault.resume_archive_from_file around    *)
(* the latter: a program writes a file's bytes in pieces of any length,    *)
(* goes on or closes again after an exception if it likes, may end at any  *)
(* time, and a later one resumes the upload with the file.                 *)
(*                                                                         *)
(* What the writer buffers is always the end of what was written: the      *)
(* bytes from `taken' to `written'.                                        *)
(***************************************************************************)
EXTENDS GlacierUploader, FiniteSets

CONSTANTS NumChars,   \* the file's characters
          Wide,       \* those that take two bytes in UTF-8
          MaxWrite    \* bound: bytes in one write

ASSUME WriterAssumption == NumChars \in Nat /\ Wide \subseteq 1..NumChars /\ MaxWrite \in Nat

VARIABLES op,               \* what the program does next
          written,          \* bytes given to write()
          taken,            \* bytes the partitioner has taken from its buffer
          next_part_index,
          closed,
          trouble,          \* the worst that has happened to the writer's caller
          part_hash_map,    \* of a resumption: the parts listed at its start
          part_index,       \* of a resumption
          late              \* a delayed part has arrived since then

writerVars == <<written, taken, next_part_index, closed, trouble>>
resumeVars == <<part_hash_map, part_index, late>>
archiveVars == <<op, writerVars, resumeVars, uploaderVars>>

\* idle: between calls   write, flush: parts to send   complete: in close()
\* down: the program is gone   resume: a part to go   resume_close: all done
Op == {"idle", "write", "flush", "complete", "down", "resume", "resume_close", "resumed"}

\* close: a close() has raised   write: a write() has raised, or was called
\* after a close() that did
Trouble == {"none", "close", "write"}

\* The file's first n characters in bytes.
Offset(n) == n + Cardinality({c \in Wide : c <= n})

FileSize == Offset(NumChars)

TypeOK ==
    /\ UploaderTypeOK
    /\ op \in Op
    /\ written \in Nat
    /\ taken \in 0..written
    /\ next_part_index \in Nat
    /\ closed \in BOOLEAN
    /\ trouble \in Trouble
    /\ DOMAIN part_hash_map \subseteq Nat
    /\ \A k \in DOMAIN part_hash_map : part_hash_map[k] \in Data
    /\ part_index \in Nat
    /\ late \in BOOLEAN

WriterInit ==
    /\ UploaderInit
    /\ op = "idle"
    /\ written = 0
    /\ taken = 0
    /\ next_part_index = 0
    /\ closed = FALSE
    /\ trouble = "none"
    /\ part_hash_map = [k \in {} |-> None]
    /\ part_index = 0
    /\ late = FALSE

-----------------------------------------------------------------------------
(* The writer.                                                             *)

\* _send_part: the first part_size bytes of the buffer.
NextPart == Span(taken, Least(taken + PartSize, written))

\* write, up to its loop.
Write(n) ==
    /\ op = "idle" /\ ~closed
    /\ written + n <= FileSize
    /\ written' = written + n
    /\ op' = IF written' - taken > PartSize THEN "write" ELSE "idle"
    /\ trouble' = IF trouble = "close" THEN "write" ELSE trouble
    /\ UNCHANGED <<taken, next_part_index, closed, resumeVars, uploaderVars>>

\* close, up to flush.
Close ==
    /\ op = "idle" /\ ~closed
    /\ op' = IF taken < written THEN "flush" ELSE "complete"
    /\ UNCHANGED <<writerVars, resumeVars, uploaderVars>>

\* _send_part returns: write goes on while more than a part is left, and
\* flush sends one part.
SendPart ==
    /\ op \in {"write", "flush"}
    /\ UploadPart(next_part_index, NextPart)
    /\ taken' = NextPart.to
    /\ next_part_index' = next_part_index + 1
    /\ op' = IF op = "flush" THEN "complete"
             ELSE IF written - taken' > PartSize THEN "write" ELSE "idle"
    /\ UNCHANGED <<written, closed, trouble, resumeVars>>

\* _send_part raises: the part has left the buffer, and the next one will
\* have its index.
SendPartRaises ==
    /\ op \in {"write", "flush"}
    /\ UploadPartRaises(next_part_index, NextPart)
    /\ taken' = NextPart.to
    /\ op' = "idle"
    /\ trouble' = IF op = "write" \/ trouble = "write" THEN "write" ELSE "close"
    /\ UNCHANGED <<written, next_part_index, closed, resumeVars>>

\* The end of close.
Complete ==
    /\ op = "complete"
    /\ CloseCompletes
    /\ op' = "idle"
    /\ closed' = TRUE
    /\ UNCHANGED <<written, taken, next_part_index, trouble, resumeVars>>

CompleteRaises ==
    /\ op = "complete"
    /\ CloseRaises
    /\ op' = "idle"
    /\ trouble' = IF trouble = "none" THEN "close" ELSE trouble
    /\ UNCHANGED <<written, taken, next_part_index, closed, resumeVars>>

\* The program ends, or gives up its writer.
Crash ==
    /\ op \in {"idle", "write", "flush", "complete"} /\ ~closed
    /\ op' = "down"
    /\ UNCHANGED <<writerVars, resumeVars, uploaderVars>>

-----------------------------------------------------------------------------
(* A resumption.                                                           *)

\* list_all_parts, and a new _Uploader.
Resume ==
    /\ op = "down"
    /\ upload = "open"
    /\ op' = IF NumChars = 0 THEN "resume_close" ELSE "resume"
    /\ part_hash_map' = stored
    /\ part_index' = 0
    /\ late' = FALSE
    /\ tree_hashes' = <<>>
    /\ uploaded_size' = 0
    /\ UNCHANGED <<writerVars, serviceVars>>

\* Fault: the characters are not encoded.
FilePartUnencoded(k) == Span(k * PartSize, Least((k + 1) * PartSize, NumChars))

\* generate_parts_from_fobj: part_size characters, encoded.
FilePart(k) == Span(Offset(k * PartSize), Offset(Least((k + 1) * PartSize, NumChars)))

\* Fault: the hashes are not compared.
KnownByIndex(k) == k \in DOMAIN part_hash_map

\* The service has this part of the file.
Known(k) == k \in DOMAIN part_hash_map /\ part_hash_map[k] = FilePart(k)

ResumeContinues ==
    /\ part_index' = part_index + 1
    /\ op' = IF (part_index + 1) * PartSize < NumChars THEN "resume" ELSE "resume_close"
    /\ UNCHANGED <<writerVars, part_hash_map, late>>

ResumeUploads ==
    /\ op = "resume"
    /\ ~Known(part_index)
    /\ UploadPart(part_index, FilePart(part_index))
    /\ ResumeContinues

\* Fault: what the service lists is skipped, with the hash listed.
ResumeSkipsListed ==
    /\ op = "resume"
    /\ part_index \in DOMAIN part_hash_map
    /\ SkipPart(part_index, part_hash_map[part_index])
    /\ ResumeContinues

ResumeSkips ==
    /\ op = "resume"
    /\ Known(part_index)
    /\ SkipPart(part_index, FilePart(part_index))
    /\ ResumeContinues

\* A request raises, or the text cannot be encoded: a byte string that is not
\* ASCII, or any byte string in Python 3.
ResumeRaises ==
    /\ op = "resume"
    /\ op' = "down"
    /\ \/ ~Known(part_index) /\ UploadPartRaises(part_index, FilePart(part_index))
       \/ UNCHANGED uploaderVars
    /\ UNCHANGED <<writerVars, resumeVars>>

ResumeCompletes ==
    /\ op = "resume_close"
    /\ \/ CloseCompletes /\ op' = "resumed"
       \/ CloseRaises /\ op' = "down"
    /\ UNCHANGED <<writerVars, resumeVars>>

Arrive ==
    /\ \E request \in delayed : DelayedPart(request)
    /\ late' = TRUE
    /\ UNCHANGED <<op, writerVars, part_hash_map, part_index>>

WriterNext ==
    \/ \E n \in 1..MaxWrite : Write(n)
    \/ Close \/ SendPart \/ SendPartRaises \/ Complete \/ CompleteRaises \/ Crash
    \/ Resume \/ ResumeUploads \/ ResumeSkips \/ ResumeRaises \/ ResumeCompletes
    \/ Arrive

-----------------------------------------------------------------------------
(* Properties.                                                             *)

\* However often close() is tried again, the upload is completed only with
\* every byte that was written - unless a write() had raised, or was called
\* after a close() that had (writer.py:63-79, 109-132, 146-158).
ClosedIsWhole ==
    upload = "completed" /\ op \in {"idle", "complete"} /\ trouble # "write" =>
        WholeArchive(written)

\* A resumption completes the archive of the file, whatever the earlier
\* program had left at the service and whatever of it arrives late
\* (writer.py:171-203).
ResumedIsWhole == op = "resumed" => WholeArchive(FileSize)

\* A resumption that has gone through the file will be accepted: what it has
\* skipped is what the service holds (writer.py:192-199).
ResumeIsAccepted ==
    /\ op = "resume_close" /\ ~late
    /\ NumChars > 0
    /\ DOMAIN stored \subseteq Parts(FileSize)
    => Acceptable
=============================================================================
