--------------------------- MODULE GlacierUploader ---------------------------
(***************************************************************************)
(* _Uploader (boto/glacier/writer.py): parts of one multipart upload, the  *)
(* list of their tree hashes, and the completion; with the upload as the   *)
(* service sees it.                                                        *)
(*                                                                         *)
(* The data of an archive is a stream of bytes, and a part the bytes from  *)
(* (inclusive) to (exclusive) of it.  Hashes are taken to be free of       *)
(* collisions: the hash of a part is the part.  A request that raises at   *)
(* the client may have been lost, or be under way and arrive at any time.  *)
(***************************************************************************)
EXTENDS Integers, Sequences

CONSTANTS PartSize,
          None        \* the hash of a part that has not been uploaded

ASSUME UploaderAssumption == PartSize \in Nat \ {0} /\ None \notin [from : Nat, to : Nat]

VARIABLES tree_hashes,    \* _tree_hashes
          uploaded_size,  \* _uploaded_size
          upload,         \* the upload at the service: open or completed
          stored,         \* the parts it holds, by index
          delayed         \* part requests under way that raised at the client

clientVars == <<tree_hashes, uploaded_size>>
serviceVars == <<upload, stored, delayed>>
uploaderVars == <<clientVars, serviceVars>>

Data == {d \in [from : Nat, to : Nat] : d.from < d.to}

Size(data) == data.to - data.from

Span(from, to) == [from |-> from, to |-> to]

UploaderTypeOK ==
    /\ tree_hashes \in Seq(Data \cup {None})
    /\ uploaded_size \in Nat
    /\ upload \in {"open", "completed"}
    /\ DOMAIN stored \subseteq Nat
    /\ \A k \in DOMAIN stored : stored[k] \in Data
    /\ delayed \subseteq [index : Nat, data : Data]

UploaderInit ==
    /\ tree_hashes = <<>>
    /\ uploaded_size = 0
    /\ upload = "open"
    /\ stored = [k \in {} |-> None]
    /\ delayed = {}

-----------------------------------------------------------------------------
(* The list of hashes.                                                     *)

\* _insert_tree_hash, before the assignment: a list extended by a negative
\* number of elements stays as it is.
Extended(hashes, index) ==
    IF index >= Len(hashes)
    THEN hashes \o [k \in 1..(Len(hashes) - index + 1) |-> None]
    ELSE hashes

\* Any other index raises an IndexError.  Writer and a resumption never meet
\* that, as they go up from 0 one by one.
HasSlot(index) == index < Len(Extended(tree_hashes, index))

InsertTreeHash(index, hash) ==
    /\ HasSlot(index)
    /\ tree_hashes' = [Extended(tree_hashes, index) EXCEPT ![index + 1] = hash]

-----------------------------------------------------------------------------
(* The service.                                                            *)

\* A part that is longer than the part size is refused.
Store(index, data) ==
    /\ upload = "open"
    /\ Size(data) <= PartSize
    /\ stored' = [k \in DOMAIN stored \cup {index} |-> IF k = index THEN data ELSE stored[k]]
    /\ UNCHANGED upload

\* The parts follow each other without a gap, and the tree hash and the size
\* of the request are those of the parts.
Acceptable ==
    LET last == Len(tree_hashes) - 1
    IN  /\ upload = "open"
        /\ DOMAIN stored = 0..last
        /\ \A k \in 0..last : tree_hashes[k + 1] = stored[k]
        /\ \A k \in 0..(last - 1) : Size(stored[k]) = PartSize
        /\ uploaded_size = last * PartSize + Size(stored[last])

\* A request that raised at the client arrives late.
DelayedPart(request) ==
    /\ request \in delayed
    /\ delayed' = delayed \ {request}
    /\ IF upload = "open" /\ Size(request.data) <= PartSize
       THEN Store(request.index, request.data)
       ELSE UNCHANGED <<upload, stored>>
    /\ UNCHANGED clientVars

-----------------------------------------------------------------------------
(* The methods.                                                            *)

\* upload_part returns.
UploadPart(index, data) ==
    /\ InsertTreeHash(index, data)
    /\ Store(index, data)
    /\ uploaded_size' = uploaded_size + Size(data)
    /\ UNCHANGED delayed

\* Fault: the hash is inserted only when the request has succeeded.
UploadPartRaisesFirst(index, data) ==
    /\ HasSlot(index)
    /\ delayed' \in {delayed, delayed \cup {[index |-> index, data |-> data]}}
    /\ UNCHANGED <<clientVars, upload, stored>>

\* upload_part raises in the request: the hash is in its place already.
UploadPartRaises(index, data) ==
    /\ InsertTreeHash(index, data)
    /\ delayed' \in {delayed, delayed \cup {[index |-> index, data |-> data]}}
    /\ UNCHANGED <<uploaded_size, upload, stored>>

\* skip_part
SkipPart(index, data) ==
    /\ InsertTreeHash(index, data)
    /\ uploaded_size' = uploaded_size + Size(data)
    /\ UNCHANGED serviceVars

\* close: the service completes the upload.
CloseCompletes ==
    /\ \A k \in 1..Len(tree_hashes) : tree_hashes[k] # None
    /\ tree_hashes # <<>>
    /\ Acceptable
    /\ upload' = "completed"
    /\ UNCHANGED <<clientVars, stored, delayed>>

\* close raises: an index is missing, the tree hash of no parts is an
\* IndexError, or the request raises, with the upload completed or not.
CloseRaises ==
    \/ UNCHANGED uploaderVars
    \/ CloseCompletes

-----------------------------------------------------------------------------
(* The archive of a completed upload.                                      *)

Least(m, n) == IF m < n THEN m ELSE n

PartOf(k, total) == Span(k * PartSize, Least((k + 1) * PartSize, total))

Parts(total) == {k \in 0..total : k * PartSize < total}

\* The parts at the service are those of the first `total' bytes.
WholeArchive(total) ==
    /\ DOMAIN stored = Parts(total)
    /\ \A k \in Parts(total) : stored[k] = PartOf(k, total)
=============================================================================
