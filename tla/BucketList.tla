----------------------------- MODULE BucketList -----------------------------
(***************************************************************************)
(* Bucket.delete_keys (boto/s3/bucket.py) given the listing of its bucket, *)
(* the iterator of boto/s3/bucketlistresultset.py: pages are listed as the *)
(* batches of the deletion are filled, while other clients put and delete  *)
(* keys.                                                                   *)
(*                                                                         *)
(* deleting:  idle, list (bucket_lister has to fetch a page), fill (a      *)
(* batch is being filled), delete, returned, raised                        *)
(***************************************************************************)
EXTENDS Integers, FiniteSets

CONSTANTS Name,        \* names of keys, in the order of a listing
          NoMarker,
          PageSize,    \* most keys in a page
          BatchSize    \* keys in a batch: 1000

ASSUME BucketListAssumption ==
    /\ Name \subseteq Nat
    /\ NoMarker \notin Name
    /\ PageSize \in Nat \ {0} /\ BatchSize \in Nat \ {0}

VARIABLES
    bucket,         \* the keys there are
    deleting,
    page,           \* what is left of rs
    last_name,      \* k.name
    marker, more_results,
    batch,          \* the keys of the request
    errors,         \* result.errors
    there,          \* history: keys that have been there since the call
    requested       \* history: the keys of all requests

bucketVars == <<bucket, deleting, page, last_name, marker, more_results, batch, errors,
                there, requested>>

BucketTypeOK ==
    /\ bucket \subseteq Name
    /\ deleting \in {"idle", "list", "fill", "delete", "returned", "raised"}
    /\ page \subseteq Name
    /\ last_name \in Name \cup {NoMarker}
    /\ marker \in Name \cup {NoMarker}
    /\ more_results \in BOOLEAN
    /\ batch \subseteq Name
    /\ errors \subseteq Name
    /\ there \subseteq bucket
    /\ requested \subseteq Name

-----------------------------------------------------------------------------
DeleteKeys ==
    /\ deleting = "idle"
    /\ deleting' = "list"
    /\ there' = bucket
    /\ UNCHANGED <<bucket, page, last_name, marker, more_results, batch, errors, requested>>

After == {n \in bucket : marker = NoMarker \/ n > marker}

\* get_all_keys: the first keys after the marker; none may be in a page that
\* is truncated.
ListPage ==
    /\ deleting = "list"
    /\ more_results
    /\ \E first \in SUBSET After :
          /\ Cardinality(first) <= PageSize
          /\ \A m \in first, n \in After \ first : m < n
          /\ page' = first
          /\ more_results' = (first # After)
          /\ last_name' \in IF first = {} THEN {last_name}
                           ELSE {n \in first : \A m \in first : m <= n}
    /\ deleting' = "fill"
    /\ UNCHANGED <<bucket, marker, batch, errors, there, requested>>

\* The name of the last key.  (With a delimiter rs.next_marker is given.)
NextMarker == last_name

\* The page has been read: the next is listed, or the listing is over.
PageEnds ==
    /\ deleting = "fill"
    /\ page = {}
    /\ more_results
    /\ marker' = NextMarker
    /\ deleting' = "list"
    /\ UNCHANGED <<bucket, page, last_name, more_results, batch, errors, there, requested>>

\* The next key of the page.
TakeKey ==
    /\ deleting = "fill"
    /\ \E n \in page :
          /\ \A m \in page : n <= m
          /\ batch' = batch \cup {n}
          /\ page' = page \ {n}
    /\ deleting' = IF Cardinality(batch') = BatchSize THEN "delete" ELSE "fill"
    /\ UNCHANGED <<bucket, last_name, marker, more_results, errors, there, requested>>

\* StopIteration: a batch with no key is not sent.
ListEnds ==
    /\ deleting = "fill"
    /\ page = {}
    /\ ~more_results
    /\ deleting' = IF batch = {} THEN "returned" ELSE "delete"
    /\ UNCHANGED <<bucket, page, last_name, marker, more_results, batch, errors, there, requested>>

\* Fault: the last batch is the first that is full.
MoreBatchesUnlessFull == Cardinality(batch) < BatchSize

\* `return count >= 1000'.
MoreBatches == Cardinality(batch) >= BatchSize

\* Of each key the answer says that it is deleted, or why not.
PostBatch ==
    /\ deleting = "delete"
    /\ \E failed_keys \in SUBSET batch :
          /\ errors' = errors \cup failed_keys
          /\ bucket' = bucket \ (batch \ failed_keys)
    /\ there' = there \cap bucket'
    /\ requested' = requested \cup batch
    /\ batch' = {}
    /\ deleting' = IF MoreBatches THEN "fill" ELSE "returned"
    /\ UNCHANGED <<page, last_name, marker, more_results>>

\* A request raises; a batch may have been deleted.
DeletingRaises ==
    /\ deleting \in {"list", "delete"}
    /\ \E gone \in SUBSET batch :
          /\ deleting = "delete" \/ gone = {}
          /\ bucket' = bucket \ gone
          /\ there' = there \ gone
    /\ deleting' = "raised"
    /\ UNCHANGED <<page, last_name, marker, more_results, batch, errors, requested>>

\* Other clients.
PutKey ==
    /\ \E n \in Name \ bucket : bucket' = bucket \cup {n}
    /\ UNCHANGED <<deleting, page, last_name, marker, more_results, batch, errors,
                   there, requested>>

RemoveKey ==
    /\ \E n \in bucket : bucket' = bucket \ {n} /\ there' = there \ {n}
    /\ UNCHANGED <<deleting, page, last_name, marker, more_results, batch, errors, requested>>

BucketInit ==
    /\ bucket = {}
    /\ deleting = "idle"
    /\ page = {}
    /\ last_name = NoMarker
    /\ marker = NoMarker
    /\ more_results = TRUE
    /\ batch = {}
    /\ errors = {}
    /\ there = {}
    /\ requested = {}

BucketNext ==
    \/ DeleteKeys \/ ListPage \/ PageEnds \/ TakeKey \/ ListEnds \/ PostBatch
    \/ DeletingRaises \/ PutKey \/ RemoveKey

-----------------------------------------------------------------------------
(* Properties.                                                             *)

\* When delete_keys returns, a key that was there all the time is in the
\* errors of the result, however the pages and the batches are cut; and no key
\* is asked for twice (bucket.py:639-733, bucketlistresultset.py:24-41).
EveryKeyIsDeleted ==
    /\ deleting = "returned" => there \subseteq errors
    /\ page \cap (batch \cup requested) = {} /\ batch \cap requested = {}
=============================================================================
