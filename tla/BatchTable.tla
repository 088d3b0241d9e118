----------------------------- MODULE BatchTable -----------------------------
(***************************************************************************)
(* BatchTable (boto/dynamodb2/table.py): the context manager that buffers  *)
(* puts and deletes, writes them in batches, and sends what the service    *)
(* has not processed again when the block is left.                         *)
(*                                                                         *)
(* A request with too many writes, or two for one key, is refused; any     *)
(* other may raise after the service has processed some of its writes.     *)
(***************************************************************************)
EXTENDS DynamoTable, Sequences, SequencesExt, FiniteSets

CONSTANTS MaxBatch,    \* writes in a request: 25
          MaxWrites    \* bound: writes the block issues

ASSUME BatchTableAssumption ==
    /\ MaxBatch \in Nat \ {0}
    /\ MaxWrites \in Nat

VARIABLES
    block,         \* open, flush, resend (in __exit__), exited, raised, over
    to_put, to_delete,
    unprocessed,   \* _unprocessed
    issued,        \* history: the writes the block has asked for
    applied,       \* history: those the service has processed
    sent_back      \* history: those it has returned as unprocessed

bufferVars == <<to_put, to_delete>>
historyVars == <<issued, applied, sent_back>>
batchVars == <<block, bufferVars, unprocessed, historyVars>>

Write == [kind : {"put", "delete"}, key : Key]

\* A write is known by its place in issued.
Issued == 1..Len(issued)

BatchTypeOK ==
    /\ TableTypeOK
    /\ block \in {"open", "flush", "resend", "exited", "raised", "over"}
    /\ to_put \in Seq(Issued)
    /\ to_delete \in Seq(Issued)
    /\ unprocessed \in Seq(Issued)
    /\ issued \in Seq(Write)
    /\ applied \subseteq Issued
    /\ sent_back \subseteq Issued

-----------------------------------------------------------------------------
(* The service.                                                            *)

KeyOf(w) == issued'[w].key

Refused(request) ==
    \/ Len(request) > MaxBatch
    \/ \E m, n \in 1..Len(request) : m # n /\ KeyOf(request[m]) = KeyOf(request[n])

\* The writes of a set, at most one for each key, take effect.
Apply(writes) ==
    /\ table' = [k \in Key |->
           IF \E w \in writes : KeyOf(w) = k
           THEN LET w == CHOOSE w \in writes : KeyOf(w) = k
                IN  IF issued'[w].kind = "put" THEN w ELSE Absent
           ELSE table[k]]
    /\ applied' = applied \cup writes

-----------------------------------------------------------------------------
\* Fault: what came back before is forgotten.
HandleUnprocessedLast(kept, back, request) == unprocessed' = back

\* Fault: the whole request is stowed.
HandleUnprocessedAll(kept, back, request) ==
    unprocessed' = IF back = <<>> THEN kept ELSE kept \o request

\* handle_unprocessed: what came back is stowed behind what is kept.
HandleUnprocessed(kept, back, request) == unprocessed' = kept \o back

Orders(writes) ==
    {s \in [1..Cardinality(writes) -> writes] : \A w \in writes : \E n \in DOMAIN s : s[n] = w}

\* batch_write_item: the service has processed some of the writes, and says,
\* in any order, which it has not.
Processed(request, kept) ==
    /\ ~Refused(request)
    /\ \E done \in SUBSET ToSet(request) :
          /\ Apply(done)
          /\ \E back \in Orders(ToSet(request) \ done) :
                HandleUnprocessed(kept, back, request)
          /\ sent_back' = sent_back \cup (ToSet(request) \ done)

\* batch_write_item raises.
Fails(request) ==
    /\ \/ \E done \in SUBSET ToSet(request) : ~Refused(request) /\ Apply(done)
       \/ UNCHANGED <<table, applied>>
    /\ UNCHANGED sent_back

\* flush: the puts, then the deletes; an exception leaves them buffered.
FlushOf(puts, deletes) ==
    LET request == puts \o deletes
    IN  \/ /\ Processed(request, unprocessed)
           /\ to_put' = <<>>
           /\ to_delete' = <<>>
           /\ block' = IF block = "flush" THEN "resend" ELSE block
        \/ /\ Fails(request)
           /\ to_put' = puts
           /\ to_delete' = deletes
           /\ block' = IF block = "flush" THEN "raised" ELSE block
           /\ UNCHANGED unprocessed

\* put_item and delete_item; should_flush is an equality.
Buffer(puts, deletes) ==
    IF Len(puts) + Len(deletes) = MaxBatch
    THEN FlushOf(puts, deletes)
    ELSE /\ to_put' = puts
         /\ to_delete' = deletes
         /\ UNCHANGED <<table, block, unprocessed, applied, sent_back>>

Issue(kind) ==
    /\ block = "open"
    /\ Len(issued) < MaxWrites
    /\ \E k \in Key : issued' = Append(issued, [kind |-> kind, key |-> k])

PutItem == Issue("put") /\ Buffer(Append(to_put, Len(issued) + 1), to_delete)

DeleteItem == Issue("delete") /\ Buffer(to_put, Append(to_delete, Len(issued) + 1))

\* The block is left, whether by an exception or not: __exit__.
Exit ==
    /\ block = "open"
    /\ block' = IF to_put = <<>> /\ to_delete = <<>> THEN "resend" ELSE "flush"
    /\ UNCHANGED <<table, bufferVars, unprocessed, historyVars>>

FlushRest ==
    /\ block = "flush"
    /\ UNCHANGED issued
    /\ FlushOf(to_put, to_delete)

\* resend_unprocessed: a chunk leaves the list before it is sent.
ResendUnprocessed ==
    /\ block = "resend"
    /\ unprocessed # <<>>
    /\ UNCHANGED <<bufferVars, issued>>
    /\ LET n == IF Len(unprocessed) < MaxBatch THEN Len(unprocessed) ELSE MaxBatch
           request == SubSeq(unprocessed, 1, n)
           kept == SubSeq(unprocessed, n + 1, Len(unprocessed))
       IN  \/ Processed(request, kept) /\ UNCHANGED block
           \/ Fails(request) /\ block' = "raised" /\ unprocessed' = kept

ExitReturns ==
    /\ block = "resend"
    /\ unprocessed = <<>>
    /\ block' = "exited"
    /\ UNCHANGED <<table, bufferVars, unprocessed, historyVars>>

BatchInit ==
    /\ TableInit
    /\ block = "open"
    /\ to_put = <<>>
    /\ to_delete = <<>>
    /\ unprocessed = <<>>
    /\ issued = <<>>
    /\ applied = {}
    /\ sent_back = {}

BatchNext ==
    PutItem \/ DeleteItem \/ Exit \/ FlushRest \/ ResendUnprocessed \/ ExitReturns

-----------------------------------------------------------------------------
(* Properties.                                                             *)

\* A block that is left without an exception has written everything it was
\* asked to, whatever came back unprocessed and whichever flush raised
\* before (table.py:1609-1723).
NothingIsLost == block = "exited" => applied = Issued

\* At the end the item of a key is that of the last write to the key, or of
\* one the service sent back and the block sent again after later writes
\* (table.py:1691-1723).
StaleOnlyIfSentBack ==
    block = "exited" =>
        \A w \in Issued :
           (\A u \in Issued : issued[u].key = issued[w].key => u <= w)
              => \/ table[issued[w].key] = (IF issued[w].kind = "put" THEN w ELSE Absent)
                 \/ \E u \in sent_back : u < w /\ issued[u].key = issued[w].key
=============================================================================
