----------------------------- MODULE ResultSet -----------------------------
(***************************************************************************)
(* ResultSet and BatchGetResultSet (boto/dynamodb2/results.py): iterators  *)
(* that fetch a page when they run out of results, over Table._query,      *)
(* _scan and _batch_get (table.py); and Table.query_count, which adds up   *)
(* the pages itself.                                                       *)
(*                                                                         *)
(* call:  idle      the user may ask for the next result                   *)
(*        fetch     in fetch_more, or before it                            *)
(*        yield     __next__ has a result                                  *)
(*        count     in the loop of query_count                             *)
(*        stopped   StopIteration, or query_count has returned             *)
(***************************************************************************)
EXTENDS DynamoTable, Sequences, FiniteSets, SequencesExt

CONSTANTS Matching,     \* the keys whose items pass the query filter
          NoKey, None,
          Limits,       \* what limit and max_page_size may be, besides None
          MaxBatchGet   \* max_batch_get

ASSUME ResultSetAssumption ==
    /\ Matching \subseteq Key
    /\ NoKey \notin Key /\ None \notin Nat
    /\ Limits \subseteq Nat \ {0}
    /\ MaxBatchGet \in Nat \ {0}

VARIABLES
    query,         \* none, scan, batch_get or count
    call,
    results, offset, results_left, last_key_seen, limit, max_page_size,
    keys_left, count_buffer,
    asked,         \* history: limit or keys, as first given
    returned,      \* history: the results the user has had
    dropped,       \* history: unprocessed keys of pages that came back empty
    raised         \* history: keys of requests that raised

pageVars == <<results, offset, results_left, last_key_seen, max_page_size, keys_left, dropped, raised>>
resultVars == <<query, call, pageVars, limit, count_buffer, asked, returned>>

ResultTypeOK ==
    /\ query \in {"none", "scan", "batch_get", "count"}
    /\ call \in {"idle", "fetch", "yield", "count", "stopped"}
    /\ results \in Seq(Key)
    /\ offset \in Int
    /\ results_left \in BOOLEAN
    /\ last_key_seen \in Key \cup {NoKey}
    /\ limit \in Nat \cup {None}
    /\ max_page_size \in Nat \cup {None}
    /\ keys_left \in Seq(Key)
    /\ count_buffer \in Nat
    /\ returned \in Seq(Key)
    /\ dropped \subseteq Key
    /\ raised \subseteq Key

Ordered(keys) ==
    CHOOSE s \in [1..Cardinality(keys) -> keys] : \A m, n \in DOMAIN s : m < n => s[m] < s[n]

-----------------------------------------------------------------------------
(* The service.                                                            *)

NotEvaluated == {k \in Present : last_key_seen = NoKey \/ k > last_key_seen}

Evaluated(last) == {k \in NotEvaluated : last = NoKey \/ k <= last}

\* The page after last_key_seen evaluates some of the items, from the first
\* on and at most as many as asked for, and has those that match.  Its last
\* key may be that of the last item there is.
Pages(most) ==
    {[results |-> Ordered(Evaluated(last) \cap Matching), last_key |-> last] :
       last \in {l \in NotEvaluated \cup {NoKey} :
                   most # None => Cardinality(Evaluated(l)) <= most}}

-----------------------------------------------------------------------------
(* The iterator.                                                           *)

\* query_2 or scan, with to_call.
StartScan ==
    /\ query = "none"
    /\ query' = "scan"
    /\ limit' \in Limits \cup {None}
    /\ asked' = limit'
    /\ max_page_size' \in Limits \cup {None}
    /\ UNCHANGED <<table, call, results, offset, results_left, last_key_seen, keys_left,
                   count_buffer, returned, dropped, raised>>

\* batch_get: the keys are different ones.
StartBatchGet ==
    /\ query = "none"
    /\ query' = "batch_get"
    /\ \E keys \in SUBSET Key : asked' = keys /\ keys_left' = Ordered(keys)
    /\ UNCHANGED <<table, call, results, offset, results_left, last_key_seen, limit,
                   max_page_size, count_buffer, returned, dropped, raised>>

\* __next__: from the page, by a fetch, or StopIteration.
NextCalled ==
    /\ query \in {"scan", "batch_get"}
    /\ call = "idle"
    /\ offset' = offset + 1
    /\ call' = IF offset' < Len(results) THEN "yield"
               ELSE IF results_left THEN "fetch" ELSE "stopped"
    /\ UNCHANGED <<table, query, results, results_left, last_key_seen, limit, max_page_size,
                   keys_left, count_buffer, asked, returned, dropped, raised>>

\* Fault: __next__ fetches once.
AfterFetchOnce(page, left) == IF page # <<>> THEN "yield" ELSE "stopped"

\* __next__ fetches until there is something, or no more pages.
AfterFetch(page, left) ==
    IF page # <<>> THEN "yield" ELSE IF left THEN "fetch" ELSE "stopped"

\* max_page_size is lowered to what is left of the limit.
PageSize ==
    IF limit # None /\ max_page_size # None /\ limit # 0 /\ max_page_size > limit
    THEN limit ELSE max_page_size

\* ResultSet.fetch_more.
FetchMore ==
    /\ query = "scan"
    /\ call = "fetch"
    /\ offset' = 0
    /\ max_page_size' = PageSize
    /\ \E page \in Pages(IF PageSize # None THEN PageSize ELSE limit) :
          /\ results' = page.results
          /\ last_key_seen' = page.last_key
          /\ results_left' = /\ results_left
                             /\ limit # None => limit > Len(page.results)
                             /\ last_key_seen' # NoKey
          /\ call' = AfterFetch(results', results_left')
    /\ UNCHANGED <<table, query, limit, keys_left, count_buffer, asked, returned, dropped, raised>>

\* The call raises: the iterator can be asked again.
FetchRaises ==
    /\ query = "scan"
    /\ call = "fetch"
    /\ offset' = 0
    /\ results' = <<>>
    /\ max_page_size' = PageSize
    /\ call' = "idle"
    /\ UNCHANGED <<table, query, results_left, last_key_seen, limit, keys_left, count_buffer,
                   asked, returned, dropped, raised>>

\* Fault: keys that were not processed are not put back.
PutBackNone(unprocessed, rest) == rest

\* Unprocessed keys go before those that are left.
PutBack(unprocessed, rest) == unprocessed \o rest

\* BatchGetResultSet.fetch_more: the keys leave the list and results_left is
\* set before the call.  The service processes at least one key; when none
\* of those has an item the method returns before it puts the rest back.
FetchMoreKeys ==
    LET n == IF Len(keys_left) < MaxBatchGet THEN Len(keys_left) ELSE MaxBatchGet
        keys == SubSeq(keys_left, 1, n)
        rest == SubSeq(keys_left, n + 1, Len(keys_left))
    IN  /\ query = "batch_get"
        /\ call = "fetch"
        /\ offset' = 0
        /\ last_key_seen' = last_key_seen
        /\ \/ \E done \in SUBSET ToSet(keys) :
                 LET back == Ordered(ToSet(keys) \ done)
                     found == Ordered(done \cap Present)
                 IN  /\ done # {} \/ keys = <<>>
                     /\ results' = found
                     /\ keys_left' = IF found = <<>> THEN rest ELSE PutBack(back, rest)
                     /\ results_left' = (keys_left' # <<>>)
                     /\ dropped' = IF found = <<>> THEN dropped \cup ToSet(back) ELSE dropped
                     /\ UNCHANGED raised
                     /\ call' = AfterFetch(results', results_left')
           \/ /\ results' = <<>>
              /\ keys_left' = rest
              /\ results_left' = (rest # <<>>)
              /\ raised' = raised \cup ToSet(keys)
              /\ UNCHANGED dropped
              /\ call' = "idle"
        /\ UNCHANGED <<table, query, limit, max_page_size, count_buffer, asked, returned>>

\* The limit counts results; a result past it is not returned.
Yield ==
    /\ call = "yield"
    /\ IF limit = 0
       THEN call' = "stopped" /\ UNCHANGED <<limit, returned>>
       ELSE /\ call' = "idle"
            /\ limit' = IF limit = None THEN None ELSE limit - 1
            /\ returned' = Append(returned, results[offset + 1])
    /\ UNCHANGED <<table, query, pageVars, count_buffer, asked>>

-----------------------------------------------------------------------------
StartCount ==
    /\ query = "none"
    /\ query' = "count"
    /\ call' = "count"
    /\ UNCHANGED <<table, pageVars, limit, count_buffer, asked, returned>>

\* Fault: a page without a match is the last.
LastPageWithoutMatch(page) == page.last_key = NoKey \/ page.results = <<>>

\* Fault: a page is the last only if something was found.
LastPageIfFound(page) == page.last_key = NoKey /\ count_buffer + Len(page.results) > 0

\* `not last_evaluated_key or count_buffer < 1'.
LastPage(page) == page.last_key = NoKey \/ count_buffer + Len(page.results) = 0

CountPage ==
    /\ call = "count"
    /\ \E page \in Pages(None) :
          /\ count_buffer' = count_buffer + Len(page.results)
          /\ last_key_seen' = page.last_key
          /\ call' = IF LastPage(page) THEN "stopped" ELSE "count"
    /\ UNCHANGED <<table, query, results, offset, results_left, limit, max_page_size,
                   keys_left, asked, returned, dropped, raised>>

ResultInit ==
    /\ query = "none"
    /\ call = "idle"
    /\ results = <<>>
    /\ offset = -1
    /\ results_left = TRUE
    /\ last_key_seen = NoKey
    /\ limit = None
    /\ max_page_size = None
    /\ keys_left = <<>>
    /\ count_buffer = 0
    /\ asked = None
    /\ returned = <<>>
    /\ dropped = {}
    /\ raised = {}

\* The steps of a call.
CallStep == FetchMore \/ FetchRaises \/ FetchMoreKeys \/ Yield \/ CountPage

Start == StartScan \/ StartBatchGet \/ StartCount

-----------------------------------------------------------------------------
(* Properties.                                                             *)

\* A scan gives the matching items in order, each once, up to its limit,
\* whatever the pages and calls that raised (results.py:47-140).
ScanReturnsFirst ==
    query = "scan" =>
        LET all == Ordered(Present \cap Matching)
            most == IF asked # None /\ asked < Len(all) THEN asked ELSE Len(all)
        IN  /\ IsPrefix(returned, all)
            /\ call = "stopped" => Len(returned) = most

\* A batch_get gives the item of every key once, but for keys it has dropped
\* and those of calls that raised (results.py:164-204).
BatchReturnsRest ==
    query = "batch_get" =>
        /\ \A m, n \in 1..Len(returned) : m # n => returned[m] # returned[n]
        /\ call = "stopped" => ToSet(returned) = (asked \cap Present) \ (dropped \cup raised)

\* query_count is exact when it has found anything (table.py:1287-1309).
CountIsExactOrZero ==
    query = "count" /\ call = "stopped" =>
        count_buffer \in {0, Cardinality(Present \cap Matching)}

\* A call of the iterator returns, though pages may be empty
\* (results.py:62-68).
NextReturns == call \in {"fetch", "count"} ~> call \notin {"fetch", "count"}

\* "Returns a ResultSet, which transparently handles the pagination of
\* results you get back" (table.py:1519-1520): of a batch_get no call of which
\* raised, every item is returned.
EveryItemIsReturned ==
    query = "batch_get" /\ call = "stopped" /\ raised = {} =>
        ToSet(returned) = asked \cap Present
=============================================================================
