--------------------------- MODULE ConnectionPool ---------------------------
(***************************************************************************)
(* The pool of HTTP connections that every AWSAuthConnection owns          *)
(* (boto/connection.py: HostConnectionPool and ConnectionPool).            *)
(*                                                                         *)
(* host_to_pool maps a remote, (host, port, is_secure) in the code and     *)
(* [host, is_secure] here, to a queue of (connection, return time) pairs.  *)
(* A connection enters the queue before its response body has been read,   *)
(* so the queue holds connections that are not ready for another request.  *)
(*                                                                         *)
(* Every method of ConnectionPool holds the mutex from its first access to *)
(* its last, so each critical section is one action; the clock is read     *)
(* once per critical section.                                              *)
(***************************************************************************)
EXTENDS Naturals, Sequences

CONSTANTS Conn,            \* http_client connection objects
          Host,            \* (host, port) of the servers
          STALE_DURATION,  \* seconds a pooled connection may be reused
          CLEAN_INTERVAL   \* seconds between two cleanings of all pools

ASSUME PoolAssumption == /\ STALE_DURATION \in Nat
                         /\ CLEAN_INTERVAL \in Nat

VARIABLES now,             \* time.time()
          host_to_pool,    \* [SUBSET Remote -> Seq(Pair)]
          last_clean_time,
          response         \* the response attached to each connection

poolVars == <<host_to_pool, last_clean_time>>

Remote == [host : Host, is_secure : BOOLEAN]

Pair == [conn : Conn, time : Nat]

\* http_client keeps the last response of a connection attached to it: none
\* before the first request, open until its body has been read to the end.
ResponseState == {"none", "open", "closed"}

-----------------------------------------------------------------------------
(* HostConnectionPool: operations on one queue of pairs.                   *)

First(S) == CHOOSE i \in S : \A j \in S : i <= j

\* Fault: a connection whose response is still being read counts as ready.
ConnReadyAlways(c) == c \in Conn

ConnReady(c) == response[c] # "open"

PairStale(pair) == pair.time + STALE_DURATION < now

\* Fault: `if' for `while' in HostConnectionPool.clean.
HostCleanOnce(queue) ==
    IF queue # <<>> /\ PairStale(queue[1]) THEN Tail(queue) ELSE queue

\* HostConnectionPool.clean: pop from the front while the front is stale.
HostClean(queue) ==
    LET fresh == {i \in 1..Len(queue) : ~PairStale(queue[i])}
    IN  IF fresh = {} THEN <<>> ELSE SubSeq(queue, First(fresh), Len(queue))

\* HostConnectionPool.put
HostPut(queue, c) == Append(queue, [conn |-> c, time |-> now])

Ready(queue) == {i \in 1..Len(queue) : ConnReady(queue[i].conn)}

Restamp(queue) ==
    [i \in 1..Len(queue) |-> [conn |-> queue[i].conn, time |-> now]]

\* Fault: get() leaves the connection it returns in the queue.
HostAfterPeek(queue) == Restamp(queue)

\* The loop of HostConnectionPool.get on a cleaned queue: the pairs in front
\* of the first ready one go to the back with the current time, the first
\* ready one leaves the queue; with no ready pair the queue turns once round.
HostAfterGet(queue) ==
    IF Ready(queue) = {}
    THEN Restamp(queue)
    ELSE LET r == First(Ready(queue))
         IN  SubSeq(queue, r + 1, Len(queue)) \o Restamp(SubSeq(queue, 1, r - 1))

-----------------------------------------------------------------------------
(* ConnectionPool: the critical sections.                                  *)

Pooled == {c \in Conn : \E key \in DOMAIN host_to_pool :
                          \E i \in 1..Len(host_to_pool[key]) :
                             host_to_pool[key][i].conn = c}

\* ConnectionPool.clean
PoolClean ==
    IF last_clean_time + CLEAN_INTERVAL < now
    THEN LET kept == {key \in DOMAIN host_to_pool :
                        HostClean(host_to_pool[key]) # <<>>}
         IN  /\ host_to_pool' = [key \in kept |-> HostClean(host_to_pool[key])]
             /\ last_clean_time' = now
    ELSE UNCHANGED poolVars

\* ConnectionPool.get_http_connection returns c, having cleaned the queue.
PoolGetHit(key, c) ==
    /\ key \in DOMAIN host_to_pool
    /\ LET queue == HostClean(host_to_pool[key])
       IN  /\ Ready(queue) # {}
           /\ c = queue[First(Ready(queue))].conn
           /\ host_to_pool' = [host_to_pool EXCEPT ![key] = HostAfterGet(queue)]
    /\ UNCHANGED last_clean_time

\* ConnectionPool.get_http_connection returns None.
PoolGetMiss(key) ==
    /\ \/ /\ key \notin DOMAIN host_to_pool
          /\ UNCHANGED host_to_pool
       \/ /\ key \in DOMAIN host_to_pool
          /\ LET queue == HostClean(host_to_pool[key])
             IN  /\ Ready(queue) = {}
                 /\ host_to_pool' = [host_to_pool EXCEPT ![key] = HostAfterGet(queue)]
    /\ UNCHANGED last_clean_time

\* ConnectionPool.put_http_connection
PoolPut(key, c) ==
    /\ host_to_pool' =
          [k \in DOMAIN host_to_pool \cup {key} |->
             IF k # key THEN host_to_pool[k]
             ELSE HostPut(IF k \in DOMAIN host_to_pool THEN host_to_pool[k]
                                                       ELSE <<>>, c)]
    /\ UNCHANGED last_clean_time

PoolInit ==
    /\ host_to_pool = [key \in {} |-> <<>>]
    /\ last_clean_time = 0
    /\ now = CLEAN_INTERVAL + 1   \* the epoch is long past: a clean is due
    /\ response = [c \in Conn |-> "none"]

PoolTypeOK ==
    /\ now \in Nat
    /\ last_clean_time \in Nat
    /\ DOMAIN host_to_pool \subseteq Remote
    /\ \A key \in DOMAIN host_to_pool : host_to_pool[key] \in Seq(Pair)
    /\ response \in [Conn -> ResponseState]
=============================================================================
