-------------------------------- MODULE Mexe --------------------------------
(***************************************************************************)
(* Threads that send requests through one AWSAuthConnection: the method    *)
(* _mexe (boto/connection.py), which takes a connection from the shared    *)
(* ConnectionPool or opens one, sends the request, and decides from the    *)
(* answer whether to return, to retry, to follow a redirect or to raise.   *)
(*                                                                         *)
(* A thread's program counter says what it does next:                      *)
(*   idle   no call in progress        clean  first section of get         *)
(*   get    second section of get      send   at the top of the loop       *)
(*   put    has a response to return   end    the loop is exhausted        *)
(*                                                                         *)
(* The server, the network and the callers that read response bodies are   *)
(* the environment: any answer may come at any attempt.                    *)
(***************************************************************************)
EXTENDS ConnectionPool, FiniteSets

CONSTANTS Thread,
          NoConn,       \* no connection object
          IsSecure,     \* self.is_secure
          NumRetries,   \* num_retries, the bound of the loop
          SessionStep,  \* attempts an expired session token counts for
          MaxHops,      \* bound: redirects the servers answer per request
          MaxTime       \* bound: the clock stops here

ASSUME MexeAssumption == /\ NoConn \notin Conn
                         /\ Host # {}
                         /\ IsSecure \in BOOLEAN
                         /\ NumRetries \in Nat
                         /\ SessionStep \in Nat \ {0}
                         /\ MaxHops \in Nat
                         /\ MaxTime \in Nat

VARIABLES pc, host, secure, connection,
          i,            \* attempts used
          hops,         \* redirects followed
          has_response, \* local `response' is not None
          has_ex,       \* local `ex' is not None
          outcome,      \* how the last call of the thread ended
          opened        \* the remote each connection object was opened to

callVars == <<pc, host, secure, connection, i, hops, has_response, has_ex, outcome>>

vars == <<now, host_to_pool, last_clean_time, response, opened, callVars>>

PC == {"idle", "clean", "get", "send", "put", "end"}

Outcome == {"none", "response", "raised", "server_error", "exception", "client_error"}

TypeOK ==
    /\ PoolTypeOK
    /\ pc \in [Thread -> PC]
    /\ host \in [Thread -> Host]
    /\ secure \in [Thread -> BOOLEAN]
    /\ connection \in [Thread -> Conn \cup {NoConn}]
    /\ i \in [Thread -> Nat]
    /\ hops \in [Thread -> Nat]
    /\ has_response \in [Thread -> BOOLEAN]
    /\ has_ex \in [Thread -> BOOLEAN]
    /\ outcome \in [Thread -> Outcome]
    /\ opened \in [Conn -> Remote]

-----------------------------------------------------------------------------
Held == {c \in Conn : \E t \in Thread : connection[t] = c}

\* Outside a call a thread has no host, and an object that is not connected
\* no remote: the value stands for none.
AnyHost == CHOOSE h \in Host : TRUE

\* Fault: connects to the endpoint of the AWSAuthConnection, wherever the
\* request goes.
NewConnectionToEndpoint(t, key) ==
    \E c \in Conn \ (Pooled \cup Held) :
        /\ connection' = [connection EXCEPT ![t] = c]
        /\ opened' = [opened EXCEPT ![c] = [key EXCEPT !.host = AnyHost]]
        /\ response' = [response EXCEPT ![c] = "none"]

\* new_http_connection: an object no pool and no other thread refers to.
NewHttpConnection(t, key) ==
    \E c \in Conn \ (Pooled \cup Held) :
        /\ connection' = [connection EXCEPT ![t] = c]
        /\ opened' = [opened EXCEPT ![c] = key]
        /\ response' = [response EXCEPT ![c] = "none"]

\* Fault: an attempt that is not counted.
AttemptUncounted(t, j) ==
    /\ i' = [i EXCEPT ![t] = j - 1]
    /\ pc' = [pc EXCEPT ![t] = IF j - 1 <= NumRetries THEN "send" ELSE "end"]

\* A failed attempt: i += 1, and the loop goes on while i <= num_retries.
NextAttempt(t, j) ==
    /\ i' = [i EXCEPT ![t] = j]
    /\ pc' = [pc EXCEPT ![t] = IF j <= NumRetries THEN "send" ELSE "end"]

\* The call is over: the thread drops its connection and its locals.
Finish(t, result) ==
    /\ pc' = [pc EXCEPT ![t] = "idle"]
    /\ outcome' = [outcome EXCEPT ![t] = result]
    /\ connection' = [connection EXCEPT ![t] = NoConn]
    /\ secure' = [secure EXCEPT ![t] = IsSecure]
    /\ i' = [i EXCEPT ![t] = 0]
    /\ hops' = [hops EXCEPT ![t] = 0]
    /\ has_response' = [has_response EXCEPT ![t] = FALSE]
    /\ has_ex' = [has_ex EXCEPT ![t] = FALSE]
    /\ host' = [host EXCEPT ![t] = AnyHost]

-----------------------------------------------------------------------------
\* Bound: Conn is finite, so a call starts only while every thread that is
\* still to get a connection can be given a new one.
SpareConnection ==
    Cardinality(Conn \ (Pooled \cup Held))
        > Cardinality({t \in Thread : pc[t] \in {"clean", "get"}})

\* make_request, and _mexe up to get_http_connection.
MakeRequest(t) ==
    /\ pc[t] = "idle"
    /\ SpareConnection
    /\ \E h \in Host : host' = [host EXCEPT ![t] = h]
    /\ pc' = [pc EXCEPT ![t] = "clean"]
    /\ outcome' = [outcome EXCEPT ![t] = "none"]
    /\ UNCHANGED <<secure, connection, i, hops, has_response, has_ex,
                   now, poolVars, response, opened>>

\* ConnectionPool.get_http_connection, the call of self.clean().
Clean(t) ==
    /\ pc[t] = "clean"
    /\ PoolClean
    /\ pc' = [pc EXCEPT ![t] = "get"]
    /\ UNCHANGED <<host, secure, connection, i, hops, has_response, has_ex,
                   outcome, now, response, opened>>

\* AWSAuthConnection.get_http_connection: a pooled connection or a new one.
GetHttpConnection(t) ==
    LET key == [host |-> host[t], is_secure |-> secure[t]]
    IN  /\ pc[t] = "get"
        /\ \/ /\ \E c \in Conn : /\ PoolGetHit(key, c)
                                 /\ connection' = [connection EXCEPT ![t] = c]
              /\ UNCHANGED <<response, opened>>
           \/ /\ PoolGetMiss(key)
              /\ NewHttpConnection(t, key)
        /\ pc' = [pc EXCEPT ![t] = "send"]
        /\ UNCHANGED <<host, secure, i, hops, has_response, has_ex, outcome, now>>

\* 500, 502, 503, 504: the body is read and the same connection sends again.
ServerError(t) ==
    /\ pc[t] = "send"
    /\ response' = [response EXCEPT ![connection[t]] = "closed"]
    /\ has_response' = [has_response EXCEPT ![t] = TRUE]
    /\ NextAttempt(t, i[t] + 1)
    /\ UNCHANGED <<host, secure, connection, hops, has_ex, outcome, now, poolVars, opened>>

\* A retry handler asks for another attempt.  The handlers of dynamodb,
\* dynamodb2 and route53 have read the body and return i + 1, or for an
\* expired session i + self.num_retries - 1 (taken to be more than i).
RetryHandler(t) ==
    /\ pc[t] = "send"
    /\ response' = [response EXCEPT ![connection[t]] = "closed"]
    /\ has_response' = [has_response EXCEPT ![t] = TRUE]
    /\ \E step \in {1, SessionStep} : NextAttempt(t, i[t] + step)
    /\ UNCHANGED <<host, secure, connection, hops, has_ex, outcome, now, poolVars, opened>>

\* An answer to return, on a connection the server keeps open.
Answer(t) ==
    /\ pc[t] = "send"
    /\ \E s \in {"open", "closed"} : response' = [response EXCEPT ![connection[t]] = s]
    /\ pc' = [pc EXCEPT ![t] = "put"]
    /\ UNCHANGED <<host, secure, connection, i, hops, has_response, has_ex, outcome,
                   now, poolVars, opened>>

\* put_http_connection, always under self.is_secure; _mexe returns.
PutHttpConnection(t) ==
    /\ pc[t] = "put"
    /\ PoolPut([host |-> host[t], is_secure |-> IsSecure], connection[t])
    /\ Finish(t, "response")
    /\ UNCHANGED <<now, response, opened>>

\* An answer with "Connection: close": the connection is not pooled.
AnswerAndClose(t) ==
    /\ pc[t] = "send"
    /\ Finish(t, "response")
    /\ UNCHANGED <<now, poolVars, response, opened>>

\* A 3xx answer with a location: another connection, response = None, and
\* the attempt is not counted.
Redirect(t) ==
    /\ pc[t] = "send"
    /\ hops[t] < MaxHops
    /\ \E h \in Host, s \in BOOLEAN : /\ host' = [host EXCEPT ![t] = h]
                                      /\ secure' = [secure EXCEPT ![t] = s]
    /\ hops' = [hops EXCEPT ![t] = @ + 1]
    /\ has_response' = [has_response EXCEPT ![t] = FALSE]
    /\ connection' = [connection EXCEPT ![t] = NoConn]
    /\ pc' = [pc EXCEPT ![t] = "clean"]
    /\ UNCHANGED <<i, has_ex, outcome, now, poolVars, response, opened>>

\* PleaseRetryException from the sender: a new connection, and `response' is
\* the exception's, which may be None.
PleaseRetry(t) ==
    /\ pc[t] = "send"
    /\ NewHttpConnection(t, [host |-> host[t], is_secure |-> IsSecure])
    /\ \E r \in BOOLEAN : has_response' = [has_response EXCEPT ![t] = r]
    /\ has_ex' = [has_ex EXCEPT ![t] = TRUE]
    /\ NextAttempt(t, i[t] + 1)
    /\ UNCHANGED <<host, secure, hops, outcome, now, poolVars>>

\* Fault: ex = e is left out.
HttpExceptionForgotten(t) ==
    /\ pc[t] = "send"
    /\ NewHttpConnection(t, [host |-> host[t], is_secure |-> IsSecure])
    /\ NextAttempt(t, i[t] + 1)
    /\ UNCHANGED <<host, secure, hops, has_response, has_ex, outcome, now, poolVars>>

\* A retryable http or socket exception: a new connection.  `response' is
\* kept, or set when the exception comes from reading the body.
HttpException(t) ==
    /\ pc[t] = "send"
    /\ NewHttpConnection(t, [host |-> host[t], is_secure |-> IsSecure])
    /\ \E r \in {has_response[t], TRUE} : has_response' = [has_response EXCEPT ![t] = r]
    /\ has_ex' = [has_ex EXCEPT ![t] = TRUE]
    /\ NextAttempt(t, i[t] + 1)
    /\ UNCHANGED <<host, secure, hops, outcome, now, poolVars>>

\* An unretryable exception, or a retry handler that raises.
Raise(t) ==
    /\ pc[t] = "send"
    /\ Finish(t, "raised")
    /\ UNCHANGED <<now, poolVars, response, opened>>

\* After the loop: the response, else the exception, else a BotoClientError.
Exhausted(t) ==
    /\ pc[t] = "end"
    /\ Finish(t, IF has_response[t] THEN "server_error"
                 ELSE IF has_ex[t] THEN "exception" ELSE "client_error")
    /\ UNCHANGED <<now, poolVars, response, opened>>

-----------------------------------------------------------------------------
(* The environment.                                                        *)

\* A caller reads a returned response to its end.
ReadBody(c) ==
    /\ c \in Pooled
    /\ response[c] = "open"
    /\ response' = [response EXCEPT ![c] = "closed"]
    /\ UNCHANGED <<now, poolVars, opened, callVars>>

Tick ==
    /\ now < MaxTime
    /\ now' = now + 1
    /\ UNCHANGED <<poolVars, response, opened, callVars>>

Init ==
    /\ PoolInit
    /\ pc = [t \in Thread |-> "idle"]
    /\ host = [t \in Thread |-> AnyHost]
    /\ secure = [t \in Thread |-> IsSecure]
    /\ connection = [t \in Thread |-> NoConn]
    /\ i = [t \in Thread |-> 0]
    /\ hops = [t \in Thread |-> 0]
    /\ has_response = [t \in Thread |-> FALSE]
    /\ has_ex = [t \in Thread |-> FALSE]
    /\ outcome = [t \in Thread |-> "none"]
    /\ opened = [c \in Conn |-> [host |-> AnyHost, is_secure |-> IsSecure]]

\* The steps of a thread inside a call.
CallStep(t) ==
    \/ Clean(t) \/ GetHttpConnection(t) \/ ServerError(t) \/ RetryHandler(t)
    \/ Answer(t) \/ PutHttpConnection(t) \/ AnswerAndClose(t) \/ Redirect(t)
    \/ PleaseRetry(t) \/ HttpException(t) \/ Raise(t) \/ Exhausted(t)

Next ==
    \/ \E t \in Thread : MakeRequest(t) \/ CallStep(t)
    \/ \E c \in Conn : ReadBody(c)
    \/ Tick

\* A thread inside a call keeps running; a request that gets no answer ends
\* in a socket timeout, one of the retryable exceptions.
Spec == Init /\ [][Next]_vars /\ \A t \in Thread : WF_vars(CallStep(t))

-----------------------------------------------------------------------------
(* Properties.                                                             *)

\* A connection object is in one place: no two threads send on it, no thread
\* sends on one that the pool could hand to another, and the pool holds it
\* once.  _mexe puts a connection back before its response has been read, so
\* this rests on get() removing what it returns (connection.py:140-158).
ExclusiveUse ==
    /\ \A t, u \in Thread : t # u /\ connection[t] # NoConn => connection[t] # connection[u]
    /\ Held \cap Pooled = {}
    /\ \A k, l \in DOMAIN host_to_pool :
          \A m \in 1..Len(host_to_pool[k]), n \in 1..Len(host_to_pool[l]) :
             host_to_pool[k][m].conn = host_to_pool[l][n].conn => k = l /\ m = n

\* A request is never sent on a connection whose previous response somebody
\* may still be reading (connection.py:160-181, _conn_ready).
SendsOnReadyConnection ==
    \A t \in Thread : pc[t] = "send" => response[connection[t]] # "open"

\* The pairs of a queue are in the order of their times, none in the future:
\* cleaning from the front is enough (connection.py:183-191).
QueuesInTimeOrder ==
    \A key \in DOMAIN host_to_pool :
      \A m, n \in 1..Len(host_to_pool[key]) :
        /\ host_to_pool[key][m].time <= now
        /\ m <= n => host_to_pool[key][m].time <= host_to_pool[key][n].time

\* Through redirects and reconnections, a thread's connection, and every
\* connection of a queue, goes to the host it is used for.
GoesToItsHost ==
    /\ \A t \in Thread : connection[t] # NoConn => opened[connection[t]].host = host[t]
    /\ \A key \in DOMAIN host_to_pool : \A m \in 1..Len(host_to_pool[key]) :
          opened[host_to_pool[key][m].conn].host = key.host

\* A call whose loop is exhausted has a response or an exception to raise:
\* "Please report this exception as a Boto Issue!" is never reached
\* (connection.py:1030-1036).
FailureIsExplained == \A t \in Thread : outcome[t] # "client_error"

\* A connection leaves the pool for a thread only if it was returned at most
\* STALE_DURATION ago, wherever it stood in the queue.
NeverHandsOutStale ==
    [][\A t \in Thread : \A key \in DOMAIN host_to_pool :
         \A m \in 1..Len(host_to_pool[key]) :
            connection[t] # connection'[t] /\ connection'[t] = host_to_pool[key][m].conn
               => ~PairStale(host_to_pool[key][m])]_vars

\* A due cleaning leaves no stale pair and no empty queue in any pool
\* (connection.py:282-304).
CleaningIsComplete ==
    [][last_clean_time' # last_clean_time =>
         \A key \in DOMAIN host_to_pool' :
            /\ host_to_pool'[key] # <<>>
            /\ \A m \in 1..Len(host_to_pool'[key]) : ~PairStale(host_to_pool'[key][m])]_vars

\* Every call ends: the attempts are bounded, and the servers answer finitely
\* many redirects (_mexe does not count them).
CallEnds == \A t \in Thread : pc[t] # "idle" ~> pc[t] = "idle"
=============================================================================
