----------------------------- MODULE IdleTimeout -----------------------------
(***************************************************************************)
(* Mexe with the server's view of time: when a connection last carried a   *)
(* request or an answer.  A body the server has sent in full may wait in   *)
(* the socket buffer, so a caller that reads it late is no traffic for the *)
(* server.                                                                 *)
(***************************************************************************)
EXTENDS Mexe

VARIABLES last_io,  \* when the connection last carried a message
          unread    \* pooled connections whose body was unread in the pool

idleVars == <<vars, last_io, unread>>

IdleInit ==
    /\ Init
    /\ last_io = [c \in Conn |-> now]
    /\ unread = {}

IdleNext ==
    /\ Next
    /\ last_io' = [c \in Conn |-> IF c \in Held \/ c \in Held' THEN now' ELSE last_io[c]]
    /\ unread' = {c \in Pooled' : c \in unread \/ response'[c] = "open"}

IdleSpec == IdleInit /\ [][IdleNext]_idleVars

\* The connection the next get() on a queue would return, if any.
NextReused(key) ==
    LET queue == HostClean(host_to_pool[key])
    IN  {c \in Conn : Ready(queue) # {} /\ c = queue[First(Ready(queue))].conn}

\* "we'll never try to reuse a connection and find that AWS is timing it out"
\* (connection.py:221-222): so it is, with STALE_DURATION as the limit, for the
\* connections whose response had been read when they were returned.
ReadInTimeIsReusedInTime ==
    \A key \in DOMAIN host_to_pool : \A c \in NextReused(key) :
       c \notin unread => now <= last_io[c] + STALE_DURATION
=============================================================================
