------------------------------ MODULE Provider ------------------------------
(***************************************************************************)
(* Provider (boto/provider.py) with the credentials of an instance role:   *)
(* threads that sign requests (auth.py, add_auth) read the token, the      *)
(* secret key and the access key one after the other, and each read first  *)
(* refreshes all that are about to expire.  There is no lock.              *)
(*                                                                         *)
(* Credentials are known by their generation: those below soon expire in   *)
(* less than five minutes, those below expired have.                       *)
(*                                                                         *)
(* threads[t].pc:  idle; check, return: the two halves of a read; fetch,   *)
(* assign: _populate_keys_from_metadata_server                             *)
(***************************************************************************)
EXTENDS Integers, Sequences

CONSTANTS Thread,
          MaxGeneration   \* bound

ASSUME ProviderAssumption == MaxGeneration \in Nat \ {0}

Attributes == <<"token", "secret", "access">>

\* Fault: the expiry is assigned first.
AssignedExpiryFirst == <<"expiry", "access", "secret", "token">>

\* Fault: the token is forgotten.
AssignedWithoutToken == <<"access", "secret", "expiry">>

\* The order of the assignments.
Assigned == <<"access", "secret", "token", "expiry">>

VARIABLES
    generation,   \* what the metadata service has
    soon, expired,
    held,         \* the attributes of the provider
    threads,
    overlap,      \* history: two threads assigned different generations at once
    failed        \* history: a refresh got nothing

providerVars == <<generation, soon, expired, held, threads, overlap, failed>>

Generation == 1..MaxGeneration

ProviderTypeOK ==
    /\ generation \in Generation
    /\ soon \in Generation /\ expired \in 1..soon
    /\ held \in [{"access", "secret", "token", "expiry"} -> Generation]
    /\ threads \in [Thread -> [pc : {"idle", "check", "return", "fetch", "assign"},
                               read : 0..3, assigned : 0..4,
                               creds : Generation \cup {0}, alive : Generation]]
    /\ overlap \in BOOLEAN
    /\ failed \in BOOLEAN

IdleThread == [pc |-> "idle", read |-> 0, assigned |-> 0, creds |-> 0, alive |-> 1]

ThreadAt(t, pc) == threads' = [threads EXCEPT ![t].pc = pc]

-----------------------------------------------------------------------------
Sign(t) ==
    /\ threads[t].pc = "idle"
    /\ threads' = [threads EXCEPT ![t].pc = "check", ![t].read = 0]
    /\ UNCHANGED <<generation, soon, expired, held, overlap, failed>>

\* _credentials_need_refresh.  What has expired now is remembered.
CheckExpiry(t) ==
    /\ threads[t].pc = "check"
    /\ threads' = [threads EXCEPT ![t].pc = IF held["expiry"] < soon THEN "fetch" ELSE "return",
                                  ![t].alive = expired]
    /\ UNCHANGED <<generation, soon, expired, held, overlap, failed>>

\* get_instance_metadata has the credentials ...
Fetch(t) ==
    /\ threads[t].pc = "fetch"
    /\ threads' = [threads EXCEPT ![t].pc = "assign", ![t].creds = generation,
                                  ![t].assigned = 0]
    /\ overlap' = (overlap \/ \E u \in Thread : /\ threads[u].pc = "assign"
                                               /\ threads[u].creds # generation)
    /\ UNCHANGED <<generation, soon, expired, held, failed>>

\* ... or nothing, and those at hand are used; or it raises.
FetchFails(t) ==
    /\ threads[t].pc = "fetch"
    /\ failed' = TRUE
    /\ \/ ThreadAt(t, "return")
       \/ threads' = [threads EXCEPT ![t] = IdleThread]
    /\ UNCHANGED <<generation, soon, expired, held, overlap>>

Assign(t) ==
    LET n == threads[t].assigned + 1
    IN  /\ threads[t].pc = "assign"
        /\ held' = [held EXCEPT ![Assigned[n]] = threads[t].creds]
        /\ threads' = IF n = Len(Assigned)
                      THEN [threads EXCEPT ![t].pc = "return", ![t].assigned = 0,
                                           ![t].creds = 0]
                      ELSE [threads EXCEPT ![t].assigned = n]
        /\ UNCHANGED <<generation, soon, expired, overlap, failed>>

\* The attribute as it is now; after the third the request is signed.
Return(t) ==
    /\ threads[t].pc = "return"
    /\ threads' = IF threads[t].read = Len(Attributes) - 1
                  THEN [threads EXCEPT ![t] = IdleThread]
                  ELSE [threads EXCEPT ![t].pc = "check", ![t].read = @ + 1]
    /\ UNCHANGED <<generation, soon, expired, held, overlap, failed>>

-----------------------------------------------------------------------------
(* The service and time: new credentials are there before the old are      *)
(* about to expire.                                                        *)

Rotate ==
    /\ generation < MaxGeneration
    /\ generation' = generation + 1
    /\ UNCHANGED <<soon, expired, held, threads, overlap, failed>>

NearExpiry ==
    /\ soon < generation
    /\ soon' = soon + 1
    /\ UNCHANGED <<generation, expired, held, threads, overlap, failed>>

ExpireKeys ==
    /\ expired < soon
    /\ expired' = expired + 1
    /\ UNCHANGED <<generation, soon, held, threads, overlap, failed>>

ProviderInit ==
    /\ generation = 1 /\ soon = 1 /\ expired = 1
    /\ held = [a \in {"access", "secret", "token", "expiry"} |-> 1]
    /\ threads = [t \in Thread |-> IdleThread]
    /\ overlap = FALSE
    /\ failed = FALSE

ProviderNext ==
    \/ \E t \in Thread : Sign(t) \/ CheckExpiry(t) \/ Fetch(t) \/ FetchFails(t) \/ Assign(t) \/ Return(t)
    \/ Rotate \/ NearExpiry \/ ExpireKeys

-----------------------------------------------------------------------------
(* Properties.                                                             *)

\* When no thread is assigning, the keys, the token and the expiry are those
\* of one set, unless two threads have assigned different ones at once
\* (provider.py:382-411).
HeldIsOneSet ==
    ~overlap /\ (\A t \in Thread : threads[t].pc # "assign") =>
        \A a, b \in DOMAIN held : held[a] = held[b]

\* What a read returns had not expired when the read checked it, though other
\* threads are refreshing, unless a refresh got nothing or two went on at once
\* (provider.py:200-248).
ReturnsAlive ==
    \A t \in Thread :
       threads[t].pc = "return" /\ ~failed /\ ~overlap =>
          held[Attributes[threads[t].read + 1]] >= threads[t].alive
=============================================================================
