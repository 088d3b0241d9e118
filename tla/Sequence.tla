------------------------------ MODULE Sequence ------------------------------
(***************************************************************************)
(* Sequence (boto/sdb/db/sequence.py) with increment_by_one: a counter in  *)
(* SimpleDB that clients share.  next() reads the value, puts its          *)
(* successor on condition that the value is still there, and then reads    *)
(* once more what it returns.                                              *)
(*                                                                         *)
(* clients[c].pc:  new (before the get of __init__), init (before its      *)
(* put), idle, put, return                                                 *)
(***************************************************************************)
EXTENDS Integers

CONSTANTS Client,
          NoValue,
          InitVal,      \* init_val
          MaxValue      \* bound: values the clients take

ASSUME SequenceAssumption ==
    /\ InitVal \in Int /\ MaxValue \in Nat /\ InitVal <= MaxValue
    /\ NoValue \notin Int

VARIABLES
    current_value,   \* of the item at the service
    clients,         \* per client: pc, _value, and what next() puts
    taken,           \* history: per value, how often next() has put it, until a reset
    result,          \* history: what the last next() to return has put, and returned
    reset            \* history: a value was deleted or overwritten by __init__

sequenceVars == <<current_value, clients, taken, result, reset>>

Value == (IF InitVal < 0 THEN InitVal ELSE 0)..MaxValue

SequenceTypeOK ==
    /\ current_value \in Value \cup {NoValue}
    /\ clients \in [Client -> [pc : {"new", "init", "idle", "put", "return"},
                               value : Value \cup {NoValue}, put : Value \cup {NoValue}]]
    /\ taken \in [Value -> Nat]
    /\ result \in [put : Value, got : Value \cup {NoValue}]
    /\ reset \in BOOLEAN

ClientAt(c, pc) == clients' = [clients EXCEPT ![c].pc = pc]

\* get: without an item _value stays what it was.
Got(c) == IF current_value = NoValue THEN clients[c].value ELSE current_value

-----------------------------------------------------------------------------
\* __init__: `if not self.val', which zero is not either.
Bootstrap(c) ==
    /\ clients[c].pc = "new"
    /\ clients' = [clients EXCEPT ![c].value = Got(c),
                    ![c].pc = IF Got(c) \in {NoValue, 0} THEN "init" ELSE "idle"]
    /\ UNCHANGED <<current_value, taken, result, reset>>

\* The condition of set: none while _value is NoValue.
Expected(c) == clients[c].value \in {NoValue, current_value}

PutInitVal(c) ==
    /\ clients[c].pc = "init"
    /\ Expected(c)
    /\ current_value' = InitVal
    /\ reset' = (reset \/ current_value \notin {NoValue, InitVal})
    /\ ClientAt(c, "idle")
    /\ UNCHANGED <<taken, result>>

\* "Sequence out of sync": there is no sequence, and it may be made again.
OutOfSync(c) ==
    /\ clients[c].pc = "init"
    /\ ~Expected(c)
    /\ clients' = [clients EXCEPT ![c].pc = "new", ![c].value = NoValue]
    /\ UNCHANGED <<current_value, taken, result, reset>>

\* increment_by_one, of which the value after none is zero.
Increment(v) == IF v = NoValue THEN 0 ELSE v + 1

NextReads(c) ==
    /\ clients[c].pc = "idle"
    /\ Increment(Got(c)) <= MaxValue
    /\ clients' = [clients EXCEPT ![c] = [pc |-> "put", value |-> Got(c),
                                          put |-> Increment(Got(c))]]
    /\ UNCHANGED <<current_value, taken, result, reset>>

\* Fault: the put is unconditional.
PutsUnconditionally(c) == TRUE

Puts(c) == Expected(c)

PutNext(c) ==
    /\ Puts(c)
    /\ current_value' = clients[c].put
    /\ taken' = [taken EXCEPT ![clients[c].put] = IF reset THEN @ ELSE @ + 1]

NextPuts(c) ==
    /\ clients[c].pc = "put"
    /\ PutNext(c)
    /\ ClientAt(c, "return")
    /\ UNCHANGED <<result, reset>>

\* ValueError, or another error, the put done or not: next() may be called
\* again.
NextRaises(c) ==
    /\ clients[c].pc = "put"
    /\ PutNext(c) \/ UNCHANGED <<current_value, taken>>
    /\ ClientAt(c, "idle")
    /\ UNCHANGED <<result, reset>>

\* `return self.val' is another get.
NextReturns(c) ==
    /\ clients[c].pc = "return"
    /\ clients' = [clients EXCEPT ![c].pc = "idle", ![c].value = Got(c)]
    /\ result' = [put |-> clients[c].put, got |-> Got(c)]
    /\ UNCHANGED <<current_value, taken, reset>>

Delete(c) ==
    /\ clients[c].pc = "idle"
    /\ current_value' = NoValue
    /\ reset' = TRUE
    /\ UNCHANGED <<clients, taken, result>>

SequenceInit ==
    /\ current_value = NoValue
    /\ clients = [c \in Client |-> [pc |-> "new", value |-> NoValue, put |-> NoValue]]
    /\ taken = [v \in Value |-> 0]
    /\ result = [put |-> InitVal, got |-> InitVal]
    /\ reset = FALSE

SequenceNext ==
    \E c \in Client :
       \/ Bootstrap(c) \/ PutInitVal(c) \/ OutOfSync(c)
       \/ NextReads(c) \/ NextPuts(c) \/ NextRaises(c) \/ NextReturns(c) \/ Delete(c)

-----------------------------------------------------------------------------
(* Properties.                                                             *)

\* Unless the sequence was deleted, or made by two clients at once, each
\* value is put by one call of next(), and no call returns a value before its
\* own.  (It may return a later one, which another call has put and returns
\* too: sequence.py:168-190, 217-220.)
TakenOnce ==
    ~reset => /\ \A v \in Value : taken[v] <= 1
              /\ result.got >= result.put
=============================================================================
