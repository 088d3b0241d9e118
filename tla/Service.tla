------------------------------ MODULE Service ------------------------------
(***************************************************************************)
(* Service.main (boto/services/service.py): servers that read messages     *)
(* from an SQS queue, process the file each names, write the result to an  *)
(* output queue, and delete the message; a server that has read nothing    *)
(* often enough shuts down.                                                *)
(*                                                                         *)
(* servers[s].pc:  read, process (get_file and process_file), save, write, *)
(* delete, down                                                            *)
(***************************************************************************)
EXTENDS Integers

CONSTANTS Server, Job,
          NoJob, Hidden,
          RetryCount,      \* retry_count
          MaxFailures      \* bound: exceptions, crashes and lapses

ASSUME ServiceAssumption ==
    /\ RetryCount \in Int /\ MaxFailures \in Nat
    /\ {"visible", "deleted"} \cap (Server \cup {Hidden}) = {}

VARIABLES
    input,       \* per message: visible, its reader, hidden, or deleted
    output,      \* per message: how often its result was written
    saved,       \* the messages whose results are in S3
    servers,
    failures     \* history: exceptions, crashes, and timeouts that ran out

serviceVars == <<input, output, saved, servers, failures>>

ServiceTypeOK ==
    /\ input \in [Job -> {"visible", "deleted", Hidden} \cup Server]
    /\ output \in [Job -> Nat]
    /\ saved \subseteq Job
    /\ servers \in [Server ->
           [pc : {"read", "process", "save", "write", "delete", "down"},
            job : Job \cup {NoJob}, empty_reads : Nat]]
    /\ failures \in 0..MaxFailures

Working(s) == servers[s].pc \in {"process", "save", "write", "delete"}

ServerAt(s, pc) == servers' = [servers EXCEPT ![s].pc = pc]

\* The test of the loop.  With a negative retry_count it never ends, and the
\* count, which nothing reads then, is left at zero.
Looped(reads) ==
    [pc |-> IF RetryCount < 0 \/ reads < RetryCount THEN "read" ELSE "down",
     job |-> NoJob,
     empty_reads |-> IF RetryCount < 0 THEN 0 ELSE reads]

ReadMessage(s) ==
    /\ servers[s].pc = "read"
    /\ \E j \in Job :
          /\ input[j] = "visible"
          /\ input' = [input EXCEPT ![j] = s]
          /\ servers' = [servers EXCEPT ![s] =
                            [pc |-> "process", job |-> j, empty_reads |-> 0]]
    /\ UNCHANGED <<output, saved, failures>>

\* A read may find nothing though a message is visible.
ReadNothing(s) ==
    /\ servers[s].pc = "read"
    /\ servers' = [servers EXCEPT ![s] = Looped(@.empty_reads + 1)]
    /\ UNCHANGED <<input, output, saved, failures>>

ProcessFile(s) ==
    /\ servers[s].pc = "process"
    /\ ServerAt(s, "save")
    /\ UNCHANGED <<input, output, saved, failures>>

SaveResults(s) ==
    /\ servers[s].pc = "save"
    /\ saved' = saved \cup {servers[s].job}
    /\ ServerAt(s, "write")
    /\ UNCHANGED <<input, output, failures>>

WriteResult(s) ==
    /\ servers[s].pc = "write"
    /\ output' = [output EXCEPT ![servers[s].job] = @ + 1]
    /\ ServerAt(s, "delete")
    /\ UNCHANGED <<input, saved, failures>>

\* Fault: the message is deleted when the file has been processed.
DeleteInputEarly(s) ==
    /\ servers[s].pc \in {"save", "delete"}
    /\ input' = [input EXCEPT ![servers[s].job] = "deleted"]
    /\ IF servers[s].pc = "save" THEN UNCHANGED servers
       ELSE servers' = [servers EXCEPT ![s] = Looped(0)]
    /\ UNCHANGED <<output, saved, failures>>

\* The receipt of a message that was read again may not delete it.
DeleteInput(s) ==
    LET j == servers[s].job
    IN  /\ servers[s].pc = "delete"
        /\ \/ input' = [input EXCEPT ![j] = "deleted"]
           \/ input[j] # s /\ UNCHANGED input
        /\ servers' = [servers EXCEPT ![s] = Looped(0)]
        /\ UNCHANGED <<output, saved, failures>>

\* Its message is left to the timeout, unless another server has it.
LeftBy(s) == [j \in Job |-> IF input[j] = s THEN Hidden ELSE input[j]]

\* An exception in any step, which may have been carried out, counts as an
\* empty read.
Fails(s) ==
    LET j == servers[s].job
    IN  /\ failures < MaxFailures
        /\ failures' = failures + 1
        /\ Working(s)
        /\ servers' = [servers EXCEPT ![s] = Looped(@.empty_reads + 1)]
        /\ \/ input' = LeftBy(s) /\ UNCHANGED <<output, saved>>
           \/ /\ servers[s].pc = "save"
              /\ saved' = saved \cup {j}
              /\ input' = LeftBy(s) /\ UNCHANGED output
           \/ /\ servers[s].pc = "write"
              /\ output' = [output EXCEPT ![j] = @ + 1]
              /\ input' = LeftBy(s) /\ UNCHANGED saved
           \/ /\ servers[s].pc = "delete"
              /\ input' = [input EXCEPT ![j] = "deleted"]
              /\ UNCHANGED <<output, saved>>

-----------------------------------------------------------------------------
\* A server dies in the middle and is started again.
ServerDies(s) ==
    /\ failures < MaxFailures
    /\ failures' = failures + 1
    /\ Working(s)
    /\ input' = LeftBy(s)
    /\ servers' = [servers EXCEPT ![s] = Looped(0)]
    /\ UNCHANGED <<output, saved>>

Reappear(j) ==
    /\ input[j] = Hidden
    /\ input' = [input EXCEPT ![j] = "visible"]
    /\ UNCHANGED <<output, saved, servers, failures>>

\* processing_time is over while the server still works on the message.
RunsOut(j) ==
    /\ failures < MaxFailures
    /\ failures' = failures + 1
    /\ input[j] \in Server
    /\ input' = [input EXCEPT ![j] = "visible"]
    /\ UNCHANGED <<output, saved, servers>>

ServiceInit ==
    /\ input = [j \in Job |-> "visible"]
    /\ output = [j \in Job |-> 0]
    /\ saved = {}
    /\ servers = [s \in Server |-> Looped(0)]
    /\ failures = 0

Main(s) ==
    \/ ReadMessage(s) \/ ReadNothing(s) \/ ProcessFile(s) \/ SaveResults(s)
    \/ WriteResult(s) \/ DeleteInput(s) \/ Fails(s)

ServiceNext ==
    \/ \E s \in Server : Main(s) \/ ServerDies(s)
    \/ \E j \in Job : Reappear(j) \/ RunsOut(j)

-----------------------------------------------------------------------------
(* Properties.                                                             *)

\* A message is deleted only when its result has been saved and written, so
\* that a server that fails or dies in the middle loses none
\* (service.py:143-155).
DeletedIsDone ==
    \A j \in Job : input[j] = "deleted" => j \in saved /\ output[j] > 0
=============================================================================
