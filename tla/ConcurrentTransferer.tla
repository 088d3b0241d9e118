------------------------ MODULE ConcurrentTransferer ------------------------
(***************************************************************************)
(* The thread pool that moves a Glacier archive part by part               *)
(* (boto/glacier/concurrent.py: ConcurrentTransferer and TransferThread).  *)
(*                                                                         *)
(* The main thread fills worker_queue with the part numbers and one end    *)
(* sentinel per worker, starts the workers, takes one result per part from *)
(* result_queue, and at the first failed part or at the last result sets   *)
(* should_continue to False in every worker and joins them.                *)
(*                                                                         *)
(* What a worker does with a part, and what main does before and after, is *)
(* in ConcurrentUploader and ConcurrentDownloader.  A failed part's result *)
(* is the exception; the model keeps the part number beside it.            *)
(***************************************************************************)
EXTENDS Naturals, Sequences, FiniteSets

CONSTANTS Worker,       \* the threads of the pool
          TotalParts,   \* total_parts
          Attempts,     \* attempts a worker makes for one part
          End,          \* _END_SENTINEL
          NoPart

ASSUME TransferAssumption ==
    /\ IsFiniteSet(Worker)
    /\ Worker # {}
    /\ TotalParts \in Nat
    /\ Attempts \in Nat \ {0}
    /\ End \notin Nat
    /\ NoPart \notin Nat

VARIABLES main,             \* what the main thread does next
          worker_queue,
          result_queue,
          received,         \* results the main thread has taken
          hash_chunks,      \* the parts whose slot of hash_chunks is filled
          failed,           \* main has taken an exception from result_queue
          wpc,              \* what each worker does next
          should_continue,
          work,             \* the part a worker has taken
          attempt           \* attempts it has made for it

mainVars == <<main, received, hash_chunks, failed>>
workerVars == <<wpc, work, attempt>>
transferVars == <<mainVars, workerVars, worker_queue, result_queue, should_continue>>

Part == 0..(TotalParts - 1)

NumThreads == Cardinality(Worker)

Result == [part : Part, ok : BOOLEAN]

\* start: before the pool exists          spawn: _start_..._threads
\* wait: _wait_for_..._threads            stop, join: _shutdown_threads
\* joined: the pool is gone               returned, raised: the call is over
MainPC == {"start", "spawn", "wait", "stop", "join", "joined", "returned", "raised"}

\* new: not started   loop: tests should_continue   get: waits for work
\* chunk: in _process_chunk   put: has a result   exited: run() returned
WorkerPC == {"new", "loop", "get", "chunk", "put_ok", "put_error", "exited"}

TypeOK ==
    /\ main \in MainPC
    /\ worker_queue \in Seq(Part \cup {End})
    /\ result_queue \in Seq(Result)
    /\ received \in Nat
    /\ hash_chunks \subseteq Part
    /\ failed \in BOOLEAN
    /\ wpc \in [Worker -> WorkerPC]
    /\ should_continue \in [Worker -> BOOLEAN]
    /\ work \in [Worker -> Part \cup {NoPart}]
    /\ attempt \in [Worker -> Nat]

TransferInit ==
    /\ main = "start"
    /\ worker_queue = <<>>
    /\ result_queue = <<>>
    /\ received = 0
    /\ hash_chunks = {}
    /\ failed = FALSE
    /\ wpc = [w \in Worker |-> "new"]
    /\ should_continue = [w \in Worker |-> TRUE]
    /\ work = [w \in Worker |-> NoPart]
    /\ attempt = [w \in Worker |-> 0]

-----------------------------------------------------------------------------
(* The main thread.                                                        *)

\* The n-th item of the work queue: the parts in order, then the sentinels.
Item(n) == IF n <= TotalParts THEN n - 1 ELSE End

\* Fault: one sentinel too few.
AddWorkItemsOneShort ==
    /\ main = "start"
    /\ worker_queue' = [n \in 1..(TotalParts + NumThreads - 1) |-> Item(n)]
    /\ main' = "spawn"
    /\ UNCHANGED <<received, hash_chunks, failed, workerVars, result_queue, should_continue>>

\* _add_work_items_to_queue
AddWorkItems ==
    /\ main = "start"
    /\ worker_queue' = [n \in 1..(TotalParts + NumThreads) |-> Item(n)]
    /\ main' = "spawn"
    /\ UNCHANGED <<received, hash_chunks, failed, workerVars, result_queue, should_continue>>

\* One turn of the loop of _start_..._threads.
SpawnThread(w) ==
    /\ main = "spawn"
    /\ wpc[w] = "new"
    /\ wpc' = [wpc EXCEPT ![w] = "loop"]
    /\ main' = IF \E u \in Worker \ {w} : wpc[u] = "new" THEN "spawn" ELSE "wait"
    /\ UNCHANGED <<received, hash_chunks, failed, work, attempt, worker_queue,
                   result_queue, should_continue>>

\* Fault: main stops waiting one result early.
AllButOneReceived ==
    /\ main = "wait"
    /\ received + 1 >= TotalParts
    /\ main' = "stop"
    /\ UNCHANGED <<received, hash_chunks, failed, workerVars, worker_queue,
                   result_queue, should_continue>>

\* The end of the loop of _wait_for_..._threads: all results are in.
AllReceived ==
    /\ main = "wait"
    /\ received = TotalParts
    /\ main' = "stop"
    /\ UNCHANGED <<received, hash_chunks, failed, workerVars, worker_queue,
                   result_queue, should_continue>>

\* One turn of that loop: a part is done, or an exception ends the loop.
TakeResult ==
    /\ main = "wait"
    /\ received < TotalParts
    /\ result_queue # <<>>
    /\ result_queue' = Tail(result_queue)
    /\ IF Head(result_queue).ok
       THEN /\ hash_chunks' = hash_chunks \cup {Head(result_queue).part}
            /\ received' = received + 1
            /\ UNCHANGED <<main, failed>>
       ELSE /\ failed' = TRUE
            /\ main' = "stop"
            /\ UNCHANGED <<received, hash_chunks>>
    /\ UNCHANGED <<workerVars, worker_queue, should_continue>>

\* The first loop of _shutdown_threads, thread by thread.
StopThread(w) ==
    /\ main = "stop"
    /\ should_continue[w]
    /\ should_continue' = [should_continue EXCEPT ![w] = FALSE]
    /\ main' = IF \E u \in Worker \ {w} : should_continue[u] THEN "stop" ELSE "join"
    /\ UNCHANGED <<received, hash_chunks, failed, workerVars, worker_queue, result_queue>>

\* The second loop of _shutdown_threads: join every thread.
JoinThreads ==
    /\ main = "join"
    /\ \A w \in Worker : wpc[w] = "exited"
    /\ main' = "joined"
    /\ UNCHANGED <<received, hash_chunks, failed, workerVars, worker_queue,
                   result_queue, should_continue>>

\* A result whose handling raises in main: the loop ends, and nobody shuts
\* the threads down.
LoseResult ==
    /\ main = "wait"
    /\ received < TotalParts
    /\ result_queue # <<>>
    /\ Head(result_queue).ok
    /\ result_queue' = Tail(result_queue)
    /\ main' = "raised"
    /\ UNCHANGED <<received, hash_chunks, failed, workerVars, worker_queue, should_continue>>

\* The call of main ends: normally after the join, or with an exception.
EndCall(how) ==
    /\ main' = how
    /\ UNCHANGED <<received, hash_chunks, failed, workerVars, worker_queue,
                   result_queue, should_continue>>

-----------------------------------------------------------------------------
(* A worker: TransferThread.run.                                           *)

CheckContinue(w) ==
    /\ wpc[w] = "loop"
    /\ wpc' = [wpc EXCEPT ![w] = IF should_continue[w] THEN "get" ELSE "exited"]
    /\ UNCHANGED <<mainVars, work, attempt, worker_queue, result_queue, should_continue>>

\* worker_queue.get(timeout=1): a part to process, or the end sentinel.
GetWork(w) ==
    /\ wpc[w] = "get"
    /\ worker_queue # <<>>
    /\ worker_queue' = Tail(worker_queue)
    /\ \/ /\ Head(worker_queue) = End
          /\ wpc' = [wpc EXCEPT ![w] = "exited"]
          /\ UNCHANGED <<work, attempt>>
       \/ /\ Head(worker_queue) # End
          /\ wpc' = [wpc EXCEPT ![w] = "chunk"]
          /\ work' = [work EXCEPT ![w] = Head(worker_queue)]
          /\ attempt' = [attempt EXCEPT ![w] = 0]
    /\ UNCHANGED <<mainVars, result_queue, should_continue>>

\* An attempt of _process_chunk that returns: break.
ChunkDone(w) ==
    /\ wpc[w] = "chunk"
    /\ wpc' = [wpc EXCEPT ![w] = "put_ok"]
    /\ UNCHANGED <<mainVars, work, attempt, worker_queue, result_queue, should_continue>>

\* Fault: the last exception is not caught, and ends the thread.
ChunkFailsUncaught(w) ==
    /\ wpc[w] = "chunk"
    /\ attempt' = [attempt EXCEPT ![w] = @ + 1]
    /\ wpc' = [wpc EXCEPT ![w] = IF attempt[w] + 1 < Attempts THEN "chunk" ELSE "exited"]
    /\ UNCHANGED <<mainVars, work, worker_queue, result_queue, should_continue>>

\* An attempt of _process_chunk that raises: another one, or the exception
\* becomes the result.
ChunkFails(w) ==
    /\ wpc[w] = "chunk"
    /\ attempt' = [attempt EXCEPT ![w] = @ + 1]
    /\ wpc' = [wpc EXCEPT ![w] = IF attempt[w] + 1 < Attempts THEN "chunk" ELSE "put_error"]
    /\ UNCHANGED <<mainVars, work, worker_queue, result_queue, should_continue>>

\* Fault: an exception is reported like the result of a part.
PutAnyResult(w) ==
    /\ wpc[w] \in {"put_ok", "put_error"}
    /\ result_queue' = Append(result_queue, [part |-> work[w], ok |-> TRUE])
    /\ wpc' = [wpc EXCEPT ![w] = "loop"]
    /\ work' = [work EXCEPT ![w] = NoPart]
    /\ UNCHANGED <<mainVars, attempt, worker_queue, should_continue>>

\* result_queue.put(result)
PutResult(w) ==
    /\ wpc[w] \in {"put_ok", "put_error"}
    /\ result_queue' = Append(result_queue, [part |-> work[w], ok |-> wpc[w] = "put_ok"])
    /\ wpc' = [wpc EXCEPT ![w] = "loop"]
    /\ work' = [work EXCEPT ![w] = NoPart]
    /\ UNCHANGED <<mainVars, attempt, worker_queue, should_continue>>

-----------------------------------------------------------------------------
(* The pool by itself: main may fail wherever one of its callers may.      *)

MainStep ==
    \/ AddWorkItems
    \/ \E w \in Worker : SpawnThread(w) \/ StopThread(w)
    \/ AllReceived
    \/ TakeResult
    \/ JoinThreads
    \/ main = "joined" /\ \E how \in {"returned", "raised"} : EndCall(how)

WorkerStep(w) ==
    CheckContinue(w) \/ GetWork(w) \/ ChunkDone(w) \/ ChunkFails(w) \/ PutResult(w)

TransferNext ==
    \/ MainStep
    \/ main \in {"start", "spawn", "wait"} /\ EndCall("raised")
    \/ LoseResult
    \/ \E w \in Worker : WorkerStep(w)

\* Weak fairness in TransferSpec: main and the started workers are threads that keep running,
\* and an attempt ends, with an exception if need be.
TransferSafety == TransferInit /\ [][TransferNext]_transferVars

TransferSpec ==
    /\ TransferSafety
    /\ WF_transferVars(MainStep)
    /\ \A w \in Worker : WF_transferVars(WorkerStep(w))

-----------------------------------------------------------------------------
(* Properties.                                                             *)

\* A worker that waits for work finds some at once: the handler for a timeout
\* names `Empty', which the module does not import, and would end the thread
\* with a NameError (concurrent.py:28, 197-201).
WorkIsWaiting == \A w \in Worker : wpc[w] = "get" => worker_queue # <<>>

\* Once main has counted total_parts results every slot of hash_chunks is
\* filled: no part was handed out or reported twice (concurrent.py:160-174).
AllSlotsFilled ==
    main \in {"stop", "join", "joined", "returned"} /\ ~failed => hash_chunks = Part

\* When the threads have been joined none is in the middle of a part, though
\* main sets their flags while they run (concurrent.py:60-66).
QuietAfterJoin ==
    main \in {"joined", "returned"} => \A w \in Worker : wpc[w] = "exited"

\* Main waits for ever neither on result_queue, whose get() has no timeout,
\* nor on a join (concurrent.py:64-65, 160-174, 326-350).
CallEnds == main = "wait" ~> main \in {"returned", "raised"}

\* Every started thread ends, also when the call has raised and nobody sets
\* should_continue: the sentinels are enough (concurrent.py:72-73, 196-207).
ThreadsEnd == \A w \in Worker : wpc[w] # "new" ~> wpc[w] = "exited"
=============================================================================
