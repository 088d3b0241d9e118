--------------------- MODULE ConcurrentTransfererProofs ---------------------
(***************************************************************************)
(* Safety of the thread pool, for any number of workers, parts and         *)
(* attempts.  The argument: the work queue is always the end of the list   *)
(* of items it was filled with, so the part at its head has never been     *)
(* taken, and a part is in one place at a time; and a worker that ends     *)
(* takes at most its own sentinel, so those still running find theirs.     *)
(***************************************************************************)
EXTENDS ConcurrentTransferer, FiniteSetTheorems, SequenceTheorems, TLAPS

TotalItems == TotalParts + NumThreads

\* The number of items handed out so far.
Taken == TotalItems - Len(worker_queue)

Exited == {w \in Worker : wpc[w] = "exited"}

Busy == {"chunk", "put_ok", "put_error"}

\* Before the call has filled the queue nothing has happened.
NotStarted ==
    main = "start" => /\ worker_queue = <<>>
                      /\ result_queue = <<>>
                      /\ hash_chunks = {}
                      /\ \A w \in Worker : wpc[w] = "new"

\* The work queue is a suffix of the items it was filled with.
QueueIsSuffix ==
    /\ Len(worker_queue) <= TotalItems
    /\ \A n \in 1..Len(worker_queue) : worker_queue[n] = Item(Taken + n)

\* A worker has a part exactly while it works on it or on its result.
WorkWhileBusy == \A w \in Worker : wpc[w] \in Busy <=> work[w] \in Part

\* Parts a worker, the result queue or main has were handed out ...
PartsWereTaken ==
    main # "start" =>
      /\ \A w \in Worker : work[w] \in Part => work[w] < Taken
      /\ \A n \in 1..Len(result_queue) : result_queue[n].part < Taken
      /\ \A p \in hash_chunks : p < Taken

\* ... and each is in one place.
PartsAreApart ==
    /\ \A u, w \in Worker : u # w /\ work[u] \in Part => work[u] # work[w]
    /\ \A w \in Worker : \A n \in 1..Len(result_queue) : work[w] # result_queue[n].part
    /\ \A w \in Worker : work[w] \notin hash_chunks
    /\ \A m, n \in 1..Len(result_queue) :
          m # n => result_queue[m].part # result_queue[n].part
    /\ \A n \in 1..Len(result_queue) : result_queue[n].part \notin hash_chunks

\* Main has filled a slot of hash_chunks with each result it counted.
ReceivedAreCounted == received = Cardinality(hash_chunks)

\* Items are left for the workers that have not ended, and for each a sentinel.
ItemsAreLeft ==
    main \in {"spawn", "wait"} \/ (\E w \in Worker : wpc[w] # "new") =>
        Len(worker_queue) + Cardinality(Exited) >= NumThreads

IInv ==
    /\ TypeOK
    /\ NotStarted
    /\ QueueIsSuffix
    /\ WorkWhileBusy
    /\ PartsWereTaken
    /\ PartsAreApart
    /\ ReceivedAreCounted
    /\ ItemsAreLeft
    /\ AllSlotsFilled
    /\ QuietAfterJoin

-----------------------------------------------------------------------------
LEMMA NumThreadsType == NumThreads \in Nat /\ TotalItems \in Nat
BY TransferAssumption, FS_CardinalityType DEF NumThreads, TotalItems

LEMMA PartIsFinite == IsFiniteSet(Part) /\ Cardinality(Part) = TotalParts
BY TransferAssumption, FS_Interval DEF Part

LEMMA NothingIsAPart == NoPart \notin Part /\ End \notin Part
BY TransferAssumption DEF Part

\* What taking the head of a sequence does.
LEMMA TailFacts ==
    ASSUME NEW S, NEW s \in Seq(S), s # <<>>
    PROVE  /\ Len(s) \in Nat \ {0}
           /\ Head(s) \in S /\ Head(s) = s[1]
           /\ Tail(s) \in Seq(S)
           /\ Len(Tail(s)) = Len(s) - 1
           /\ \A n \in 1..Len(Tail(s)) : n + 1 \in 1..Len(s) /\ Tail(s)[n] = s[n + 1]
OBVIOUS

\* The set of ended workers is a set of workers, and one more of them counts.
LEMMA ExitedFacts ==
    /\ IsFiniteSet(Exited)
    /\ Cardinality(Exited) \in Nat
    /\ Cardinality(Exited) <= NumThreads
    /\ \A w \in Worker \ Exited :
          /\ Cardinality(Exited) < NumThreads
          /\ Cardinality(Exited \cup {w}) = Cardinality(Exited) + 1
<1>1. Exited \in SUBSET Worker
  BY DEF Exited
<1>2. /\ IsFiniteSet(Exited)
      /\ Cardinality(Exited) <= NumThreads
      /\ Cardinality(Worker) = Cardinality(Exited) => Worker = Exited
  BY <1>1, FS_Subset, TransferAssumption DEF NumThreads
<1>3. Cardinality(Exited) \in Nat
  BY <1>2, FS_CardinalityType
<1>4. ASSUME NEW w \in Worker \ Exited
      PROVE  Cardinality(Exited \cup {w}) = Cardinality(Exited) + 1
  BY <1>2, FS_AddElement
<1>5. QED
  BY <1>2, <1>3, <1>4, NumThreadsType DEF NumThreads

LEMMA InitHolds == TransferInit => IInv
<1> SUFFICES ASSUME TransferInit PROVE IInv
  OBVIOUS
<1> USE DEF TransferInit
<1>1. TypeOK
  <2>1. worker_queue \in Seq(Part \cup {End}) /\ result_queue \in Seq(Result)
    BY EmptySeq
  <2>2. QED
    BY <2>1 DEF TypeOK, MainPC, WorkerPC
<1>2. NotStarted
  BY DEF NotStarted
<1>3. QueueIsSuffix
  BY NumThreadsType DEF QueueIsSuffix
<1>4. WorkWhileBusy /\ PartsAreApart
  BY NothingIsAPart DEF WorkWhileBusy, PartsAreApart, Busy
<1>5. ReceivedAreCounted
  BY FS_EmptySet DEF ReceivedAreCounted
<1>6. PartsWereTaken /\ ItemsAreLeft /\ AllSlotsFilled /\ QuietAfterJoin
  BY DEF PartsWereTaken, ItemsAreLeft, AllSlotsFilled, QuietAfterJoin
<1>7. QED
  BY <1>1, <1>2, <1>3, <1>4, <1>5, <1>6 DEF IInv

-----------------------------------------------------------------------------
(* The steps of the main thread.                                           *)

LEMMA AddWorkItemsHolds ==
    ASSUME IInv, AddWorkItems
    PROVE  IInv'
<1> USE DEF IInv, AddWorkItems, workerVars
<1>1. /\ worker_queue' \in Seq(Part \cup {End})
      /\ Len(worker_queue') = TotalItems
      /\ \A n \in 1..TotalItems : worker_queue'[n] = Item(n)
  BY NumThreadsType, TransferAssumption DEF TotalItems, Item, Part
<1>2. TypeOK'
  BY <1>1 DEF TypeOK, MainPC
<1>3. QueueIsSuffix'
  <2>1. Taken' = 0
    BY <1>1, NumThreadsType DEF Taken, TotalItems, NumThreads
  <2>2. QED
    BY <1>1, <2>1, NumThreadsType DEF QueueIsSuffix, Item, TotalItems, NumThreads
<1>4. /\ \A w \in Worker : work[w] \notin Part
      /\ result_queue = <<>>
      /\ hash_chunks = {}
  BY DEF NotStarted, WorkWhileBusy, Busy
<1>5. WorkWhileBusy' /\ PartsWereTaken' /\ PartsAreApart'
  BY <1>4 DEF PartsWereTaken, PartsAreApart, WorkWhileBusy, NotStarted
<1>6. ItemsAreLeft'
  <2>1. Cardinality(Exited)' \in Nat
    BY ExitedFacts DEF Exited
  <2>2. QED
    BY <1>1, <2>1, NumThreadsType, TransferAssumption DEF ItemsAreLeft, TotalItems
<1>7. NotStarted' /\ ReceivedAreCounted' /\ AllSlotsFilled' /\ QuietAfterJoin'
  BY DEF NotStarted, ReceivedAreCounted, AllSlotsFilled, QuietAfterJoin
<1>8. QED
  BY <1>2, <1>3, <1>5, <1>6, <1>7

LEMMA SpawnThreadHolds ==
    ASSUME IInv, NEW w \in Worker, SpawnThread(w)
    PROVE  IInv'
<1> USE DEF IInv, SpawnThread
<1>1. TypeOK'
  BY DEF TypeOK, MainPC, WorkerPC
<1>2. Exited' = Exited
  BY DEF Exited, TypeOK
<1>3. ItemsAreLeft'
  BY <1>2 DEF ItemsAreLeft
<1>4. WorkWhileBusy'
  BY DEF WorkWhileBusy, Busy, TypeOK
<1>5. /\ NotStarted' /\ QueueIsSuffix' /\ PartsWereTaken' /\ PartsAreApart'
      /\ ReceivedAreCounted' /\ AllSlotsFilled' /\ QuietAfterJoin'
  BY DEF NotStarted, QueueIsSuffix, Taken, PartsWereTaken, PartsAreApart,
         ReceivedAreCounted, AllSlotsFilled, QuietAfterJoin
<1>6. QED
  BY <1>1, <1>3, <1>4, <1>5

LEMMA TakeResultHolds ==
    ASSUME IInv, TakeResult
    PROVE  IInv'
<1> USE DEF IInv, TakeResult, workerVars
<1> DEFINE p == Head(result_queue).part
<1>1. /\ result_queue \in Seq(Result)
      /\ result_queue # <<>>
  BY DEF TypeOK
<1>2. /\ Head(result_queue) = result_queue[1]
      /\ 1 \in 1..Len(result_queue)
      /\ p \in Part
      /\ result_queue' \in Seq(Result)
      /\ Len(result_queue') = Len(result_queue) - 1
      /\ \A n \in 1..Len(result_queue') :
            /\ n + 1 \in 1..Len(result_queue) /\ n + 1 # 1
            /\ result_queue'[n] = result_queue[n + 1]
  <2>1. Head(result_queue) \in Result
    BY <1>1, TailFacts
  <2>2. p \in Part
    BY <2>1 DEF Result
  <2>3. QED
    BY <1>1, <2>2, TailFacts
<1>3. TypeOK'
  <2>1. hash_chunks' \subseteq Part /\ received' \in Nat
    BY <1>2 DEF TypeOK
  <2>2. main' \in MainPC /\ failed' \in BOOLEAN
    BY DEF TypeOK, MainPC
  <2>3. QED
    BY <1>2, <2>1, <2>2 DEF TypeOK
<1>4. p \notin hash_chunks
  BY <1>2 DEF PartsAreApart
<1>5. hash_chunks' \subseteq hash_chunks \cup {p}
  OBVIOUS
<1>6. PartsWereTaken'
  BY <1>2, <1>5 DEF PartsWereTaken, Taken
<1>7. PartsAreApart'
  <2>1. \A w \in Worker : work[w] # p
    BY <1>2 DEF PartsAreApart
  <2>2. \A n \in 1..Len(result_queue') : result_queue'[n].part # p
    BY <1>2 DEF PartsAreApart
  <2>3. \A m, n \in 1..Len(result_queue') : m # n => result_queue'[m].part # result_queue'[n].part
    BY <1>2 DEF PartsAreApart
  <2>4. QED
    BY <1>2, <1>5, <2>1, <2>2, <2>3 DEF PartsAreApart
<1>8. ReceivedAreCounted'
  <2>1. IsFiniteSet(hash_chunks)
    BY PartIsFinite, FS_Subset DEF TypeOK
  <2>2. Cardinality(hash_chunks \cup {p}) = Cardinality(hash_chunks) + 1
    BY <2>1, <1>4, FS_AddElement
  <2>3. QED
    BY <2>2 DEF ReceivedAreCounted
<1>9. NotStarted' /\ QueueIsSuffix' /\ WorkWhileBusy' /\ AllSlotsFilled' /\ QuietAfterJoin'
  BY DEF NotStarted, QueueIsSuffix, Taken, WorkWhileBusy, AllSlotsFilled, QuietAfterJoin
<1>10. ItemsAreLeft'
  BY DEF ItemsAreLeft, Exited
<1>11. QED
  BY <1>3, <1>6, <1>7, <1>8, <1>9, <1>10

LEMMA LoseResultHolds ==
    ASSUME IInv, LoseResult
    PROVE  IInv'
<1> USE DEF IInv, LoseResult, workerVars
<1>1. /\ result_queue' \in Seq(Result)
      /\ \A n \in 1..Len(result_queue') :
            /\ n + 1 \in 1..Len(result_queue)
            /\ result_queue'[n] = result_queue[n + 1]
  BY TailFacts DEF TypeOK
<1>2. TypeOK'
  BY <1>1 DEF TypeOK, MainPC
<1>3. PartsWereTaken'
  BY <1>1 DEF PartsWereTaken, Taken
<1>4. PartsAreApart'
  <2>1. \A m, n \in 1..Len(result_queue') : m # n => result_queue'[m].part # result_queue'[n].part
    BY <1>1 DEF PartsAreApart
  <2>2. QED
    BY <1>1, <2>1 DEF PartsAreApart
<1>5. /\ NotStarted' /\ QueueIsSuffix' /\ WorkWhileBusy' /\ ReceivedAreCounted'
      /\ ItemsAreLeft' /\ AllSlotsFilled' /\ QuietAfterJoin'
  BY DEF NotStarted, QueueIsSuffix, Taken, WorkWhileBusy, ReceivedAreCounted,
         ItemsAreLeft, Exited, AllSlotsFilled, QuietAfterJoin
<1>6. QED
  BY <1>2, <1>3, <1>4, <1>5

LEMMA AllReceivedHolds ==
    ASSUME IInv, AllReceived
    PROVE  IInv'
<1> USE DEF IInv, AllReceived, workerVars
<1>1. hash_chunks = Part
  BY PartIsFinite, FS_Subset DEF TypeOK, ReceivedAreCounted
<1>2. TypeOK' /\ AllSlotsFilled'
  BY <1>1 DEF TypeOK, MainPC, AllSlotsFilled
<1>3. NotStarted' /\ QueueIsSuffix' /\ WorkWhileBusy' /\ PartsAreApart'
  BY DEF NotStarted, QueueIsSuffix, Taken, WorkWhileBusy, PartsAreApart
<1>4. PartsWereTaken'
  BY DEF PartsWereTaken, Taken
<1>5. ItemsAreLeft'
  BY DEF ItemsAreLeft, Exited
<1>6. ReceivedAreCounted' /\ QuietAfterJoin'
  BY DEF ReceivedAreCounted, QuietAfterJoin
<1>7. QED
  BY <1>2, <1>3, <1>4, <1>5, <1>6

\* The steps of the shutdown and the end of the call touch no part.
LEMMA ShutdownHolds ==
    ASSUME IInv,
           \/ \E w \in Worker : StopThread(w)
           \/ JoinThreads
           \/ main \in {"start", "spawn", "wait"} /\ EndCall("raised")
           \/ main = "joined" /\ \E how \in {"returned", "raised"} : EndCall(how)
    PROVE  IInv'
<1> USE DEF IInv, StopThread, JoinThreads, EndCall, workerVars
<1>1. /\ UNCHANGED <<received, hash_chunks, failed, wpc, work, attempt, worker_queue, result_queue>>
      /\ main' # "start"
      /\ main' \in {"spawn", "wait"} => main \in {"spawn", "wait"}
  OBVIOUS
<1>2. TypeOK'
  <2>1. main' \in MainPC /\ should_continue' \in [Worker -> BOOLEAN]
    BY DEF TypeOK, MainPC
  <2>2. QED
    BY <1>1, <2>1 DEF TypeOK
<1>3. QueueIsSuffix' /\ WorkWhileBusy' /\ PartsAreApart' /\ ReceivedAreCounted' /\ NotStarted'
  BY <1>1 DEF QueueIsSuffix, Taken, WorkWhileBusy, PartsAreApart, ReceivedAreCounted, NotStarted
<1>4. PartsWereTaken'
  <2>1. CASE main = "start"
    <3>1. /\ \A w \in Worker : work[w] \notin Part
          /\ result_queue = <<>>
          /\ hash_chunks = {}
      BY <2>1 DEF NotStarted, WorkWhileBusy, Busy
    <3>2. QED
      BY <1>1, <3>1 DEF PartsWereTaken
  <2>2. CASE main # "start"
    BY <1>1, <2>2 DEF PartsWereTaken, Taken
  <2>3. QED
    BY <2>1, <2>2
<1>5. ItemsAreLeft'
  BY <1>1 DEF ItemsAreLeft, Exited
<1>6. AllSlotsFilled'
  BY DEF AllSlotsFilled
<1>7. QuietAfterJoin'
  BY DEF QuietAfterJoin
<1>8. QED
  BY <1>2, <1>3, <1>4, <1>5, <1>6, <1>7

-----------------------------------------------------------------------------
(* The steps of a worker.                                                  *)

\* A worker that is running has been started, and main has not joined it.
LEMMA RunningFacts ==
    ASSUME IInv, NEW w \in Worker, wpc[w] \notin {"new", "exited"}
    PROVE  /\ main # "start"
           /\ main \notin {"joined", "returned"}
           /\ Len(worker_queue) + Cardinality(Exited) >= NumThreads
BY DEF IInv, NotStarted, QuietAfterJoin, ItemsAreLeft

LEMMA CheckContinueHolds ==
    ASSUME IInv, NEW w \in Worker, CheckContinue(w)
    PROVE  IInv'
<1> USE DEF IInv, CheckContinue, mainVars
<1>1. /\ main # "start" /\ main \notin {"joined", "returned"}
      /\ Len(worker_queue) + Cardinality(Exited) >= NumThreads
  BY RunningFacts
<1>2. TypeOK'
  BY DEF TypeOK, WorkerPC
<1>3. WorkWhileBusy'
  BY DEF WorkWhileBusy, Busy, TypeOK
<1>4. ItemsAreLeft'
  <2>1. Exited' = Exited \/ Exited' = Exited \cup {w}
    BY DEF Exited, TypeOK
  <2>2. w \notin Exited
    BY DEF Exited
  <2>3. Cardinality(Exited') >= Cardinality(Exited) /\ Cardinality(Exited') \in Nat
    BY <2>1, <2>2, ExitedFacts
  <2>4. Len(worker_queue) \in Nat
    BY DEF TypeOK
  <2>5. QED
    BY <1>1, <2>3, <2>4, ExitedFacts, NumThreadsType DEF ItemsAreLeft
<1>5. /\ NotStarted' /\ QueueIsSuffix' /\ PartsWereTaken' /\ PartsAreApart'
      /\ ReceivedAreCounted' /\ AllSlotsFilled' /\ QuietAfterJoin'
  BY <1>1 DEF NotStarted, QueueIsSuffix, Taken, PartsWereTaken, PartsAreApart,
              ReceivedAreCounted, AllSlotsFilled, QuietAfterJoin
<1>6. QED
  BY <1>2, <1>3, <1>4, <1>5

LEMMA AttemptHolds ==
    ASSUME IInv, NEW w \in Worker, ChunkDone(w) \/ ChunkFails(w)
    PROVE  IInv'
<1> USE DEF IInv, ChunkDone, ChunkFails, mainVars
<1>1. /\ main # "start" /\ main \notin {"joined", "returned"}
      /\ Len(worker_queue) + Cardinality(Exited) >= NumThreads
  BY RunningFacts
<1>2. /\ wpc' \in [Worker -> WorkerPC]
      /\ wpc[w] = "chunk" /\ wpc'[w] \in Busy
      /\ \A u \in Worker \ {w} : wpc'[u] = wpc[u]
      /\ UNCHANGED <<mainVars, work, worker_queue, result_queue, should_continue>>
  BY DEF TypeOK, WorkerPC, Busy
<1>3. TypeOK'
  <2>1. attempt \in [Worker -> Nat]
    BY DEF TypeOK
  <2>2. attempt' = attempt \/ attempt' = [attempt EXCEPT ![w] = @ + 1]
    OBVIOUS
  <2>3. attempt' \in [Worker -> Nat]
    BY <2>1, <2>2
  <2>4. QED
    BY <1>2, <2>3 DEF TypeOK
<1>4. WorkWhileBusy'
  BY <1>2 DEF WorkWhileBusy, Busy
<1>5. Exited' = Exited
  BY <1>2 DEF Exited, Busy
<1>6. ItemsAreLeft'
  BY <1>1, <1>2, <1>5 DEF ItemsAreLeft
<1>7. /\ NotStarted' /\ QueueIsSuffix' /\ PartsWereTaken' /\ PartsAreApart'
      /\ ReceivedAreCounted' /\ AllSlotsFilled' /\ QuietAfterJoin'
  BY <1>1, <1>2 DEF NotStarted, QueueIsSuffix, Taken, PartsWereTaken, PartsAreApart,
              ReceivedAreCounted, AllSlotsFilled, QuietAfterJoin
<1>8. QED
  BY <1>3, <1>4, <1>6, <1>7

LEMMA GetWorkHolds ==
    ASSUME IInv, NEW w \in Worker, GetWork(w)
    PROVE  IInv'
<1> USE DEF IInv, GetWork, mainVars
<1> DEFINE item == Head(worker_queue)
<1>1. /\ main # "start" /\ main \notin {"joined", "returned"}
      /\ Len(worker_queue) + Cardinality(Exited) >= NumThreads
  BY RunningFacts
<1>2. /\ Len(worker_queue) \in Nat \ {0}
      /\ item \in Part \cup {End} /\ item = worker_queue[1]
      /\ worker_queue' \in Seq(Part \cup {End})
      /\ Len(worker_queue') = Len(worker_queue) - 1
      /\ \A n \in 1..Len(worker_queue') :
            n + 1 \in 1..Len(worker_queue) /\ worker_queue'[n] = worker_queue[n + 1]
  BY TailFacts DEF TypeOK
<1>3. /\ Taken \in Nat /\ Taken < TotalItems
      /\ Taken' = Taken + 1
      /\ item = Item(Taken + 1)
  <2>1. Len(worker_queue) <= TotalItems /\ item = Item(Taken + 1)
    BY <1>2 DEF QueueIsSuffix
  <2>2. QED
    BY <1>2, <2>1, NumThreadsType DEF Taken, TotalItems, NumThreads
<1>4. QueueIsSuffix'
  <2>1. \A n \in 1..Len(worker_queue') : worker_queue'[n] = Item(Taken' + n)
    <3>1. TAKE n \in 1..Len(worker_queue')
    <3>2. worker_queue'[n] = Item(Taken + (n + 1))
      BY <1>2 DEF QueueIsSuffix
    <3>3. Taken + (n + 1) = Taken' + n
      BY <1>2, <1>3
    <3>4. QED
      BY <3>2, <3>3
  <2>2. Len(worker_queue') <= TotalItems'
    BY <1>2, NumThreadsType DEF QueueIsSuffix, TotalItems, NumThreads
  <2>3. QED
    BY <2>1, <2>2 DEF QueueIsSuffix, Item
<1>5. /\ \A u \in Worker : work[u] \in Part => work[u] \in Nat /\ work[u] < Taken
      /\ \A n \in 1..Len(result_queue) :
            result_queue[n].part \in Nat /\ result_queue[n].part < Taken
      /\ \A p \in hash_chunks : p \in Nat /\ p < Taken
  <2>1. \A n \in 1..Len(result_queue) : result_queue[n] \in Result
    BY DEF TypeOK
  <2>2. QED
    BY <1>1, <2>1 DEF PartsWereTaken, TypeOK, Part, Result
<1>6. CASE item = End
  <2>1. /\ wpc' = [wpc EXCEPT ![w] = "exited"]
        /\ UNCHANGED <<work, attempt>>
    BY <1>6
  <2>2. TypeOK'
    BY <1>2, <2>1 DEF TypeOK, WorkerPC
  <2>3. WorkWhileBusy'
    BY <2>1 DEF WorkWhileBusy, Busy, TypeOK
  <2>4. PartsWereTaken'
    BY <1>3, <1>5, <2>1 DEF PartsWereTaken
  <2>5. PartsAreApart'
    BY <2>1 DEF PartsAreApart
  <2>6. ItemsAreLeft'
    <3>1. Exited' = Exited \cup {w} /\ w \notin Exited
      BY <2>1 DEF Exited, TypeOK
    <3>2. Cardinality(Exited') = Cardinality(Exited) + 1 /\ Cardinality(Exited) \in Nat
      BY <3>1, ExitedFacts
    <3>3. QED
      BY <1>1, <1>2, <3>2, NumThreadsType DEF ItemsAreLeft
  <2>7. NotStarted' /\ ReceivedAreCounted' /\ AllSlotsFilled' /\ QuietAfterJoin'
    BY <1>1 DEF NotStarted, ReceivedAreCounted, AllSlotsFilled, QuietAfterJoin
  <2>8. QED
    BY <1>4, <2>2, <2>3, <2>4, <2>5, <2>6, <2>7
<1>7. CASE item # End
  <2>1. /\ wpc' = [wpc EXCEPT ![w] = "chunk"]
        /\ work' = [work EXCEPT ![w] = item]
        /\ attempt' = [attempt EXCEPT ![w] = 0]
    BY <1>7
  <2>2. item = Taken /\ item \in Part /\ Taken < TotalParts
    BY <1>2, <1>3, <1>7, TransferAssumption DEF Item, Part
  <2>3. TypeOK'
    BY <1>2, <2>1, <2>2 DEF TypeOK, WorkerPC
  <2>4. WorkWhileBusy'
    BY <2>1, <2>2 DEF WorkWhileBusy, Busy, TypeOK
  <2>5. \A u \in Worker : work'[u] = IF u = w THEN Taken ELSE work[u]
    BY <2>1, <2>2 DEF TypeOK
  <2>6. PartsWereTaken'
    BY <1>3, <1>5, <2>5 DEF PartsWereTaken
  <2>7. PartsAreApart'
    <3>1. \A u \in Worker : work[u] # Taken
      BY <1>3, <1>5, <2>2
    <3>2. /\ \A n \in 1..Len(result_queue) : result_queue[n].part # Taken
          /\ Taken \notin hash_chunks
      BY <1>3, <1>5
    <3>3. \A u, v \in Worker : u # v /\ work'[u] \in Part => work'[u] # work'[v]
      BY <2>5, <3>1 DEF PartsAreApart
    <3>4. QED
      BY <2>5, <3>2, <3>3 DEF PartsAreApart
  <2>8. ItemsAreLeft'
    <3>1. Exited' = Exited
      BY <2>1 DEF Exited, TypeOK
    <3>2. Len(worker_queue') >= NumThreads
      BY <1>2, <1>3, <2>2, NumThreadsType, TransferAssumption DEF Taken, TotalItems
    <3>3. QED
      BY <1>2, <3>1, <3>2, ExitedFacts, NumThreadsType DEF ItemsAreLeft
  <2>9. NotStarted' /\ ReceivedAreCounted' /\ AllSlotsFilled' /\ QuietAfterJoin'
    BY <1>1 DEF NotStarted, ReceivedAreCounted, AllSlotsFilled, QuietAfterJoin
  <2>10. QED
    BY <1>4, <2>3, <2>4, <2>6, <2>7, <2>8, <2>9
<1>8. QED
  BY <1>6, <1>7

LEMMA PutResultHolds ==
    ASSUME IInv, NEW w \in Worker, PutResult(w)
    PROVE  IInv'
<1> USE DEF IInv, PutResult, mainVars
<1> DEFINE r == [part |-> work[w], ok |-> wpc[w] = "put_ok"]
           last == Len(result_queue) + 1
<1>1. /\ main # "start" /\ main \notin {"joined", "returned"}
      /\ Len(worker_queue) + Cardinality(Exited) >= NumThreads
  BY RunningFacts
<1>2. work[w] \in Part /\ r \in Result
  <2>1. work[w] \in Part
    BY DEF WorkWhileBusy, Busy
  <2>2. QED
    BY <2>1 DEF Result
<1>3. /\ result_queue' \in Seq(Result)
      /\ Len(result_queue) \in Nat
      /\ Len(result_queue') = last
      /\ \A n \in 1..Len(result_queue) : result_queue'[n] = result_queue[n]
      /\ result_queue'[last] = r
  BY <1>2, AppendProperties DEF TypeOK
<1>4. \A u \in Worker : work'[u] = IF u = w THEN NoPart ELSE work[u]
  BY DEF TypeOK
<1>5. TypeOK'
  BY <1>3 DEF TypeOK, WorkerPC
<1>6. WorkWhileBusy'
  BY <1>4, NothingIsAPart DEF WorkWhileBusy, Busy, TypeOK
<1>7. PartsWereTaken'
  BY <1>1, <1>2, <1>3, <1>4, NothingIsAPart DEF PartsWereTaken, Taken
<1>8. PartsAreApart'
  <2>1. /\ \A u \in Worker \ {w} : work[u] # work[w]
        /\ \A n \in 1..Len(result_queue) : result_queue[n].part # work[w]
        /\ work[w] \notin hash_chunks
    BY <1>2 DEF PartsAreApart
  <2>2. \A u, v \in Worker : u # v /\ work'[u] \in Part => work'[u] # work'[v]
    BY <1>4, NothingIsAPart DEF PartsAreApart
  <2>3. \A n \in 1..last : result_queue'[n].part =
                             IF n = last THEN work[w] ELSE result_queue[n].part
    BY <1>3
  <2>4. \A n \in 1..last : result_queue'[n].part \in Part
    <3>1. \A n \in 1..last : result_queue'[n] \in Result
      BY <1>3, ElementOfSeq
    <3>2. QED
      BY <3>1 DEF Result
  <2>5. \A u \in Worker : \A n \in 1..last : work'[u] # result_queue'[n].part
    <3>1. SUFFICES ASSUME NEW u \in Worker, NEW n \in 1..last
                   PROVE  work'[u] # result_queue'[n].part
      OBVIOUS
    <3>2. CASE u = w
      BY <1>4, <2>4, <3>2, NothingIsAPart
    <3>3. CASE u # w
      BY <1>3, <1>4, <2>1, <2>3, <3>3 DEF PartsAreApart
    <3>4. QED
      BY <3>2, <3>3
  <2>6. \A u \in Worker : work'[u] \notin hash_chunks
    BY <1>4, NothingIsAPart DEF PartsAreApart, TypeOK
  <2>7. \A m, n \in 1..last : m # n => result_queue'[m].part # result_queue'[n].part
    BY <1>3, <2>1, <2>3 DEF PartsAreApart
  <2>8. \A n \in 1..last : result_queue'[n].part \notin hash_chunks
    BY <1>3, <2>1, <2>3 DEF PartsAreApart
  <2>9. QED
    BY <1>3, <2>2, <2>5, <2>6, <2>7, <2>8 DEF PartsAreApart
<1>9. ItemsAreLeft'
  <2>1. Exited' = Exited
    BY DEF Exited, TypeOK
  <2>2. QED
    BY <1>1, <2>1 DEF ItemsAreLeft
<1>10. /\ NotStarted' /\ QueueIsSuffix' /\ ReceivedAreCounted'
       /\ AllSlotsFilled' /\ QuietAfterJoin'
  BY <1>1 DEF NotStarted, QueueIsSuffix, Taken, ReceivedAreCounted,
              AllSlotsFilled, QuietAfterJoin
<1>11. QED
  BY <1>5, <1>6, <1>7, <1>8, <1>9, <1>10

-----------------------------------------------------------------------------
(* The theorems.                                                           *)

LEMMA StepHolds ==
    ASSUME IInv, [TransferNext]_transferVars
    PROVE  IInv'
<1>1. CASE MainStep
  BY <1>1, AddWorkItemsHolds, SpawnThreadHolds, TakeResultHolds, AllReceivedHolds,
     ShutdownHolds DEF MainStep
<1>2. CASE main \in {"start", "spawn", "wait"} /\ EndCall("raised")
  BY <1>2, ShutdownHolds
<1>3. CASE LoseResult
  BY <1>3, LoseResultHolds
<1>4. ASSUME NEW w \in Worker, WorkerStep(w)
      PROVE  IInv'
  BY <1>4, CheckContinueHolds, GetWorkHolds, AttemptHolds, PutResultHolds DEF WorkerStep
<1>5. CASE UNCHANGED transferVars
  BY <1>5 DEF transferVars, mainVars, workerVars, IInv, TypeOK, NotStarted, QueueIsSuffix,
              Taken, WorkWhileBusy, PartsWereTaken, PartsAreApart, ReceivedAreCounted,
              ItemsAreLeft, Exited, AllSlotsFilled, QuietAfterJoin
<1>6. QED
  BY <1>1, <1>2, <1>3, <1>4, <1>5 DEF TransferNext

\* The inductive invariant holds in every behaviour of the pool
\* (concurrent.py: the queues shared by main and TransferThread.run).
THEOREM PoolInvariant == TransferSafety => []IInv
BY InitHolds, StepHolds, PTL DEF TransferSafety

\* Every variable of the pool keeps its type.
THEOREM PoolTypeCorrect == TransferSpec => []TypeOK
<1>1. IInv => TypeOK
  BY DEF IInv
<1>2. QED
  BY <1>1, PoolInvariant, PTL DEF TransferSpec

\* No worker ever finds the work queue empty, so the handler of the timeout
\* with its missing name is dead code (concurrent.py:197-201).
THEOREM PoolWorkIsWaiting == TransferSpec => []WorkIsWaiting
<1>1. IInv => WorkIsWaiting
  <2>1. SUFFICES ASSUME IInv, NEW w \in Worker, wpc[w] = "get"
                 PROVE  worker_queue # <<>>
    BY DEF WorkIsWaiting
  <2>2. Len(worker_queue) + Cardinality(Exited) >= NumThreads
    BY <2>1 DEF IInv, ItemsAreLeft
  <2>3. w \in Worker \ Exited
    BY <2>1 DEF Exited
  <2>4. Cardinality(Exited) < NumThreads /\ Cardinality(Exited) \in Nat
    BY <2>3, ExitedFacts
  <2>5. Len(worker_queue) # 0
    BY <2>2, <2>4, NumThreadsType
  <2>6. QED
    BY <2>5, EmptySeq
<1>2. QED
  BY <1>1, PoolInvariant, PTL DEF TransferSpec

\* When main has counted total_parts results, it has one for every part
\* (concurrent.py:160-174): the tree hash is computed from full slots.
THEOREM PoolAllSlotsFilled == TransferSpec => []AllSlotsFilled
<1>1. IInv => AllSlotsFilled
  BY DEF IInv
<1>2. QED
  BY <1>1, PoolInvariant, PTL DEF TransferSpec

\* After _shutdown_threads no worker is in the middle of a part
\* (concurrent.py:60-66).
THEOREM PoolQuietAfterJoin == TransferSpec => []QuietAfterJoin
<1>1. IInv => QuietAfterJoin
  BY DEF IInv
<1>2. QED
  BY <1>1, PoolInvariant, PTL DEF TransferSpec
=============================================================================
