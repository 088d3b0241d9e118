--------------------------- MODULE ClientsProofs ---------------------------
(***************************************************************************)
(* What the parts of Clients promise, for any number of clients, keys and  *)
(* retries.  Each part has an inductive invariant of its own; a step of    *)
(* Clients is a step of one part and leaves the others as they are.        *)
(***************************************************************************)
EXTENDS Clients, SequenceTheorems, TLAPS

LEMMA StepsOfParts ==
    ASSUME [Next]_vars
    PROVE  /\ [TaskNext]_taskVars
           /\ [ServiceNext]_serviceVars
           /\ [SequenceNext]_sequenceVars
           /\ [ProviderNext]_providerVars
           /\ [ItemNext]_itemVars
           /\ [BucketNext]_bucketVars
           /\ [SenderNext]_senderVars
BY DEF vars, Next, TaskStep, ServiceStep, SequenceStep, ProviderStep, ItemStep, BucketStep,
       SenderStep

-----------------------------------------------------------------------------
(* Service.                                                                *)

\* What the steps before it have done for the message of a server.
WorkIsDone ==
    \A s \in Server :
       /\ Working(s) => servers[s].job \in Job
       /\ servers[s].pc \in {"write", "delete"} => servers[s].job \in saved
       /\ servers[s].pc = "delete" => output[servers[s].job] > 0

ServiceInv == ServiceTypeOK /\ WorkIsDone /\ DeletedIsDone

LEMMA ServiceInvInit == ServiceInit => ServiceInv
BY ServiceAssumption DEF ServiceInit, ServiceInv, ServiceTypeOK, WorkIsDone, DeletedIsDone,
     Working, Looped

ServerState ==
    [pc : {"read", "process", "save", "write", "delete", "down"},
     job : Job \cup {NoJob}, empty_reads : Nat]

LEMMA LoopedType ==
    ASSUME NEW n \in Nat
    PROVE  /\ Looped(n) \in ServerState
           /\ Looped(n).pc \in {"read", "down"}
BY ServiceAssumption DEF Looped, ServerState

\* Every step changes the state of one server at most.
LEMMA ServerMoves ==
    ASSUME ServiceInv, NEW s \in Server
    PROVE  /\ servers[s] \in ServerState
           /\ servers \in [Server -> ServerState]
           /\ \A new : servers' = [servers EXCEPT ![s] = new] =>
                 /\ servers'[s] = new
                 /\ \A t \in Server \ {s} : servers'[t] = servers[t]
                 /\ new \in ServerState => servers' \in [Server -> ServerState]
           /\ \A to \in {"save", "write", "delete"} :
                 ServerAt(s, to) =>
                    servers' = [servers EXCEPT ![s] =
                       [pc |-> to, job |-> servers[s].job,
                        empty_reads |-> servers[s].empty_reads]]
BY DEF ServiceInv, ServiceTypeOK, ServerState, ServerAt

LEMMA ServiceTypeStep ==
    ASSUME ServiceInv, ServiceNext
    PROVE  ServiceTypeOK'
<1> USE ServiceAssumption DEF ServiceInv, ServiceTypeOK, WorkIsDone, Working
<1>1. ASSUME NEW s \in Server, ReadMessage(s) PROVE ServiceTypeOK'
  <2>1. PICK j \in Job : /\ input' = [input EXCEPT ![j] = s]
                         /\ servers' = [servers EXCEPT ![s] =
                                [pc |-> "process", job |-> j, empty_reads |-> 0]]
    BY <1>1 DEF ReadMessage
  <2>2. [pc |-> "process", job |-> j, empty_reads |-> 0] \in ServerState
    BY DEF ServerState
  <2>3. QED
    BY <1>1, <2>1, <2>2, ServerMoves DEF ReadMessage, ServerState
<1>2. ASSUME NEW s \in Server, ReadNothing(s) PROVE ServiceTypeOK'
  <2>1. servers[s].empty_reads + 1 \in Nat
    BY <1>2 DEF ReadNothing
  <2>2. QED
    BY <1>2, <2>1, LoopedType, ServerMoves DEF ReadNothing, ServerState
<1>3. ASSUME NEW s \in Server, ProcessFile(s) \/ SaveResults(s) \/ WriteResult(s)
      PROVE ServiceTypeOK'
  <2>1. PICK to \in {"save", "write", "delete"} : ServerAt(s, to)
    BY <1>3 DEF ProcessFile, SaveResults, WriteResult
  <2>2. servers' \in [Server -> ServerState]
    BY <2>1, ServerMoves DEF ServerState
  <2>3. QED
    BY <1>3, <2>2 DEF ProcessFile, SaveResults, WriteResult, ServerState
<1>4. ASSUME NEW s \in Server, DeleteInput(s) PROVE ServiceTypeOK'
  <2>1. servers' = [servers EXCEPT ![s] = Looped(0)]
    BY <1>4 DEF DeleteInput
  <2>1a. Looped(0) \in ServerState
    BY LoopedType
  <2>2. servers' \in [Server -> ServerState]
    BY <2>1, <2>1a, ServerMoves
  <2>3. QED
    BY <1>4, <2>2 DEF DeleteInput, ServerState
<1>5. ASSUME NEW s \in Server, Fails(s) PROVE ServiceTypeOK'
  <2>1. servers[s].empty_reads + 1 \in Nat
    BY <1>5 DEF Fails
  <2>2. servers' = [servers EXCEPT ![s] = Looped(servers[s].empty_reads + 1)]
    BY <1>5 DEF Fails
  <2>3. servers' \in [Server -> ServerState]
    BY <2>1, <2>2, LoopedType, ServerMoves
  <2>4. LeftBy(s) \in [Job -> {"visible", "deleted", Hidden} \cup Server]
    BY DEF LeftBy
  <2>5. QED
    BY <1>5, <2>3, <2>4 DEF Fails, ServerState
<1>6. ASSUME NEW s \in Server, ServerDies(s) PROVE ServiceTypeOK'
  <2>1a. Looped(0) \in ServerState
    BY LoopedType
  <2>1. servers' \in [Server -> ServerState]
    BY <1>6, <2>1a, ServerMoves DEF ServerDies
  <2>2. QED
    BY <1>6, <2>1 DEF ServerDies, LeftBy, ServerState
<1>7. ASSUME NEW j \in Job, Reappear(j) \/ RunsOut(j) PROVE ServiceTypeOK'
  BY <1>7 DEF Reappear, RunsOut
<1>8. QED
  BY <1>1, <1>2, <1>3, <1>4, <1>5, <1>6, <1>7 DEF ServiceNext, Main

LEMMA ServiceInvStep ==
    ASSUME ServiceInv, [ServiceNext]_serviceVars
    PROVE  ServiceInv'
<1>1. CASE UNCHANGED serviceVars
  BY <1>1 DEF serviceVars, ServiceInv, ServiceTypeOK, WorkIsDone, DeletedIsDone, Working
<1>2. CASE ServiceNext
  <2> USE ServiceAssumption DEF ServiceInv, ServiceTypeOK, WorkIsDone, DeletedIsDone, Working,
            ServerAt, Looped
  <2>1. ServiceTypeOK'
    BY <1>2, ServiceTypeStep
  <2>2. ASSUME NEW s \in Server, ReadMessage(s)
        PROVE  WorkIsDone' /\ DeletedIsDone'
    <3>1. PICK j \in Job : /\ input[j] = "visible"
                           /\ input' = [input EXCEPT ![j] = s]
                           /\ servers' = [servers EXCEPT ![s] =
                                  [pc |-> "process", job |-> j, empty_reads |-> 0]]
      BY <2>2 DEF ReadMessage
    <3>2. s # "deleted"
      OBVIOUS
    <3>3. QED
      BY <2>2, <3>1, <3>2, ServerMoves DEF ReadMessage
  <2>2a. ASSUME NEW s \in Server, ReadNothing(s)
        PROVE  WorkIsDone' /\ DeletedIsDone'
    BY <2>2a DEF ReadNothing
  <2>3. ASSUME NEW s \in Server, ProcessFile(s) \/ SaveResults(s)
        PROVE  WorkIsDone' /\ DeletedIsDone'
    BY <2>3 DEF ProcessFile, SaveResults
  <2>4. ASSUME NEW s \in Server, WriteResult(s)
        PROVE  WorkIsDone' /\ DeletedIsDone'
    BY <2>4 DEF WriteResult
  <2>5. ASSUME NEW s \in Server, DeleteInput(s)
        PROVE  WorkIsDone' /\ DeletedIsDone'
    <3>1. /\ servers'[s].pc \in {"read", "down"}
          /\ \A t \in Server \ {s} : servers'[t] = servers[t]
      BY <2>5 DEF DeleteInput
    <3>2. DeletedIsDone'
      BY <2>5 DEF DeleteInput
    <3>3. QED
      BY <2>5, <3>1, <3>2 DEF DeleteInput
  <2>6. ASSUME NEW s \in Server, Fails(s)
        PROVE  WorkIsDone' /\ DeletedIsDone'
    <3>1. /\ servers'[s].pc \in {"read", "down"}
          /\ \A t \in Server \ {s} : servers'[t] = servers[t]
      BY <2>6 DEF Fails
    <3>2. /\ saved \subseteq saved'
          /\ \A j \in Job : output'[j] >= output[j]
      BY <2>6 DEF Fails
    <3>3. \A j \in Job : input'[j] = "deleted" =>
             \/ input[j] = "deleted"
             \/ (servers[s].pc = "delete" /\ j = servers[s].job)
      BY <2>6 DEF Fails, LeftBy
    <3>4. DeletedIsDone'
      BY <3>2, <3>3, <2>1
    <3>5. WorkIsDone'
      BY <3>1, <3>2, <2>1
    <3>6. QED
      BY <3>4, <3>5
  <2>7. ASSUME NEW s \in Server, ServerDies(s)
        PROVE  WorkIsDone' /\ DeletedIsDone'
    BY <2>7 DEF ServerDies, LeftBy
  <2>8. ASSUME NEW j \in Job, Reappear(j) \/ RunsOut(j)
        PROVE  WorkIsDone' /\ DeletedIsDone'
    BY <2>8 DEF Reappear, RunsOut
  <2>9. QED
    BY <1>2, <2>1, <2>2, <2>2a, <2>3, <2>4, <2>5, <2>6, <2>7, <2>8 DEF ServiceNext, Main
<1>3. QED
  BY <1>1, <1>2

\* No message is deleted before its result has been saved and written
\* (service.py:143-155).
THEOREM ServiceDeletedIsDone == Spec => []DeletedIsDone
<1>1. Init => ServiceInv
  BY ServiceInvInit DEF Init
<1>2. ServiceInv /\ [Next]_vars => ServiceInv'
  BY StepsOfParts, ServiceInvStep
<1>3. ServiceInv => DeletedIsDone
  BY DEF ServiceInv
<1>4. QED
  BY <1>1, <1>2, <1>3, PTL DEF Spec

-----------------------------------------------------------------------------
(* Sequence.                                                               *)

\* A client has seen a value before it puts one; while nothing was reset, the
\* value at the service only grows, one put at a time.
SequenceGrows ==
    /\ \A c \in Client :
          /\ clients[c].pc = "new" => clients[c].value = NoValue
          /\ clients[c].pc \in {"put", "return"} => clients[c].put \in Value
    /\ ~reset =>
         /\ \A c \in Client :
               /\ clients[c].pc \in {"idle", "put", "return"} => current_value # NoValue
               /\ clients[c].pc = "put" =>
                    clients[c].value # NoValue /\ clients[c].put = clients[c].value + 1
               /\ clients[c].pc = "return" => current_value >= clients[c].put
         /\ \A v \in Value : current_value = NoValue \/ v > current_value => taken[v] = 0

SequenceInv == SequenceTypeOK /\ SequenceGrows /\ TakenOnce

LEMMA SequenceInvInit == SequenceInit => SequenceInv
<1> SUFFICES ASSUME SequenceInit
             PROVE  SequenceInv
  OBVIOUS
<1> USE SequenceAssumption DEF SequenceInit
<1>1. SequenceTypeOK
  <2>1. InitVal \in Value
    BY DEF Value
  <2>2. QED
    BY <2>1 DEF SequenceTypeOK
<1>2. SequenceGrows
  BY DEF SequenceGrows
<1>3. TakenOnce
  BY DEF TakenOnce
<1>4. QED
  BY <1>1, <1>2, <1>3 DEF SequenceInv

ClientState ==
    [pc : {"new", "init", "idle", "put", "return"},
     value : Value \cup {NoValue}, put : Value \cup {NoValue}]

\* Every step changes the state of one client.
LEMMA ClientMoves ==
    ASSUME SequenceTypeOK, NEW c \in Client, NEW new \in ClientState,
           clients' = [clients EXCEPT ![c] = new]
    PROVE  /\ clients' \in [Client -> ClientState]
           /\ clients'[c] = new
           /\ \A d \in Client \ {c} : clients'[d] = clients[d]
BY DEF SequenceTypeOK, ClientState

LEMMA SequenceInvStep ==
    ASSUME SequenceInv, [SequenceNext]_sequenceVars
    PROVE  SequenceInv'
<1> USE SequenceAssumption DEF SequenceInv, SequenceTypeOK, SequenceGrows, TakenOnce
<1>1. CASE UNCHANGED sequenceVars
  BY <1>1 DEF sequenceVars
<1>2. ASSUME NEW c \in Client, Bootstrap(c)
      PROVE  SequenceInv'
  <2>1. Got(c) \in Value \cup {NoValue}
    BY DEF Got
  <2> DEFINE new == [pc |-> IF Got(c) \in {NoValue, 0} THEN "init" ELSE "idle",
                     value |-> Got(c), put |-> clients[c].put]
  <2>2. new \in ClientState
    BY <2>1 DEF ClientState
  <2>3. clients' = [clients EXCEPT ![c] = new]
    BY <1>2 DEF Bootstrap
  <2>4. new.pc = "idle" => current_value # NoValue
    BY <1>2 DEF Bootstrap, Got
  <2> HIDE DEF new
  <2>5. QED
    BY <1>2, <2>2, <2>3, <2>4, ClientMoves DEF Bootstrap, ClientState, new
<1>3. ASSUME NEW c \in Client, PutInitVal(c)
      PROVE  SequenceInv'
  <2>1. /\ clients' \in [Client -> ClientState]
        /\ clients'[c].pc = "idle"
        /\ \A d \in Client \ {c} : clients'[d] = clients[d]
    BY <1>3 DEF PutInitVal, ClientAt, ClientState
  <2>2. /\ current_value' = InitVal /\ InitVal \in Value
        /\ ~reset' => ~reset /\ current_value \in {NoValue, InitVal}
        /\ UNCHANGED <<taken, result>>
    <3>1. InitVal \in Value
      BY DEF Value
    <3>2. QED
      BY <1>3, <3>1 DEF PutInitVal
  <2>3. SequenceTypeOK'
    BY <1>3, <2>1, <2>2 DEF PutInitVal, ClientState
  <2>4. SequenceGrows'
    BY <2>1, <2>2 DEF Value
  <2>5. QED
    BY <2>2, <2>3, <2>4
<1>4. ASSUME NEW c \in Client, OutOfSync(c)
      PROVE  SequenceInv'
  BY <1>4 DEF OutOfSync
<1>5. ASSUME NEW c \in Client, NextReads(c)
      PROVE  SequenceInv'
  <2> DEFINE v == Got(c)
             new == [pc |-> "put", value |-> v, put |-> Increment(v)]
  <2>1. v \in Value \cup {NoValue}
    BY DEF Got
  <2>2. clients' = [clients EXCEPT ![c] = new] /\ new.put <= MaxValue
    BY <1>5 DEF NextReads
  <2>3. new \in ClientState /\ new.put \in Value
    BY <2>1, <2>2 DEF ClientState, Increment, Value
  <2>4. ~reset => new.value # NoValue /\ new.put = new.value + 1
    BY <1>5 DEF NextReads, Increment, Got
  <2>4a. new.pc = "put"
    OBVIOUS
  <2> HIDE DEF new
  <2>5. QED
    BY <1>5, <2>2, <2>3, <2>4, <2>4a, ClientMoves DEF NextReads, ClientState
<1>6. ASSUME NEW c \in Client, NextPuts(c) \/ NextRaises(c)
      PROVE  SequenceInv'
  <2>1. PICK to \in {"return", "idle"} : /\ ClientAt(c, to)
                                         /\ to = "return" => PutNext(c)
    BY <1>6 DEF NextPuts, NextRaises
  <2>2. clients[c].pc = "put" /\ clients[c].put \in Value
    BY <1>6 DEF NextPuts, NextRaises
  <2>3. /\ clients' \in [Client -> ClientState]
        /\ clients'[c].pc = to
        /\ clients'[c].put = clients[c].put
        /\ \A d \in Client \ {c} : clients'[d] = clients[d]
    BY <2>1 DEF ClientAt, ClientState
  <2>4. CASE PutNext(c)
    <3>1. /\ current_value' = clients[c].put
          /\ ~reset => current_value # NoValue /\ clients[c].put = current_value + 1
      BY <2>2, <2>4 DEF PutNext, Puts, Expected
    <3>2. /\ taken' \in [Value -> Nat]
          /\ \A v \in Value \ {clients[c].put} : taken'[v] = taken[v]
          /\ ~reset => taken'[clients[c].put] = 1
      BY <2>2, <2>4, <3>1 DEF PutNext, Value
    <3>3. UNCHANGED <<result, reset>>
      BY <1>6 DEF NextPuts, NextRaises
    <3>4. SequenceTypeOK'
      BY <2>2, <2>3, <3>1, <3>2, <3>3 DEF ClientState
    <3>5. SequenceGrows'
      <4>1. \A d \in Client :
               /\ clients'[d].pc = "new" => clients'[d].value = NoValue
               /\ clients'[d].pc \in {"put", "return"} => clients'[d].put \in Value
        BY <2>2, <2>3
      <4>2. ASSUME ~reset, NEW d \in Client
            PROVE  /\ current_value' # NoValue
                   /\ clients'[d].pc = "put" =>
                        clients'[d].value # NoValue /\ clients'[d].put = clients'[d].value + 1
                   /\ clients'[d].pc = "return" => current_value' >= clients'[d].put
        <5>1. /\ current_value' = clients[c].put /\ current_value' \in Int
              /\ current_value' # NoValue
          BY <2>2, <3>1 DEF Value
        <5>2. CASE d = c
          BY <2>3, <5>1, <5>2
        <5>3. CASE d # c
          <6>1. clients'[d] = clients[d]
            BY <2>3, <5>3
          <6>2. current_value \in Int /\ current_value' = current_value + 1
            BY <3>1, <4>2 DEF Value
          <6>3. clients[d].pc = "return" => /\ clients[d].put \in Int
                                            /\ current_value >= clients[d].put
            BY <4>2 DEF Value
          <6> QED
            BY <4>2, <5>1, <6>1, <6>2, <6>3
        <5> QED
          BY <5>2, <5>3
      <4>3. ASSUME ~reset, NEW v \in Value, v > current_value'
            PROVE  taken'[v] = 0
        <5>1. /\ current_value' = clients[c].put /\ current_value \in Int
              /\ current_value' = current_value + 1 /\ v \in Int
          BY <2>2, <3>1, <4>3 DEF Value
        <5>2. v # clients[c].put /\ v > current_value
          BY <4>3, <5>1
        <5> QED
          BY <3>2, <4>3, <5>2
      <4>4. QED
        BY <2>2, <3>1, <3>3, <4>1, <4>2, <4>3
    <3>6. QED
      BY <3>2, <3>3, <3>4, <3>5
  <2>5. CASE UNCHANGED <<current_value, taken>> /\ to = "idle"
    BY <1>6, <2>2, <2>3, <2>5 DEF NextPuts, NextRaises, ClientState
  <2>6. QED
    BY <1>6, <2>1, <2>4, <2>5 DEF NextPuts, NextRaises
<1>7. ASSUME NEW c \in Client, NextReturns(c)
      PROVE  SequenceInv'
  <2>1. Got(c) \in Value \cup {NoValue} /\ clients[c].pc = "return" /\ clients[c].put \in Value
    BY <1>7 DEF NextReturns, Got
  <2>2. /\ clients' \in [Client -> ClientState]
        /\ clients'[c].pc = "idle"
        /\ \A d \in Client \ {c} : clients'[d] = clients[d]
    BY <1>7, <2>1 DEF NextReturns, ClientState
  <2>3. /\ result'.put = clients[c].put
        /\ ~reset => result'.got = current_value /\ current_value # NoValue
        /\ result' \in [put : Value, got : Value \cup {NoValue}]
    BY <1>7, <2>1 DEF NextReturns, Got
  <2>4. UNCHANGED <<current_value, taken, reset>>
    BY <1>7 DEF NextReturns
  <2>5. SequenceTypeOK'
    BY <2>2, <2>3, <2>4 DEF ClientState
  <2>6. SequenceGrows'
    BY <2>1, <2>2, <2>4
  <2>7. TakenOnce'
    BY <2>1, <2>3, <2>4 DEF Value
  <2>8. QED
    BY <2>5, <2>6, <2>7
<1>8. ASSUME NEW c \in Client, Delete(c)
      PROVE  SequenceInv'
  BY <1>8 DEF Delete
<1>9. QED
  BY <1>1, <1>2, <1>3, <1>4, <1>5, <1>6, <1>7, <1>8 DEF SequenceNext

\* Each value is put by one call of next(), unless the sequence was reset
\* (sequence.py:168-190, 217-220).
THEOREM SequenceTakenOnce == Spec => []TakenOnce
<1>1. Init => SequenceInv
  BY SequenceInvInit DEF Init
<1>2. SequenceInv /\ [Next]_vars => SequenceInv'
  BY StepsOfParts, SequenceInvStep
<1>3. SequenceInv => TakenOnce
  BY DEF SequenceInv
<1>4. QED
  BY <1>1, <1>2, <1>3, PTL DEF Spec

-----------------------------------------------------------------------------
(* DynamoItem.                                                             *)

\* Only an object that was made clean has anything to remember.
ItemInv ==
    /\ ItemTypeOK
    /\ InStep
    /\ \A h \in Holder : ~objects[h].keyed => objects[h].orig = NoFields

LEMMA ItemInvInit == ItemInit => ItemInv
BY DEF ItemInit, ItemInv, ItemTypeOK, InStep, NewObject, NoFields, Values

\* What is written has no blank fields.
LEMMA StoredType ==
    ASSUME NEW data \in [Field -> Values]
    PROVE  /\ Stored(data) \in [Field -> Values \ {Blank}]
           /\ Stored(data) # NoItem
BY DynamoItemAssumption, NoItemAssumption DEF Stored, Values

ObjectState ==
    [data : [Field -> Values], orig : [Field -> Values], keyed : BOOLEAN, in_step : BOOLEAN]

\* A write by h leaves the others in step only if it changes nothing.
LEMMA WriteKeeps ==
    ASSUME ItemInv, NEW h \in Holder,
           NEW new \in [Field -> Values \ {Blank}] \cup {NoItem},
           NEW object \in ObjectState,
           object.in_step => new = Stored(object.orig),
           ~object.keyed => object.orig = NoFields,
           Write(h, new, object)
    PROVE  ItemInv'
<1>1. item' = new
  BY DEF Write
<1>2. \A x \in Holder :
         IF x = h THEN objects'[x] = object
         ELSE /\ objects'[x] \in ObjectState
              /\ objects'[x].orig = objects[x].orig
              /\ objects'[x].keyed = objects[x].keyed
              /\ objects'[x].in_step => objects[x].in_step /\ new = item
  BY DEF Write, ItemInv, ItemTypeOK, ObjectState
<1>3. objects' \in [Holder -> ObjectState]
  BY <1>2 DEF Write
<1>4. QED
  BY <1>1, <1>2, <1>3 DEF ItemInv, ItemTypeOK, InStep, ObjectState

\* A successful write of what h holds, and one that raised.
LEMMA WriteOrRaiseKeeps ==
    ASSUME ItemInv, NEW h \in Holder,
           NEW new \in [Field -> Values \ {Blank}], NEW step \in BOOLEAN,
           step => new = Stored(objects[h].data),
           WriteOrRaise(h, new, step)
    PROVE  ItemInv'
<1> DEFINE clean == MarkClean(objects[h], step)
           raised == [objects[h] EXCEPT !.in_step = FALSE]
<1>1. objects[h] \in ObjectState
  BY DEF ItemInv, ItemTypeOK, ObjectState
<1>2. /\ clean \in ObjectState
      /\ clean.orig = objects[h].data /\ clean.keyed /\ clean.in_step = step
  BY <1>1 DEF MarkClean, ObjectState
<1>3. CASE Write(h, new, clean)
  <2>1. /\ clean \in ObjectState
        /\ clean.in_step => new = Stored(clean.orig)
        /\ ~clean.keyed => clean.orig = NoFields
    BY <1>1, <1>2 DEF ObjectState
  <2> HIDE DEF clean
  <2>2. QED
    BY <1>3, <2>1, WriteKeeps
<1>4. CASE Write(h, new, raised)
  <2>1. /\ raised \in ObjectState
        /\ ~raised.in_step
        /\ ~raised.keyed => raised.orig = NoFields
    BY <1>1 DEF ObjectState, ItemInv
  <2> HIDE DEF raised
  <2>2. QED
    BY <1>4, <2>1, WriteKeeps
<1>5. QED
  BY <1>3, <1>4 DEF WriteOrRaise

\* What partial_save makes of an item that is as the object remembers it.
Partly(h) ==
    [f \in Field |-> IF f \in Altered(objects[h]) THEN Stored(objects[h].data)[f]
                     ELSE Attribute(f)]

LEMMA PartlyType ==
    ASSUME ItemInv, NEW h \in Holder
    PROVE  /\ Partly(h) \in [Field -> Values \ {Blank}]
           /\ objects[h].in_step \/ (item = NoItem /\ ~objects[h].keyed) =>
                Partly(h) = Stored(objects[h].data)
<1> USE DynamoItemAssumption, NoItemAssumption
<1>1. objects[h].data \in [Field -> Values] /\ objects[h].orig \in [Field -> Values]
  BY DEF ItemInv, ItemTypeOK
<1>2. Stored(objects[h].data) \in [Field -> Values \ {Blank}]
  BY <1>1, StoredType
<1>3. \A f \in Field : Attribute(f) \in Values \ {Blank}
  BY DEF Attribute, ItemInv, ItemTypeOK, Values
<1>4. Partly(h) \in [Field -> Values \ {Blank}]
  BY <1>2, <1>3 DEF Partly
<1>5. ASSUME objects[h].in_step, NEW f \in Field, f \notin Altered(objects[h])
      PROVE  Attribute(f) = Stored(objects[h].data)[f]
  <2>1. item = Stored(objects[h].orig) /\ item # NoItem
    BY <1>1, <1>5, StoredType DEF ItemInv, InStep
  <2>2. QED
    BY <1>1, <1>5, <2>1 DEF Attribute, Stored, Altered
<1>6. ASSUME item = NoItem, ~objects[h].keyed, NEW f \in Field, f \notin Altered(objects[h])
      PROVE  Attribute(f) = Stored(objects[h].data)[f]
  <2>1. objects[h].orig[f] = Missing
    BY <1>6 DEF ItemInv, NoFields
  <2>2. QED
    BY <1>1, <1>6, <2>1 DEF Attribute, Stored, Altered
<1>7. QED
  <2>1. SUFFICES ASSUME objects[h].in_step \/ (item = NoItem /\ ~objects[h].keyed)
                 PROVE  Partly(h) = Stored(objects[h].data)
    BY <1>4
  <2>2. \A f \in Field : Partly(h)[f] = Stored(objects[h].data)[f]
    BY <1>5, <1>6, <2>1 DEF Partly
  <2>3. QED
    BY <1>2, <1>4, <2>2

LEMMA ItemInvStep ==
    ASSUME ItemInv, [ItemNext]_itemVars
    PROVE  ItemInv'
<1>1. CASE UNCHANGED itemVars
  BY <1>1 DEF itemVars, ItemInv, ItemTypeOK, InStep
<1>2. ASSUME NEW h \in Holder, NewItemObject(h)
      PROVE  ItemInv'
  BY <1>2 DEF NewItemObject, NewObject, NoFields, Values, ItemInv, ItemTypeOK, InStep
<1>3. ASSUME NEW h \in Holder, LoadItem(h)
      PROVE  ItemInv'
  <2>1. item \in [Field -> Values \ {Blank}]
    BY <1>3 DEF LoadItem, ItemInv, ItemTypeOK
  <2>2. Stored(item) = item
    BY <2>1 DEF Stored
  <2>3. QED
    BY <1>3, <2>1, <2>2 DEF LoadItem, ItemInv, ItemTypeOK, InStep
<1>4. ASSUME NEW h \in Holder, SetField(h)
      PROVE  ItemInv'
  <2>1. PICK f \in Field : \E v \in Settable[f] \cup {Missing} :
           objects' = [objects EXCEPT ![h].data[f] = v]
    BY <1>4 DEF SetField
  <2>2. PICK v \in Values : objects' = [objects EXCEPT ![h].data[f] = v]
    BY <2>1 DEF Values
  <2>3. \A x \in Holder : /\ objects'[x].orig = objects[x].orig
                           /\ objects'[x].keyed = objects[x].keyed
                           /\ objects'[x].in_step = objects[x].in_step
    BY <2>2 DEF ItemInv, ItemTypeOK
  <2>4. objects' \in [Holder -> ObjectState]
    BY <2>2 DEF ObjectState, ItemInv, ItemTypeOK
  <2>5. QED
    BY <1>4, <2>3, <2>4 DEF SetField, ItemInv, ItemTypeOK, InStep, ObjectState
<1>5. ASSUME NEW h \in Holder, Save(h) \/ Overwrite(h)
      PROVE  ItemInv'
  <2>1. Stored(objects[h].data) \in [Field -> Values \ {Blank}]
    BY StoredType DEF ItemInv, ItemTypeOK
  <2>2. WriteOrRaise(h, Stored(objects[h].data), TRUE)
    BY <1>5 DEF Save, Overwrite
  <2>3. QED
    BY <2>1, <2>2, WriteOrRaiseKeeps
<1>6. ASSUME NEW h \in Holder, PartialSave(h)
      PROVE  ItemInv'
  <2> DEFINE step == objects[h].in_step \/ (item = NoItem /\ ~objects[h].keyed)
  <2>1. WriteOrRaise(h, Partly(h), step)
    BY <1>6 DEF PartialSave, Partly
  <2>2. step \in BOOLEAN
    OBVIOUS
  <2>3. Partly(h) \in [Field -> Values \ {Blank}] /\ (step => Partly(h) = Stored(objects[h].data))
    BY PartlyType
  <2> HIDE DEF step
  <2>4. QED
    BY <2>1, <2>2, <2>3, WriteOrRaiseKeeps
<1>7. ASSUME NEW h \in Holder, DeleteItemOf(h)
      PROVE  ItemInv'
  <2> DEFINE left == [objects[h] EXCEPT !.in_step = FALSE]
  <2>1. left \in ObjectState /\ ~left.in_step /\ (~left.keyed => left.orig = NoFields)
    BY DEF ItemInv, ItemTypeOK, ObjectState
  <2>2. Write(h, NoItem, left)
    BY <1>7 DEF DeleteItemOf
  <2> HIDE DEF left
  <2>3. QED
    BY <2>1, <2>2, WriteKeeps
<1>8. QED
  BY <1>1, <1>2, <1>3, <1>4, <1>5, <1>6, <1>7 DEF ItemNext

\* An object remembers the item as it is stored, as long as nobody else has
\* written (items.py:182-198, 314-413).
THEOREM ItemInStep == Spec => []InStep
<1>1. Init => ItemInv
  BY ItemInvInit DEF Init
<1>2. ItemInv /\ [Next]_vars => ItemInv'
  BY StepsOfParts, ItemInvStep
<1>3. ItemInv => InStep
  BY DEF ItemInv
<1>4. QED
  BY <1>1, <1>2, <1>3, PTL DEF Spec

LEMMA SaveKeepsOthersWrites ==
    ASSUME ItemInv, NEW h \in Holder, Save(h) \/ PartialSave(h),
           NEW f \in Field, Attribute(f) \notin {Missing, Attribute(f)'},
           f \in Known(objects[h])
    PROVE  objects[h].orig[f] = Attribute(f)
<1>1. CASE Save(h)
  BY <1>1 DEF Save, ExpectsAll, Expects
<1>2. CASE PartialSave(h)
  <2>1. CASE f \in Altered(objects[h])
    BY <1>2, <2>1 DEF PartialSave, Expects
  <2>2. CASE f \notin Altered(objects[h])
    <3>1. item' = Partly(h)
      BY <1>2 DEF PartialSave, Partly, WriteOrRaise, Write
    <3>2. item' # NoItem
      BY <3>1, PartlyType, NoItemAssumption
    <3>3. Attribute(f)' = Attribute(f)
      BY <2>2, <3>1, <3>2 DEF Attribute, Partly
    <3>4. QED
      BY <3>3
  <2>3. QED
    BY <2>1, <2>2
<1>3. QED
  BY <1>1, <1>2

\* save and partial_save replace only values the object has seen
\* (items.py:117-151, 253-303, 369-458).
THEOREM ItemKeepsOthersWrites == Spec => KeepsOthersWrites
<1>1. Init => ItemInv
  BY ItemInvInit DEF Init
<1>2. ItemInv /\ [Next]_vars => ItemInv'
  BY StepsOfParts, ItemInvStep
<1>3. ItemInv /\ [Next]_vars =>
         [\A h \in Holder : Save(h) \/ PartialSave(h) =>
            \A f \in Field :
               Attribute(f) \notin {Missing, Attribute(f)'} =>
                  \/ objects[h].orig[f] = Attribute(f)
                  \/ f \notin Known(objects[h])]_itemVars
  BY SaveKeepsOthersWrites
<1>4. QED
  BY <1>1, <1>2, <1>3, PTL DEF Spec, KeepsOthersWrites

-----------------------------------------------------------------------------
(* BucketList.                                                             *)

\* The listing goes through the names in their order: behind last_name lies
\* what was asked for, then what is in the batch, then what is left of the
\* page; before it, while there are more results, what is still to be listed.
ListedInOrder ==
    /\ \A n \in page \cup batch \cup requested : last_name # NoMarker /\ n <= last_name
    /\ \A m \in page : \A n \in batch \cup requested : n < m
    /\ \A m \in batch : \A n \in requested : n < m
    /\ deleting \in {"idle", "list"} => page = {} /\ marker = last_name

Unlisted(n) == more_results /\ (last_name = NoMarker \/ n > last_name)

\* A key that was there all the time was reported, is at hand, or will be
\* listed; a batch that is not full is the last.
NothingIsSkipped ==
    /\ deleting = "idle" => there = {} /\ last_name = NoMarker /\ more_results
    /\ deleting # "raised" =>
          \A n \in there \ errors : n \in page \cup batch \/ Unlisted(n)
    /\ deleting = "delete" =>
          Cardinality(batch) >= BatchSize \/ (page = {} /\ ~more_results)

BucketInv == BucketTypeOK /\ ListedInOrder /\ NothingIsSkipped /\ EveryKeyIsDeleted

LEMMA BucketInvInit == BucketInit => BucketInv
BY DEF BucketInit, BucketInv, BucketTypeOK, ListedInOrder, NothingIsSkipped, EveryKeyIsDeleted

LEMMA DisjointInOrder ==
    ASSUME BucketTypeOK, ListedInOrder
    PROVE  page \cap (batch \cup requested) = {} /\ batch \cap requested = {}
BY BucketListAssumption DEF BucketTypeOK, ListedInOrder

LEMMA ListPageKeeps ==
    ASSUME BucketInv, ListPage
    PROVE  BucketInv'
<1> USE BucketListAssumption
<1>1. PICK first \in SUBSET After :
         /\ \A m \in first, n \in After \ first : m < n
         /\ page' = first
         /\ more_results' = (first # After)
         /\ last_name' \in IF first = {} THEN {last_name}
                          ELSE {n \in first : \A m \in first : m <= n}
  BY DEF ListPage
<1>2. /\ deleting = "list" /\ deleting' = "fill"
      /\ UNCHANGED <<bucket, marker, batch, errors, there, requested>>
  BY DEF ListPage
<1>3. /\ page = {} /\ marker = last_name
      /\ After \subseteq Name
      /\ \A n \in After : n \in bucket /\ (last_name = NoMarker \/ n > last_name)
  BY <1>2 DEF BucketInv, BucketTypeOK, ListedInOrder, After
<1>4. CASE first = {}
  <2>1. page' = {} /\ last_name' = last_name /\ more_results' = (After # {})
    BY <1>1, <1>4
  <2>2. BucketTypeOK' /\ ListedInOrder'
    BY <1>2, <1>3, <2>1 DEF BucketInv, BucketTypeOK, ListedInOrder
  <2>3. ASSUME NEW n \in there \ errors, n \notin batch
        PROVE  Unlisted(n)'
    <3>1. n \in After
      BY <1>2, <1>3, <2>3 DEF BucketInv, BucketTypeOK, NothingIsSkipped, Unlisted, After
    <3>2. QED
      BY <1>3, <2>1, <3>1 DEF Unlisted
  <2>4. NothingIsSkipped'
    BY <1>2, <2>3 DEF NothingIsSkipped
  <2>5. EveryKeyIsDeleted'
    BY <1>2, <1>3, <2>1 DEF BucketInv, EveryKeyIsDeleted
  <2>6. QED
    BY <2>2, <2>4, <2>5 DEF BucketInv
<1>5. CASE first # {}
  <2>1. last_name' \in first /\ \A m \in first : m <= last_name'
    BY <1>1, <1>5
  <2>2. BucketTypeOK'
    BY <1>1, <1>2, <1>3, <2>1 DEF BucketInv, BucketTypeOK
  <2>3. \A m \in first : \A n \in batch \cup requested : n < m
    <3>1. SUFFICES ASSUME NEW m \in first, NEW n \in batch \cup requested
                   PROVE  n < m
      OBVIOUS
    <3>2. last_name # NoMarker /\ n <= last_name /\ m > last_name
      BY <1>3 DEF BucketInv, ListedInOrder
    <3>3. m \in Nat /\ n \in Nat /\ last_name \in Nat
      BY <1>3, <3>2 DEF BucketInv, BucketTypeOK
    <3>4. QED
      BY <3>2, <3>3
  <2>4. ListedInOrder'
    <3>1. \A n \in batch \cup requested : n <= last_name'
      <4>1. SUFFICES ASSUME NEW n \in batch \cup requested
                     PROVE  n <= last_name'
        OBVIOUS
      <4>2. n < last_name' /\ n \in Nat /\ last_name' \in Nat
        BY <1>3, <2>1, <2>3 DEF BucketInv, BucketTypeOK
      <4>3. QED
        BY <4>2
    <3>2. last_name' # NoMarker
      BY <1>3, <2>1
    <3>3. QED
      BY <1>1, <1>2, <2>1, <2>3, <3>1, <3>2 DEF BucketInv, ListedInOrder
  <2>5. ASSUME NEW n \in there \ errors, n \notin first \cup batch
        PROVE  Unlisted(n)'
    <3>1. n \in After
      BY <1>2, <1>3, <2>5 DEF BucketInv, BucketTypeOK, NothingIsSkipped, Unlisted, After
    <3>2. n > last_name' /\ first # After
      BY <1>1, <1>3, <2>1, <2>5, <3>1
    <3>3. QED
      BY <1>1, <3>2 DEF Unlisted
  <2>6. NothingIsSkipped'
    BY <1>1, <1>2, <2>5 DEF NothingIsSkipped
  <2>7. EveryKeyIsDeleted'
    <3>1. first \subseteq Nat
      BY <1>3
    <3>2. first \cap (batch \cup requested) = {}
      <4>1. SUFFICES ASSUME NEW k \in first, k \in batch \cup requested
                     PROVE  FALSE
        OBVIOUS
      <4>2. k < k /\ k \in Nat
        BY <2>3, <3>1, <4>1
      <4>3. QED
        BY <4>2
    <3>3. QED
      BY <1>1, <1>2, <3>2 DEF BucketInv, EveryKeyIsDeleted
  <2>8. QED
    BY <2>2, <2>4, <2>6, <2>7 DEF BucketInv
<1>6. QED
  BY <1>4, <1>5

LEMMA TakeKeyKeeps ==
    ASSUME BucketInv, TakeKey
    PROVE  BucketInv'
<1> USE BucketListAssumption
<1>1. PICK n \in page : /\ \A m \in page : n <= m
                        /\ batch' = batch \cup {n}
                        /\ page' = page \ {n}
  BY DEF TakeKey
<1>2. /\ deleting = "fill"
      /\ deleting' = IF Cardinality(batch') = BatchSize THEN "delete" ELSE "fill"
      /\ UNCHANGED <<bucket, last_name, marker, more_results, errors, there, requested>>
  BY DEF TakeKey
<1>3. BucketTypeOK'
  BY <1>1, <1>2 DEF BucketInv, BucketTypeOK
<1>4. \A m \in page \ {n} : n < m
  BY <1>1 DEF BucketInv, BucketTypeOK
<1>5. ListedInOrder'
  BY <1>1, <1>2, <1>4 DEF BucketInv, ListedInOrder
<1>6. NothingIsSkipped'
  <2>1. \A k \in there \ errors : k \in page' \cup batch' \/ Unlisted(k)'
    BY <1>1, <1>2 DEF BucketInv, NothingIsSkipped, Unlisted
  <2>2. deleting' = "delete" => Cardinality(batch') >= BatchSize
    BY <1>2
  <2>3. deleting' \in {"fill", "delete"}
    BY <1>2
  <2>4. QED
    BY <1>2, <2>1, <2>2, <2>3 DEF NothingIsSkipped
<1>7. /\ (page \ {n}) \cap (batch \cup {n} \cup requested) = {}
      /\ (batch \cup {n}) \cap requested = {}
  BY <1>1, DisjointInOrder DEF BucketInv
<1>8. EveryKeyIsDeleted'
  BY <1>1, <1>2, <1>7 DEF EveryKeyIsDeleted
<1>9. QED
  BY <1>3, <1>5, <1>6, <1>8 DEF BucketInv

LEMMA PostBatchKeeps ==
    ASSUME BucketInv, PostBatch
    PROVE  BucketInv'
<1> USE BucketListAssumption
<1>1. PICK failed_keys \in SUBSET batch :
         /\ errors' = errors \cup failed_keys
         /\ bucket' = bucket \ (batch \ failed_keys)
  BY DEF PostBatch
<1>2. /\ deleting = "delete"
      /\ there' = there \cap bucket'
      /\ requested' = requested \cup batch
      /\ batch' = {}
      /\ deleting' = IF MoreBatches THEN "fill" ELSE "returned"
      /\ UNCHANGED <<page, last_name, marker, more_results>>
  BY DEF PostBatch
<1>3. BucketTypeOK'
  BY <1>1, <1>2 DEF BucketInv, BucketTypeOK
<1>4. ListedInOrder'
  BY <1>2 DEF BucketInv, ListedInOrder
<1>5. \A n \in there' \ errors' : n \in page \/ Unlisted(n)
  BY <1>1, <1>2 DEF BucketInv, NothingIsSkipped
<1>6. deleting' = "returned" => page = {} /\ ~more_results
  BY <1>2 DEF MoreBatches, BucketInv, NothingIsSkipped
<1>7. NothingIsSkipped'
  BY <1>2, <1>5 DEF NothingIsSkipped, Unlisted
<1>8. EveryKeyIsDeleted'
  BY <1>2, <1>5, <1>6, DisjointInOrder DEF EveryKeyIsDeleted, Unlisted, BucketInv
<1>9. QED
  BY <1>3, <1>4, <1>7, <1>8 DEF BucketInv

LEMMA BucketInvStep ==
    ASSUME BucketInv, [BucketNext]_bucketVars
    PROVE  BucketInv'
<1> USE BucketListAssumption
<1>1. CASE UNCHANGED bucketVars
  BY <1>1 DEF bucketVars, BucketInv, BucketTypeOK, ListedInOrder, NothingIsSkipped,
              EveryKeyIsDeleted, Unlisted
<1>2. CASE DeleteKeys
  <2>1. deleting = "idle" /\ deleting' = "list"
    BY <1>2 DEF DeleteKeys
  <2>2. page = {} /\ marker = last_name /\ last_name = NoMarker /\ more_results
    BY <2>1 DEF BucketInv, ListedInOrder, NothingIsSkipped
  <2>3. QED
    BY <1>2, <2>1, <2>2 DEF DeleteKeys, BucketInv, BucketTypeOK, ListedInOrder,
              NothingIsSkipped, EveryKeyIsDeleted, Unlisted
<1>3. CASE ListPage
  BY <1>3, ListPageKeeps
<1>4. CASE PageEnds
  BY <1>4 DEF PageEnds, NextMarker, BucketInv, BucketTypeOK, ListedInOrder, NothingIsSkipped,
              EveryKeyIsDeleted, Unlisted
<1>5. CASE TakeKey
  BY <1>5, TakeKeyKeeps
<1>6. CASE ListEnds
  BY <1>6 DEF ListEnds, BucketInv, BucketTypeOK, ListedInOrder, NothingIsSkipped,
              EveryKeyIsDeleted, Unlisted
<1>7. CASE PostBatch
  BY <1>7, PostBatchKeeps
<1>8. CASE DeletingRaises
  BY <1>8 DEF DeletingRaises, BucketInv, BucketTypeOK, ListedInOrder, NothingIsSkipped,
              EveryKeyIsDeleted, Unlisted
<1>9. CASE PutKey \/ RemoveKey
  <2>1. /\ bucket' \subseteq Name
        /\ there' \subseteq bucket' /\ there' \subseteq there
        /\ UNCHANGED <<deleting, page, last_name, marker, more_results, batch, errors,
                       requested>>
    BY <1>9 DEF PutKey, RemoveKey, BucketInv, BucketTypeOK
  <2>2. QED
    BY <2>1 DEF BucketInv, BucketTypeOK, ListedInOrder, NothingIsSkipped, EveryKeyIsDeleted,
                Unlisted
<1>10. QED
  BY <1>1, <1>2, <1>3, <1>4, <1>5, <1>6, <1>7, <1>8, <1>9 DEF BucketNext

\* delete_keys of a listing reports or deletes every key that was there all the
\* time, for any size of pages and batches (bucket.py:639-733,
\* bucketlistresultset.py:24-41).
THEOREM BucketEveryKeyIsDeleted == Spec => []EveryKeyIsDeleted
<1>1. Init => BucketInv
  BY BucketInvInit DEF Init
<1>2. BucketInv /\ [Next]_vars => BucketInv'
  BY StepsOfParts, BucketInvStep
<1>3. BucketInv => EveryKeyIsDeleted
  BY DEF BucketInv
<1>4. QED
  BY <1>1, <1>2, <1>3, PTL DEF Spec

-----------------------------------------------------------------------------
(* KeySender.                                                              *)

\* A body is sent from where the call began, whatever earlier attempts read: a
\* source that cannot seek is read from once only.
SendsFromTheStart ==
    /\ calls \in Nat
    /\ how.data \in Data /\ how.from \in Nat
    /\ sending = "send" => place = how.from
    /\ sending = "attempt" /\ ~how.seekable /\ ~read_from_stream => place = how.from

SenderInv == SendsFromTheStart /\ SendsTheWhole

LEMMA SenderInvInit == SenderInit => SenderInv
BY DEF SenderInit, SenderInv, SendsFromTheStart, SendsTheWhole, Data

LEMMA PartType ==
    ASSUME NEW file \in DOMAIN FileSize, NEW from \in Nat, NEW size \in Nat
    PROVE  Part(file, from, size) \in Data
<1> DEFINE to == IF size = 0 \/ from + size > FileSize[file] THEN FileSize[file]
                 ELSE from + size
<1>1. FileSize[file] \in Nat
  BY KeySenderAssumption
<1>2. to \in Nat /\ to <= FileSize[file]
  BY <1>1
<1>3. \A n \in from + 1 .. to : Content(file)[n] \in (DOMAIN FileSize) \X Nat
  BY <1>1, <1>2 DEF Content
<1>4. Part(file, from, size) = SubSeq(Content(file), from + 1, to)
  BY DEF Part
<1> HIDE DEF to
<1>5. from + 1 \in Int /\ to \in Int
  BY <1>2
<1>6. QED
  BY <1>3, <1>4, <1>5, SubSeqProperties DEF Data

LEMMA BodyIsTheWhole ==
    ASSUME SenderInv, sending = "send"
    PROVE  Body = how.data
<1>1. how.data \in Data /\ place = how.from /\ how.from \in Nat
  BY DEF SenderInv, SendsFromTheStart
<1>2. Body = SubSeq(how.data, 1, Len(how.data))
  BY <1>1 DEF Body
<1>3. QED
  BY <1>1, <1>2, SubSeqFull DEF Data

LEMMA BeginCallKeeps ==
    ASSUME SenderInv, NEW from \in Nat, NEW data \in Data, NEW seekable, NEW chunked, NEW md5,
           BeginCall(from, data, seekable, chunked, md5)
    PROVE  SenderInv'
BY DEF BeginCall, SenderInv, SendsFromTheStart, SendsTheWhole

LEMMA SenderInvStep ==
    ASSUME SenderInv, [SenderNext]_senderVars
    PROVE  SenderInv'
<1> USE KeySenderAssumption
<1>1. CASE UNCHANGED senderVars
  BY <1>1 DEF senderVars, SenderInv, SendsFromTheStart, SendsTheWhole
<1>2. CASE SetContentsFromFile
  <2>1. PICK from \in 0..FileSize[calls + 1], size \in SizeLimits :
           BeginCall(from, Part(calls + 1, from, size), TRUE, FALSE,
                     Part(calls + 1, from, size))
    BY <1>2 DEF SetContentsFromFile
  <2>2. Part(calls + 1, from, size) \in Data
    <3>1. calls + 1 \in DOMAIN FileSize
      BY <1>2 DEF SetContentsFromFile, MayCall, SenderInv, SendsFromTheStart
    <3>2. from \in Nat /\ size \in Nat
      BY <3>1
    <3>3. QED
      BY <3>1, <3>2, PartType
  <2>3. QED
    BY <2>1, <2>2 DEF BeginCall, SenderInv, SendsFromTheStart, SendsTheWhole
<1>3. CASE SetContentsFromStream
  <2>1. PICK from \in 0..FileSize[calls + 1], size \in SizeLimits, seekable \in BOOLEAN :
           BeginCall(from, Part(calls + 1, from, size), seekable, TRUE, local_md5)
    BY <1>3 DEF SetContentsFromStream
  <2>2. Part(calls + 1, from, size) \in Data
    <3>1. calls + 1 \in DOMAIN FileSize
      BY <1>3 DEF SetContentsFromStream, MayCall, SenderInv, SendsFromTheStart
    <3>2. from \in Nat /\ size \in Nat
      BY <3>1
    <3>3. QED
      BY <3>1, <3>2, PartType
  <2>2a. from \in Nat
    <3>1. FileSize[calls + 1] \in Nat
      BY <1>3 DEF SetContentsFromStream, MayCall, SenderInv, SendsFromTheStart
    <3>2. QED
      BY <3>1
  <2>3. QED
    BY <2>1, <2>2, <2>2a, BeginCallKeeps
<1>4. CASE BeginAttempt \/ CannotRetry
  BY <1>4 DEF BeginAttempt, CannotRetry, Rewind, SenderInv, SendsFromTheStart, SendsTheWhole
<1>5. CASE ConnectFails
  BY <1>5 DEF ConnectFails, Again, SenderInv, SendsFromTheStart, SendsTheWhole
<1>6. CASE SendChunkFails
  BY <1>6 DEF SendChunkFails, Again, SenderInv, SendsFromTheStart, SendsTheWhole
<1>7. CASE Answered200 \/ AnswerLost \/ AnsweredError
  <2>1. Body = how.data
    BY <1>7, BodyIsTheWhole DEF Answered200, AnswerLost, AnsweredError, BodySent
  <2>2. /\ UNCHANGED <<calls, how, was>>
        /\ read_from_stream' = ~how.seekable
        /\ s3_object' \in {s3_object, how.data}
        /\ sending' \in {"attempt", "raised", "returned"}
        /\ sending' = "returned" => s3_object' = how.data
    <3>1. CASE Answered200
      BY <2>1, <3>1 DEF Answered200, BodySent
    <3>2. CASE AnswerLost
      BY <2>1, <3>2 DEF AnswerLost, BodySent, Again
    <3>3. CASE AnsweredError
      BY <2>1, <3>3 DEF AnsweredError, BodySent
    <3>4. QED
      BY <1>7, <3>1, <3>2, <3>3
  <2>3. QED
    BY <2>2 DEF SenderInv, SendsFromTheStart, SendsTheWhole
<1>8. QED
  BY <1>1, <1>2, <1>3, <1>4, <1>5, <1>6, <1>7 DEF SenderNext

SenderTypeInv == SenderInv /\ SenderTypeOK

LEMMA DataClosed ==
    /\ <<>> \in Data
    /\ \A x, y \in Data : x \o y \in Data
    /\ \A x \in Data : Len(x) \in Nat /\ \A n \in 0..Len(x) : SubSeq(x, 1, n) \in Data
<1> DEFINE S == (DOMAIN FileSize) \X Nat
<1> HIDE DEF S
<1>1. Data = Seq(S)
  BY DEF Data, S
<1>2. ASSUME NEW x \in Seq(S), NEW y \in Seq(S)
      PROVE  x \o y \in Seq(S)
  BY ConcatProperties
<1>3. ASSUME NEW x \in Seq(S), NEW n \in 0..Len(x)
      PROVE  SubSeq(x, 1, n) \in Seq(S)
  <2>1. \A i \in 1..n : x[i] \in S
    OBVIOUS
  <2>2. 1 \in Int /\ n \in Int
    OBVIOUS
  <2>3. QED
    BY <2>1, <2>2, SubSeqProperties
<1>4. QED
  BY <1>1, <1>2, <1>3

LEMMA SenderTypeInit == SenderInit => SenderTypeOK
<1> SUFFICES ASSUME SenderInit
             PROVE  SenderTypeOK
  OBVIOUS
<1>1. <<>> \in Data
  BY DataClosed
<1>2. /\ s3_object = <<>> /\ local_md5 = NoDigest /\ digester = NoDigest /\ was = <<>>
  BY DEF SenderInit
<1>3. s3_object \in Data /\ local_md5 \in Data \cup {NoDigest}
      /\ digester \in Data \cup {NoDigest} /\ was \in Data
  BY <1>1, <1>2
<1>4. how \in [data : Data, from : Nat, seekable : BOOLEAN, chunked : BOOLEAN,
               content_md5 : Data \cup {NoDigest}]
  <2>1. how = [data |-> <<>>, from |-> 0, seekable |-> TRUE, chunked |-> FALSE,
               content_md5 |-> NoDigest]
    BY DEF SenderInit
  <2>2. QED
    BY <1>1, <2>1
<1>5. calls \in 0..Len(FileSize) /\ attempts \in 0..SendRetries /\ place \in Nat
  BY KeySenderAssumption DEF SenderInit
<1>6. sending = "idle" /\ read_from_stream \in BOOLEAN
  BY DEF SenderInit
<1>7. QED
  BY <1>3, <1>4, <1>5, <1>6 DEF SenderTypeOK

LEMMA BeginCallType ==
    ASSUME SenderTypeOK, calls < Len(FileSize),
           NEW from \in Nat, NEW data \in Data, NEW seekable \in BOOLEAN, NEW chunked \in BOOLEAN,
           NEW md5 \in Data \cup {NoDigest}, BeginCall(from, data, seekable, chunked, md5)
    PROVE  SenderTypeOK'
<1>1. calls' \in 0..Len(FileSize)
  BY KeySenderAssumption DEF BeginCall, SenderTypeOK
<1>2. how' \in [data : Data, from : Nat, seekable : BOOLEAN, chunked : BOOLEAN,
                content_md5 : Data \cup {NoDigest}]
  BY DEF BeginCall
<1>3. digester' \in Data \cup {NoDigest}
  <2>1. digester' = <<>> \/ digester' = NoDigest
    BY DEF BeginCall
  <2>2. <<>> \in Data
    BY DataClosed
  <2>3. QED
    BY <2>1, <2>2
<1>4. s3_object' \in Data /\ was' \in Data
  <2>1. s3_object' = s3_object /\ was' = s3_object /\ s3_object \in Data
    BY DEF BeginCall, SenderTypeOK
  <2>2. QED
    BY <2>1
<1>5. local_md5' \in Data \cup {NoDigest}
  <2>1. local_md5' = md5
    BY DEF BeginCall
  <2>2. QED
    BY <2>1
<1>6. sending' = "attempt" /\ attempts' \in 0..SendRetries
      /\ place' \in Nat /\ read_from_stream' \in BOOLEAN
  <2>1. sending' = "attempt" /\ attempts' = 0 /\ place' = from
    BY DEF BeginCall
  <2>2. attempts' \in 0..SendRetries
    BY <2>1, KeySenderAssumption
  <2>3. read_from_stream' \in BOOLEAN
    BY Zenon DEF BeginCall
  <2>4. QED
    BY <2>1, <2>2, <2>3
<1>7. QED
  BY <1>1, <1>2, <1>3, <1>4, <1>5, <1>6 DEF SenderTypeOK

LEMMA SenderTypeStep ==
    ASSUME SenderTypeInv, [SenderNext]_senderVars
    PROVE  SenderTypeOK'
<1> USE KeySenderAssumption DEF SenderTypeInv
<1>1. CASE UNCHANGED senderVars
  BY <1>1 DEF senderVars, SenderTypeOK
<1>2. CASE SetContentsFromFile
  <2>1. PICK from \in 0..FileSize[calls + 1], size \in SizeLimits :
           BeginCall(from, Part(calls + 1, from, size), TRUE, FALSE,
                     Part(calls + 1, from, size))
    BY <1>2 DEF SetContentsFromFile
  <2>2. calls + 1 \in DOMAIN FileSize /\ calls < Len(FileSize)
    BY <1>2 DEF SetContentsFromFile, MayCall, SenderTypeOK
  <2>3. from \in Nat /\ size \in Nat
    BY <2>2
  <2>4. Part(calls + 1, from, size) \in Data
    BY <2>2, <2>3, PartType
  <2> DEFINE data == Part(calls + 1, from, size)
  <2> HIDE DEF data
  <2>5. BeginCall(from, data, TRUE, FALSE, data) /\ data \in Data
    BY <2>1, <2>4 DEF data
  <2>6. TRUE \in BOOLEAN /\ FALSE \in BOOLEAN
    OBVIOUS
  <2>7. QED
    BY <2>2, <2>3, <2>5, <2>6, BeginCallType
<1>3. CASE SetContentsFromStream
  <2>1. PICK from \in 0..FileSize[calls + 1], size \in SizeLimits, seekable \in BOOLEAN :
           BeginCall(from, Part(calls + 1, from, size), seekable, TRUE, local_md5)
    BY <1>3 DEF SetContentsFromStream
  <2>2. calls + 1 \in DOMAIN FileSize /\ calls < Len(FileSize)
    BY <1>3 DEF SetContentsFromStream, MayCall, SenderTypeOK
  <2>2a. from \in Nat /\ size \in Nat
    BY <2>2
  <2>3. Part(calls + 1, from, size) \in Data /\ local_md5 \in Data \cup {NoDigest}
    BY <2>2, <2>2a, PartType DEF SenderTypeOK
  <2>4. TRUE \in BOOLEAN
    OBVIOUS
  <2>5. QED
    BY <2>1, <2>2, <2>2a, <2>3, <2>4, BeginCallType
<1>4. CASE BeginAttempt \/ CannotRetry
  BY <1>4 DEF BeginAttempt, CannotRetry, Rewind, SenderTypeOK
<1>5. CASE ConnectFails
  BY <1>5 DEF ConnectFails, Again, SenderTypeOK
<1>6. CASE SendChunkFails
  <2>1. sending = "send"
    BY <1>6 DEF SendChunkFails
  <2>2. Body = how.data /\ how.data \in Data /\ Len(Body) \in Nat
    BY <2>1, BodyIsTheWhole, DataClosed DEF SenderInv, SendsFromTheStart
  <2>3. PICK n \in 0..Len(Body) :
           /\ Hashed(SubSeq(Body, 1, n))
           /\ place' = place + (IF n + ChunkSize < Len(Body) THEN n + ChunkSize ELSE Len(Body))
    BY <1>6 DEF SendChunkFails
  <2>4. place' \in Nat
    BY <2>2, <2>3 DEF SenderTypeOK
  <2>5. digester' \in Data \cup {NoDigest}
    BY <2>2, <2>3, DataClosed DEF Hashed, SenderTypeOK
  <2>6. sending' \in {"attempt", "raised"} /\ attempts' \in 0..SendRetries
    BY <1>6 DEF SendChunkFails, Again, SenderTypeOK
  <2>7. QED
    BY <1>6, <2>4, <2>5, <2>6 DEF SendChunkFails, SenderTypeOK
<1>7. CASE Answered200 \/ AnswerLost \/ AnsweredError
  <2>1. sending = "send" /\ BodySent
    BY <1>7 DEF Answered200, AnswerLost, AnsweredError, BodySent
  <2>2. Body = how.data /\ how.data \in Data /\ Len(Body) \in Nat
    BY <2>1, BodyIsTheWhole, DataClosed DEF SenderInv, SendsFromTheStart
  <2>3. place' \in Nat
    BY <2>1, <2>2 DEF BodySent, SenderTypeOK
  <2>4. digester' \in Data \cup {NoDigest} /\ (digester # NoDigest => digester' \in Data)
    BY <2>1, <2>2, DataClosed DEF BodySent, Hashed, SenderTypeOK
  <2>5. local_md5' \in Data \cup {NoDigest}
    BY <2>1, <2>4 DEF BodySent, SenderTypeOK
  <2>6. s3_object' \in Data
    BY <1>7, <2>2 DEF Answered200, AnswerLost, AnsweredError, SenderTypeOK
  <2>7. /\ sending' \in {"attempt", "raised", "returned"}
        /\ attempts' \in 0..SendRetries
    BY <1>7 DEF Answered200, AnswerLost, AnsweredError, Again, SenderTypeOK
  <2>8. QED
    BY <2>1, <2>3, <2>4, <2>5, <2>6, <2>7 DEF BodySent, SenderTypeOK
<1>8. QED
  BY <1>1, <1>2, <1>3, <1>4, <1>5, <1>6, <1>7 DEF SenderNext

\* A call leaves the object as it was or makes it the whole of what was to be
\* sent, and returns only when it has, for any files, chunks and retries
\* (key.py:767-902, 972-1025).
THEOREM SenderSendsTheWhole == Spec => []SendsTheWhole
<1>1. Init => SenderInv
  BY SenderInvInit DEF Init
<1>2. SenderInv /\ [Next]_vars => SenderInv'
  BY StepsOfParts, SenderInvStep
<1>3. SenderInv => SendsTheWhole
  BY DEF SenderInv
<1>4. QED
  BY <1>1, <1>2, <1>3, PTL DEF Spec

-----------------------------------------------------------------------------
(* Provider.                                                               *)

Attr == {"access", "secret", "token", "expiry"}

LEMMA OrdersOfProvider ==
    /\ Len(Assigned) = 4
    /\ Assigned[1] = "access" /\ Assigned[2] = "secret"
    /\ Assigned[3] = "token" /\ Assigned[4] = "expiry"
    /\ Len(Attributes) = 3
    /\ \A n \in 1..3 : Attributes[n] \in Attr
BY DEF Assigned, Attributes, Attr

\* What the steps of a thread know of the generations.
Generations ==
    /\ soon <= generation
    /\ \A a \in Attr : held[a] <= generation
    /\ \A t \in Thread :
          /\ threads[t].read \in 0..2
          /\ threads[t].pc = "assign" =>
                /\ threads[t].assigned \in 0..3
                /\ threads[t].creds \in 1..generation
          /\ threads[t].pc = "fetch" => threads[t].alive <= expired
          /\ threads[t].pc = "assign" => threads[t].alive <= threads[t].creds

\* While no two threads have assigned different sets: those that are assigning
\* assign the same, newer than what is held, and the expiry is no newer than
\* the rest.
OneSetAtATime ==
    /\ \A t, u \in Thread :
          threads[t].pc = "assign" /\ threads[u].pc = "assign" =>
             threads[t].creds = threads[u].creds
    /\ \A t \in Thread : threads[t].pc = "assign" =>
          /\ \A i \in 1..threads[t].assigned : held[Assigned[i]] = threads[t].creds
          /\ \A a \in Attr : held[a] <= threads[t].creds
    /\ \A a \in Attr : held["expiry"] <= held[a]

ProviderInv ==
    /\ ProviderTypeOK
    /\ Generations
    /\ ~overlap => OneSetAtATime
    /\ HeldIsOneSet
    /\ ReturnsAlive

LEMMA ProviderInvInit == ProviderInit => ProviderInv
<1> SUFFICES ASSUME ProviderInit
             PROVE  ProviderInv
  OBVIOUS
<1> USE ProviderAssumption DEF ProviderInit, IdleThread
<1>1. ProviderTypeOK
  <2>1. 1 \in Generation
    BY DEF Generation
  <2>2. threads \in [Thread -> [pc : {"idle", "check", "return", "fetch", "assign"},
                               read : 0..3, assigned : 0..4,
                               creds : Generation \cup {0}, alive : Generation]]
    BY <2>1
  <2>3. generation \in Generation /\ soon \in Generation /\ expired \in 1..soon
    BY <2>1
  <2>4. held \in [{"access", "secret", "token", "expiry"} -> Generation]
    BY <2>1
  <2>5. QED
    BY <2>2, <2>3, <2>4 DEF ProviderTypeOK
<1>2. Generations /\ OneSetAtATime /\ HeldIsOneSet /\ ReturnsAlive
  BY DEF Generations, OneSetAtATime, HeldIsOneSet, ReturnsAlive, Attr
<1>3. QED
  BY <1>1, <1>2 DEF ProviderInv

ThreadState ==
    [pc : {"idle", "check", "return", "fetch", "assign"}, read : 0..3, assigned : 0..4,
     creds : Generation \cup {0}, alive : Generation]

\* A step changes the state of one thread.
Became(t, state) ==
    /\ threads' = [u \in Thread |-> threads'[u]]
    /\ \A u \in Thread \ {t} : threads'[u] = threads[u]
    /\ threads'[t] = state

LEMMA BecameTyped ==
    ASSUME ProviderInv, NEW t \in Thread, NEW state \in ThreadState, Became(t, state)
    PROVE  threads' \in [Thread -> ThreadState]
<1>1. threads \in [Thread -> ThreadState]
  BY DEF ProviderInv, ProviderTypeOK, ThreadState
<1>2. \A u \in Thread : threads'[u] \in ThreadState
  BY <1>1 DEF Became
<1>3. QED
  BY <1>2 DEF Became

LEMMA ThreadStates ==
    ASSUME ProviderInv
    PROVE  threads \in [Thread -> ThreadState] /\ 1 \in Generation
BY ProviderAssumption DEF ProviderInv, ProviderTypeOK, ThreadState, Generation

\* A step that assigns nothing and leaves t where it neither assigns nor
\* returns.
LEMMA ThreadMoves ==
    ASSUME ProviderInv, NEW t \in Thread,
           threads' \in [Thread -> ThreadState],
           \A u \in Thread \ {t} : threads'[u] = threads[u],
           threads[t].pc # "assign",
           threads'[t].read \in 0..2,
           threads'[t].pc \in {"idle", "check"},
           UNCHANGED <<generation, soon, expired, held, overlap, failed>>
    PROVE  ProviderInv'
<1>1. ProviderTypeOK'
  BY DEF ProviderInv, ProviderTypeOK, ThreadState
<1>2. Generations'
  BY DEF ProviderInv, Generations
<1>3. (~overlap => OneSetAtATime)'
  BY DEF ProviderInv, OneSetAtATime
<1>4. HeldIsOneSet' /\ ReturnsAlive'
  BY DEF ProviderInv, HeldIsOneSet, ReturnsAlive
<1>5. QED
  BY <1>1, <1>2, <1>3, <1>4 DEF ProviderInv

LEMMA CheckExpiryKeeps ==
    ASSUME ProviderInv, NEW t \in Thread, CheckExpiry(t)
    PROVE  ProviderInv'
<1>1. /\ threads' \in [Thread -> ThreadState]
      /\ \A u \in Thread \ {t} : threads'[u] = threads[u]
      /\ threads[t].pc = "check"
      /\ threads'[t].pc = IF held["expiry"] < soon THEN "fetch" ELSE "return"
      /\ threads'[t].alive = expired /\ threads'[t].read = threads[t].read
      /\ UNCHANGED <<generation, soon, expired, held, overlap, failed>>
  <2> DEFINE to == IF held["expiry"] < soon THEN "fetch" ELSE "return"
             state == [pc |-> to,
                       read |-> threads[t].read, assigned |-> threads[t].assigned,
                       creds |-> threads[t].creds, alive |-> expired]
  <2>0. threads' = [threads EXCEPT ![t].pc = to, ![t].alive = expired]
    BY DEF CheckExpiry
  <2>0a. to \in {"fetch", "return"}
    OBVIOUS
  <2> HIDE DEF to
  <2>1. Became(t, state)
    BY <2>0, ThreadStates DEF ThreadState, Became
  <2>2. expired \in Generation
    BY ProviderAssumption DEF ProviderInv, ProviderTypeOK, Generation
  <2>3. state \in ThreadState
    BY <2>0a, <2>2, ThreadStates DEF ThreadState
  <2>4. threads' \in [Thread -> ThreadState]
    BY <2>1, <2>3, BecameTyped
  <2>5. QED
    BY <2>1, <2>4 DEF CheckExpiry, Became, to
<1>2. ProviderTypeOK'
  BY <1>1 DEF ProviderInv, ProviderTypeOK, ThreadState
<1>3. expired \in Int /\ soon \in Int /\ expired <= soon
  BY ProviderAssumption DEF ProviderInv, ProviderTypeOK, Generation
<1>4. Generations'
  BY <1>1, <1>3 DEF ProviderInv, Generations
<1>5. (~overlap => OneSetAtATime)'
  BY <1>1 DEF ProviderInv, OneSetAtATime
<1>6. ASSUME ~overlap, threads'[t].pc = "return"
      PROVE  held[Attributes[threads[t].read + 1]] >= expired
  <2> DEFINE a == Attributes[threads[t].read + 1]
  <2>1. a \in Attr
    BY OrdersOfProvider DEF ProviderInv, Generations
  <2> HIDE DEF a
  <2>2. held["expiry"] <= held[a] /\ held["expiry"] >= soon
    BY <1>1, <1>3, <1>6, <2>1 DEF ProviderInv, OneSetAtATime, ProviderTypeOK, Generation
  <2>3. held[a] \in Int /\ held["expiry"] \in Int
    BY <2>1 DEF ProviderInv, ProviderTypeOK, Generation, Attr
  <2>4. held[a] >= expired
    BY <1>3, <2>2, <2>3
  <2>5. QED
    BY <2>4 DEF a
<1>7. HeldIsOneSet' /\ ReturnsAlive'
  BY <1>1, <1>6 DEF ProviderInv, HeldIsOneSet, ReturnsAlive
<1>8. QED
  BY <1>2, <1>4, <1>5, <1>7 DEF ProviderInv

LEMMA FetchKeeps ==
    ASSUME ProviderInv, NEW t \in Thread, Fetch(t)
    PROVE  ProviderInv'
<1>1. /\ threads' \in [Thread -> ThreadState]
      /\ \A u \in Thread \ {t} : threads'[u] = threads[u]
      /\ threads[t].pc = "fetch"
      /\ threads'[t].pc = "assign" /\ threads'[t].creds = generation
      /\ threads'[t].assigned = 0
      /\ threads'[t].alive = threads[t].alive /\ threads'[t].read = threads[t].read
      /\ UNCHANGED <<generation, soon, expired, held, failed>>
  <2> DEFINE state == [pc |-> "assign", read |-> threads[t].read, assigned |-> 0,
                       creds |-> generation, alive |-> threads[t].alive]
  <2>1. Became(t, state)
    BY ThreadStates DEF Fetch, ThreadState, Became
  <2>2. generation \in Generation
    BY DEF ProviderInv, ProviderTypeOK
  <2>3. state \in ThreadState
    BY <2>2, ThreadStates DEF ThreadState
  <2>4. threads' \in [Thread -> ThreadState]
    BY <2>1, <2>3, BecameTyped
  <2>5. QED
    BY <2>1, <2>4 DEF Fetch, Became
<1>2. /\ overlap' \in BOOLEAN
      /\ ~overlap' => ~overlap /\ \A u \in Thread : threads[u].pc = "assign" =>
                                     threads[u].creds = generation
  BY DEF Fetch, ProviderInv, ProviderTypeOK
<1>3. ProviderTypeOK'
  BY <1>1, <1>2 DEF ProviderInv, ProviderTypeOK, ThreadState
<1>4. /\ expired \in Int /\ soon \in Int /\ generation \in Int
      /\ expired <= soon /\ soon <= generation /\ 1 <= generation
      /\ threads[t].alive \in Int
  BY DEF ProviderInv, ProviderTypeOK, Generation, Generations
<1>5. Generations'
  BY <1>1, <1>4 DEF ProviderInv, Generations
<1>6. (~overlap => OneSetAtATime)'
  BY <1>1, <1>2 DEF ProviderInv, OneSetAtATime, Generations
<1>7. HeldIsOneSet' /\ ReturnsAlive'
  BY <1>1, <1>2 DEF ProviderInv, HeldIsOneSet, ReturnsAlive
<1>8. QED
  BY <1>3, <1>5, <1>6, <1>7 DEF ProviderInv

LEMMA AssignKeeps ==
    ASSUME ProviderInv, NEW t \in Thread, Assign(t)
    PROVE  ProviderInv'
<1> DEFINE n == threads[t].assigned + 1
           creds == threads[t].creds
<1>1. n \in 1..4 /\ creds \in 1..generation /\ creds \in Generation /\ generation \in Int
  <2>1. threads[t].assigned \in 0..3 /\ creds \in 1..generation
    BY DEF Assign, ProviderInv, Generations
  <2>2. generation \in Generation
    BY DEF ProviderInv, ProviderTypeOK
  <2>3. generation \in Int
    BY <2>2 DEF Generation
  <2>4. creds \in Generation \cup {0}
    BY DEF ProviderInv, ProviderTypeOK
  <2>5. creds \in Generation
    BY <2>1, <2>3, <2>4
  <2> QED
    BY <2>1, <2>3, <2>5
<1>2. /\ Assigned[n] \in Attr
      /\ \A a \in Attr : held'[a] = IF a = Assigned[n] THEN creds ELSE held[a]
      /\ held' \in [Attr -> Generation]
  BY <1>1, OrdersOfProvider DEF Assign, ProviderInv, ProviderTypeOK, Attr
<1>3. /\ threads' \in [Thread -> ThreadState]
      /\ \A u \in Thread \ {t} : threads'[u] = threads[u]
      /\ threads[t].pc = "assign"
      /\ threads'[t].alive = threads[t].alive /\ threads'[t].read = threads[t].read
      /\ n # 4 => /\ threads'[t].pc = "assign"
                  /\ threads'[t].assigned = n /\ threads'[t].creds = creds
      /\ n = 4 => threads'[t].pc = "return"
  <2>1. CASE n = 4
    <3> DEFINE state == [pc |-> "return", read |-> threads[t].read, assigned |-> 0,
                         creds |-> 0, alive |-> threads[t].alive]
    <3>1. Became(t, state)
      BY <2>1, ThreadStates, OrdersOfProvider DEF Assign, ThreadState, Became
    <3>2. state \in ThreadState
      BY ThreadStates DEF ThreadState
    <3>3. threads' \in [Thread -> ThreadState]
      BY <3>1, <3>2, BecameTyped
    <3>4. QED
      BY <2>1, <3>1, <3>3 DEF Assign, Became
  <2>2. CASE n # 4
    <3> DEFINE state == [pc |-> "assign", read |-> threads[t].read, assigned |-> n,
                         creds |-> creds, alive |-> threads[t].alive]
    <3>1. Became(t, state)
      <4>1. threads' = [threads EXCEPT ![t].assigned = n] /\ threads[t].pc = "assign"
        BY <2>2, OrdersOfProvider DEF Assign
      <4> HIDE DEF n
      <4>2. QED
        BY <4>1, ThreadStates DEF ThreadState, Became
    <3>2. state \in ThreadState
      BY <1>1, ThreadStates DEF ThreadState
    <3>3. threads' \in [Thread -> ThreadState]
      BY <3>1, <3>2, BecameTyped
    <3>4. threads[t].pc = "assign"
      BY DEF Assign
    <3> HIDE DEF n
    <3>5. QED
      BY <2>2, <3>1, <3>3, <3>4 DEF Became
  <2>3. QED
    BY <2>1, <2>2
<1>4. UNCHANGED <<generation, soon, expired, overlap, failed>>
  BY DEF Assign
<1>5. ProviderTypeOK'
  BY <1>2, <1>3, <1>4 DEF ProviderInv, ProviderTypeOK, ThreadState, Attr
<1> HIDE DEF n, creds
<1>6. Generations'
  BY <1>1, <1>2, <1>3, <1>4 DEF ProviderInv, Generations, creds
<1>7. ASSUME ~overlap
      PROVE  /\ \A a \in Attr : held[a] <= held'[a] /\ held'[a] <= creds
             /\ n = 4 => \A a \in Attr : held'[a] = creds
             /\ held'["expiry"] \in Int /\ \A a \in Attr : held[a] \in Int
             /\ \A u \in Thread : threads[u].pc = "assign" => threads[u].creds = creds
             /\ threads[t].alive <= creds
             /\ n # 4 => held'["expiry"] = held["expiry"]
  <2>1. /\ \A a \in Attr : held[a] <= creds /\ held[a] \in Int
        /\ \A i \in 1..n-1 : held[Assigned[i]] = creds
        /\ \A u \in Thread : threads[u].pc = "assign" => threads[u].creds = creds
        /\ threads[t].alive <= creds
    BY <1>3, <1>7 DEF ProviderInv, OneSetAtATime, ProviderTypeOK, Generation, Generations, Attr,
                      n, creds
  <2>2. n = 4 => \A a \in Attr : held'[a] = creds
    BY <1>2, <2>1, OrdersOfProvider DEF Attr
  <2>3. n # 4 => held'["expiry"] = held["expiry"]
    BY <1>1, <1>2, OrdersOfProvider DEF Attr
  <2>4. "expiry" \in Attr
    BY DEF Attr
  <2>5. QED
    BY <1>1, <1>2, <2>1, <2>2, <2>3, <2>4
<1>8. (~overlap => OneSetAtATime)'
  <2>1. SUFFICES ASSUME ~overlap
                 PROVE  OneSetAtATime'
    BY <1>4
  <2>2. \A u \in Thread : threads'[u].pc = "assign" => threads'[u].creds = creds
    BY <1>3, <1>7, <2>1
  <2>3. ASSUME NEW u \in Thread, threads'[u].pc = "assign", NEW i \in 1..threads'[u].assigned
        PROVE  held'[Assigned[i]] = creds
    <3>1. CASE u = t
      <4>1. i \in 1..n /\ n # 4 /\ n \in 1..3
        BY <1>1, <1>3, <2>3, <3>1
      <4>2. i # n => held[Assigned[i]] = creds
        <5>1. i # n => i \in 1..threads[t].assigned
          BY <1>1, <4>1 DEF n, ProviderInv, ProviderTypeOK
        <5>2. QED
          BY <1>3, <2>1, <5>1 DEF ProviderInv, OneSetAtATime, creds
      <4>3. Assigned[i] \in Attr
        BY <4>1, OrdersOfProvider DEF Attr
      <4>4. QED
        BY <1>2, <4>2, <4>3
    <3>2. CASE u # t
      <4>1. threads'[u] = threads[u] /\ threads[u].assigned \in 0..3
        BY <1>3, <2>3, <3>2 DEF ProviderInv, Generations
      <4>2. held[Assigned[i]] = creds
        BY <1>7, <2>1, <2>3, <4>1 DEF ProviderInv, OneSetAtATime
      <4>3. Assigned[i] \in Attr
        BY <2>3, <4>1, OrdersOfProvider DEF Attr
      <4>4. QED
        BY <1>2, <4>2, <4>3
    <3>3. QED
      BY <3>1, <3>2
  <2>4. \A a \in Attr : held'["expiry"] <= held'[a]
    <3>1. CASE n = 4
      BY <1>7, <2>1, <3>1 DEF Attr
    <3>2. CASE n # 4
      <4>1. SUFFICES ASSUME NEW a \in Attr
                     PROVE  held'["expiry"] <= held'[a]
        OBVIOUS
      <4>2. held["expiry"] <= held[a] /\ held[a] <= held'[a]
        BY <1>7, <2>1 DEF ProviderInv, OneSetAtATime
      <4>3. held[a] \in Int /\ held'[a] \in Int /\ held["expiry"] \in Int
        BY <1>1, <1>2, <1>7, <2>1 DEF Generation, Attr
      <4>4. QED
        BY <1>7, <2>1, <3>2, <4>2, <4>3
    <3>3. QED
      BY <3>1, <3>2
  <2>5. \A a \in Attr : held'[a] <= creds
    BY <1>7, <2>1
  <2>6. QED
    BY <2>2, <2>3, <2>4, <2>5 DEF OneSetAtATime
<1>9. HeldIsOneSet'
  <2>1. SUFFICES ASSUME ~overlap, \A u \in Thread : threads'[u].pc # "assign"
                 PROVE  \A a, b \in DOMAIN held' : held'[a] = held'[b]
    BY <1>4 DEF HeldIsOneSet
  <2>2. n = 4
    BY <1>3, <2>1
  <2>3. QED
    BY <1>2, <1>7, <2>1, <2>2
<1>10. ReturnsAlive'
  <2>1. SUFFICES ASSUME NEW u \in Thread, threads'[u].pc = "return", ~failed, ~overlap
                 PROVE  held'[Attributes[threads'[u].read + 1]] >= threads'[u].alive
    BY <1>4 DEF ReturnsAlive
  <2> DEFINE a == Attributes[threads'[u].read + 1]
  <2>2. threads'[u].read = threads[u].read /\ threads'[u].alive = threads[u].alive
    BY <1>3
  <2>3. a \in Attr
    BY <2>2, OrdersOfProvider DEF ProviderInv, Generations
  <2>4. CASE u = t
    <3>1. n = 4 /\ held'[a] = creds /\ threads[t].alive <= creds
      BY <1>3, <1>7, <2>1, <2>3, <2>4
    <3>2. creds \in Int /\ threads[t].alive \in Int
      BY <1>1 DEF ProviderInv, ProviderTypeOK, Generation
    <3>3. QED
      BY <2>2, <2>4, <3>1, <3>2
  <2>5. CASE u # t
    <3>1. held[a] >= threads[u].alive
      BY <1>3, <2>1, <2>2, <2>5 DEF ProviderInv, ReturnsAlive
    <3>2. held[a] <= held'[a] /\ held[a] \in Int /\ held'[a] \in Int
      BY <1>2, <1>7, <2>1, <2>3 DEF Generation
    <3>3. threads[u].alive \in Int
      BY DEF ProviderInv, ProviderTypeOK, Generation
    <3> HIDE DEF a
    <3>4. held'[a] >= threads[u].alive
      BY <3>1, <3>2, <3>3
    <3>5. QED
      BY <2>2, <3>4 DEF a
  <2>6. QED
    BY <2>4, <2>5
<1>11. QED
  BY <1>4, <1>5, <1>6, <1>8, <1>9, <1>10 DEF ProviderInv

LEMMA ProviderInvStep ==
    ASSUME ProviderInv, [ProviderNext]_providerVars
    PROVE  ProviderInv'
<1>1. CASE UNCHANGED providerVars
  BY <1>1 DEF providerVars, ProviderInv, ProviderTypeOK, Generations, OneSetAtATime,
              HeldIsOneSet, ReturnsAlive
<1>2. ASSUME NEW t \in Thread, Sign(t)
      PROVE  ProviderInv'
  <2>1. /\ threads' \in [Thread -> ThreadState]
        /\ \A u \in Thread \ {t} : threads'[u] = threads[u]
        /\ threads[t].pc = "idle" /\ threads'[t].pc = "check" /\ threads'[t].read = 0
    <3> DEFINE state == [pc |-> "check", read |-> 0, assigned |-> threads[t].assigned,
                         creds |-> threads[t].creds, alive |-> threads[t].alive]
    <3>1. Became(t, state)
      BY <1>2, ThreadStates DEF Sign, ThreadState, Became
    <3>2. state \in ThreadState
      BY ThreadStates DEF ThreadState
    <3>3. threads' \in [Thread -> ThreadState]
      BY <3>1, <3>2, BecameTyped
    <3>4. QED
      BY <1>2, <3>1, <3>3 DEF Sign, Became
  <2>2. QED
    BY <1>2, <2>1, ThreadMoves DEF Sign
<1>3. ASSUME NEW t \in Thread, CheckExpiry(t)
      PROVE  ProviderInv'
  BY <1>3, CheckExpiryKeeps
<1>4. ASSUME NEW t \in Thread, Fetch(t)
      PROVE  ProviderInv'
  BY <1>4, FetchKeeps
<1>5. ASSUME NEW t \in Thread, FetchFails(t)
      PROVE  ProviderInv'
  <2>1. /\ threads' \in [Thread -> ThreadState]
        /\ \A u \in Thread \ {t} : threads'[u] = threads[u]
        /\ threads[t].pc = "fetch" /\ threads'[t].pc \in {"return", "idle"}
        /\ threads'[t].read \in 0..2
    BY <1>5, ProviderAssumption
       DEF FetchFails, ThreadAt, IdleThread, ProviderInv, ProviderTypeOK, ThreadState, Generation,
           Generations
  <2>2. failed' /\ failed' \in BOOLEAN /\ UNCHANGED <<generation, soon, expired, held, overlap>>
    BY <1>5 DEF FetchFails
  <2>3. ProviderTypeOK'
    BY <2>1, <2>2 DEF ProviderInv, ProviderTypeOK, ThreadState
  <2>4. Generations'
    BY <2>1, <2>2 DEF ProviderInv, Generations
  <2>5. (~overlap => OneSetAtATime)'
    BY <2>1, <2>2 DEF ProviderInv, OneSetAtATime
  <2>6. HeldIsOneSet' /\ ReturnsAlive'
    BY <2>1, <2>2 DEF ProviderInv, HeldIsOneSet, ReturnsAlive
  <2>7. QED
    BY <2>3, <2>4, <2>5, <2>6 DEF ProviderInv
<1>6. ASSUME NEW t \in Thread, Assign(t)
      PROVE  ProviderInv'
  BY <1>6, AssignKeeps
<1>7. ASSUME NEW t \in Thread, Return(t)
      PROVE  ProviderInv'
  <2>1. threads[t].pc = "return" /\ threads[t].read \in 0..2
    BY <1>7 DEF Return, ProviderInv, Generations
  <2>2. /\ threads' \in [Thread -> ThreadState]
        /\ \A u \in Thread \ {t} : threads'[u] = threads[u]
        /\ threads'[t].pc \in {"idle", "check"} /\ threads'[t].read \in 0..2
    <3>1. CASE threads[t].read = 2
      <4>1. Became(t, IdleThread)
        <5>1. threads' = [threads EXCEPT ![t] = IdleThread]
          BY <1>7, <3>1, OrdersOfProvider DEF Return
        <5>2. QED
          BY <5>1, ThreadStates DEF Became
      <4>2. IdleThread \in ThreadState
        BY ThreadStates DEF ThreadState, IdleThread
      <4>3. threads' \in [Thread -> ThreadState]
        BY <4>1, <4>2, BecameTyped
      <4>4. QED
        BY <4>1, <4>3 DEF Became, IdleThread
    <3>2. CASE threads[t].read # 2
      <4> DEFINE state == [pc |-> "check", read |-> threads[t].read + 1,
                           assigned |-> threads[t].assigned, creds |-> threads[t].creds,
                           alive |-> threads[t].alive]
      <4>1. Became(t, state)
        BY <1>7, <3>2, ThreadStates, OrdersOfProvider DEF Return, ThreadState, Became
      <4>2. state \in ThreadState
        BY <2>1, <3>2, ThreadStates DEF ThreadState
      <4>3. threads' \in [Thread -> ThreadState]
        BY <4>1, <4>2, BecameTyped
      <4>4. QED
        BY <2>1, <3>2, <4>1, <4>3 DEF Became
    <3>3. QED
      BY <3>1, <3>2
  <2>3. UNCHANGED <<generation, soon, expired, held, overlap, failed>>
    BY <1>7 DEF Return
  <2>4. threads[t].pc # "assign"
    BY <2>1
  <2>5. QED
    BY <2>2, <2>3, <2>4, ThreadMoves
<1>8. CASE Rotate \/ NearExpiry \/ ExpireKeys
  <2>1. /\ UNCHANGED <<held, threads, overlap, failed>>
        /\ generation' \in Generation /\ soon' \in Generation /\ expired' \in 1..soon'
        /\ generation <= generation' /\ soon' <= generation' /\ expired <= expired'
    <3>1. /\ generation \in 1..MaxGeneration /\ soon \in 1..MaxGeneration /\ expired \in 1..soon
          /\ soon <= generation
      BY DEF ProviderInv, ProviderTypeOK, Generations, Generation
    <3>2. QED
      BY <1>8, <3>1, ProviderAssumption DEF Rotate, NearExpiry, ExpireKeys, Generation
  <2>2. ProviderTypeOK'
    BY <2>1 DEF ProviderInv, ProviderTypeOK
  <2>3. Generations'
    BY <2>1 DEF ProviderInv, ProviderTypeOK, Generations, Generation, Attr
  <2>4. (~overlap => OneSetAtATime)' /\ HeldIsOneSet' /\ ReturnsAlive'
    BY <2>1 DEF ProviderInv, OneSetAtATime, HeldIsOneSet, ReturnsAlive
  <2>5. QED
    BY <2>2, <2>3, <2>4 DEF ProviderInv
<1>9. QED
  BY <1>1, <1>2, <1>3, <1>4, <1>5, <1>6, <1>7, <1>8 DEF ProviderNext

\* Unless two threads assigned different sets at once, the keys, the token and
\* the expiry held are of one set when nobody is assigning (provider.py:382-411).
THEOREM ProviderHeldIsOneSet == Spec => []HeldIsOneSet
<1>1. Init => ProviderInv
  BY ProviderInvInit DEF Init
<1>2. ProviderInv /\ [Next]_vars => ProviderInv'
  BY StepsOfParts, ProviderInvStep
<1>3. ProviderInv => HeldIsOneSet
  BY DEF ProviderInv
<1>4. QED
  BY <1>1, <1>2, <1>3, PTL DEF Spec

\* What a read returns had not expired when the read checked it
\* (provider.py:200-248).
THEOREM ProviderReturnsAlive == Spec => []ReturnsAlive
<1>1. Init => ProviderInv
  BY ProviderInvInit DEF Init
<1>2. ProviderInv /\ [Next]_vars => ProviderInv'
  BY StepsOfParts, ProviderInvStep
<1>3. ProviderInv => ReturnsAlive
  BY DEF ProviderInv
<1>4. QED
  BY <1>1, <1>2, <1>3, PTL DEF Spec

-----------------------------------------------------------------------------
(* Task.                                                                   *)

Past(p) == pollers[p].pc \in {"run", "write", "put", "delete", "defer"}

\* The chain of messages is kept: a new message is in the queue before its id
\* is saved, no poller that is past its check holds it, and the message a
\* poller deletes is no longer the one of the task.
ChainKept ==
    /\ starter.pc # "done" => stored.message_id = NoMessage /\ \A p \in Poller : ~Past(p)
    /\ starter.pc = "put" => starter.m \in Queued
    /\ \A q \in Poller : pollers[q].pc = "put" =>
          /\ pollers[q].new_msg \in Queued
          /\ pollers[q].new_msg # stored.message_id
          /\ \A p \in Poller : Past(p) => pollers[p].m # pollers[q].new_msg
          /\ \A p \in Poller \ {q} : pollers[p].pc = "put" =>
                pollers[p].new_msg # pollers[q].new_msg
    /\ \A p \in Poller : pollers[p].pc = "delete" => pollers[p].m # stored.message_id

TaskInv == TaskTypeOK /\ (~early => ChainKept) /\ ChainLives

PollerState ==
    [pc : {"poll", "load", "run", "write", "put", "delete", "defer", "dead"},
     m : Message \cup {NoMessage}, new_msg : Message \cup {NoMessage}, delay : 0..23]

QueueState == 0..23 \cup Poller \cup {NoMessage, Nobody}

LEMMA TaskTypes ==
    ASSUME TaskInv
    PROVE  /\ pollers \in [Poller -> PollerState]
           /\ queue \in [Message -> QueueState]
BY DEF TaskInv, TaskTypeOK, PollerState, QueueState

LEMMA TaskInvInit == TaskInit => TaskInv
<1> SUFFICES ASSUME TaskInit
             PROVE  TaskInv
  OBVIOUS
<1>1. hour \in 0..23
  <2>1. hour \in IF Hour = EveryHour THEN {0} ELSE 0..23
    BY DEF TaskInit
  <2>2. QED
    BY <2>1
<1> USE TaskAssumption DEF TaskInit, AtPoll
<1>2. pollers \in [Poller -> PollerState]
  BY DEF PollerState
<1>3. queue \in [Message -> QueueState]
  BY DEF QueueState
<1>4. stored \in Item
  BY DEF Item, LastExecuted
<1>5. TaskTypeOK
  BY <1>1, <1>2, <1>3, <1>4 DEF TaskTypeOK, PollerState, QueueState
<1>6. ChainKept
  BY DEF ChainKept, Past
<1>7. ChainLives
  BY DEF ChainLives
<1>8. QED
  BY <1>5, <1>6, <1>7 DEF TaskInv

\* A step changes the state of one poller.
PollerBecame(p, state) ==
    /\ pollers' = [q \in Poller |-> pollers'[q]]
    /\ \A q \in Poller \ {p} : pollers'[q] = pollers[q]
    /\ pollers'[p] = state

LEMMA PollerTyped ==
    ASSUME TaskInv, NEW p \in Poller, NEW state \in PollerState, PollerBecame(p, state)
    PROVE  pollers' \in [Poller -> PollerState]
<1>1. \A q \in Poller : pollers'[q] \in PollerState
  BY TaskTypes DEF PollerBecame
<1>2. QED
  BY <1>1 DEF PollerBecame

LEMMA CheckType == ASSUME TaskTypeOK PROVE Check \in 0..23
<1>1. hour \in 0..23 /\ stored.last_executed \in LastExecuted
  BY DEF TaskTypeOK, Item
<1>2. CASE Hour = EveryHour
  BY <1>2 DEF Check
<1>3. CASE Hour # EveryHour
  <2>1. Hour \in 0..23
    BY <1>3, TaskAssumption
  <2>2. Distance \in 0..23
    BY <1>1, <2>1 DEF Distance
  <2>3. QED
    BY <1>3, <2>2 DEF Check
<1>4. QED
  BY <1>2, <1>3

\* A step of a poller that is not past its check afterwards, and takes no
\* message out of the queue.
LEMMA PollerRests ==
    ASSUME TaskInv, NEW p \in Poller, NEW state \in PollerState, PollerBecame(p, state),
           state.pc \in {"poll", "load", "dead"},
           queue' \in [Message -> QueueState], Queued \subseteq Queued',
           mishaps' \in 0..MaxMishaps,
           UNCHANGED <<hour, stored, starter, executed, early>>
    PROVE  TaskInv'
<1>1. TaskTypeOK'
  BY PollerTyped DEF TaskInv, TaskTypeOK, PollerState, QueueState
<1>2. /\ ~Past(p)' /\ pollers'[p].pc \notin {"put", "delete"}
      /\ \A q \in Poller \ {p} : pollers'[q] = pollers[q] /\ (Past(q)' <=> Past(q))
  BY DEF PollerBecame, Past
<1>3. (~early => ChainKept)'
  BY <1>2 DEF TaskInv, ChainKept
<1>4. ChainLives'
  BY DEF TaskInv, ChainLives
<1>5. QED
  BY <1>1, <1>3, <1>4 DEF TaskInv

\* A step of the queue alone.
LEMMA QueueMoves ==
    ASSUME TaskInv,
           queue' \in [Message -> QueueState], Queued \subseteq Queued',
           mishaps' \in 0..MaxMishaps,
           stored' \in Item, stored'.message_id = stored.message_id,
           hour' \in 0..23, executed' \in Nat,
           UNCHANGED <<pollers, starter, early>>
    PROVE  TaskInv'
<1>1. TaskTypeOK'
  BY DEF TaskInv, TaskTypeOK, QueueState
<1>2. (~early => ChainKept)'
  BY DEF TaskInv, ChainKept, Past
<1>3. ChainLives'
  BY DEF TaskInv, ChainLives
<1>4. QED
  BY <1>1, <1>2, <1>3 DEF TaskInv

LEMMA StartKeeps ==
    ASSUME TaskInv, StartWrites \/ StartPuts
    PROVE  TaskInv'
<1>1. CASE StartWrites
  <2>1. PICK m \in Message : /\ queue' = [queue EXCEPT ![m] = 0]
                             /\ starter' = [pc |-> "put", m |-> m]
    BY <1>1 DEF StartWrites
  <2>2. UNCHANGED <<hour, stored, pollers, executed, mishaps, early>> /\ starter.pc = "idle"
    BY <1>1 DEF StartWrites
  <2>3. queue' \in [Message -> QueueState] /\ Queued' = Queued \cup {m}
    BY <2>1, TaskTypes, TaskAssumption DEF Queued, QueueState
  <2>4. TaskTypeOK'
    BY <2>1, <2>2, <2>3 DEF TaskInv, TaskTypeOK, QueueState
  <2>5. (~early => ChainKept)'
    BY <2>1, <2>2, <2>3 DEF TaskInv, ChainKept, Past
  <2>6. ChainLives'
    BY <2>2, <2>3 DEF TaskInv, ChainLives
  <2>7. QED
    BY <2>4, <2>5, <2>6 DEF TaskInv
<1>2. CASE StartPuts
  <2>1. /\ stored' = [message_id |-> starter.m, last_executed |-> Never]
        /\ starter' = [pc |-> "done", m |-> NoMessage]
        /\ starter.pc = "put"
        /\ UNCHANGED <<hour, queue, pollers, executed, mishaps, early>>
    BY <1>2 DEF StartPuts
  <2>2. starter.m \in Message \cup {NoMessage}
    BY DEF TaskInv, TaskTypeOK
  <2>3. stored' \in Item
    BY <2>1, <2>2 DEF Item, LastExecuted
  <2>4. TaskTypeOK'
    BY <2>1, <2>3 DEF TaskInv, TaskTypeOK
  <2>5. ~early => /\ \A p \in Poller : ~Past(p)
                  /\ \A p \in Poller : pollers[p].pc \notin {"put", "delete"}
                  /\ starter.m \in Queued
    BY <2>1 DEF TaskInv, ChainKept, Past
  <2>6. (~early => ChainKept)'
    BY <2>1, <2>5 DEF ChainKept, Past
  <2>7. ChainLives'
    BY <2>1, <2>5 DEF ChainLives, Queued
  <2>8. QED
    BY <2>4, <2>6, <2>7 DEF TaskInv
<1>3. QED
  BY <1>1, <1>2

LEMMA AtPollType ==
    /\ AtPoll \in PollerState /\ AtPoll.pc = "poll"
    /\ [AtPoll EXCEPT !.pc = "dead"] \in PollerState
    /\ [AtPoll EXCEPT !.pc = "dead"].pc = "dead"
<1>1. AtPoll \in PollerState /\ AtPoll.pc = "poll"
  BY DEF AtPoll, PollerState
<1>2. [AtPoll EXCEPT !.pc = "dead"] \in PollerState
  BY <1>1 DEF PollerState
<1>3. [AtPoll EXCEPT !.pc = "dead"].pc = "dead"
  BY <1>1 DEF PollerState
<1>4. QED
  BY <1>1, <1>2, <1>3

LEMMA TwoFields ==
    ASSUME NEW A, NEW B, NEW C, NEW D, NEW o \in [pc : A, m : B, new_msg : C, delay : D],
           NEW a \in A, NEW b \in B
    PROVE  /\ [o EXCEPT !.pc = a, !.m = b] \in [pc : A, m : B, new_msg : C, delay : D]
           /\ [o EXCEPT !.pc = a, !.m = b].pc = a
OBVIOUS

LEMMA LoadType ==
    ASSUME NEW m \in Message
    PROVE  /\ [AtPoll EXCEPT !.pc = "load", !.m = m] \in PollerState
           /\ [AtPoll EXCEPT !.pc = "load", !.m = m].pc = "load"
BY AtPollType, TwoFields DEF PollerState

\* The poll, up to the check.
LEMMA RestingSteps ==
    ASSUME TaskInv, NEW p \in Poller,
           Read(p) \/ Ignore(p) \/ Defer(p) \/ DeferRaises(p) \/ PollerDies(p)
    PROVE  TaskInv'
<1>1. TaskTypeOK /\ mishaps \in 0..MaxMishaps
  BY DEF TaskInv, TaskTypeOK
<1>2. CASE Read(p)
  <2>1. PICK m \in Message :
           /\ queue' = [queue EXCEPT ![m] = p]
           /\ pollers' = [pollers EXCEPT ![p] = [AtPoll EXCEPT !.pc = "load", !.m = m]]
    BY <1>2 DEF Read
  <2> DEFINE state == [AtPoll EXCEPT !.pc = "load", !.m = m]
  <2>2. state \in PollerState /\ state.pc = "load"
    BY LoadType
  <2> HIDE DEF state
  <2>3. PollerBecame(p, state)
    BY <2>1, TaskTypes DEF PollerBecame, state
  <2>4. queue' \in [Message -> QueueState] /\ Queued \subseteq Queued'
    BY <2>1, TaskTypes, TaskAssumption DEF Queued, QueueState
  <2>5. UNCHANGED <<hour, stored, starter, executed, mishaps, early>>
    BY <1>2 DEF Read
  <2>6. QED
    BY <1>1, <2>2, <2>3, <2>4, <2>5, PollerRests
<1>3. CASE Ignore(p) \/ Defer(p)
  <2>1. pollers' = [pollers EXCEPT ![p] = AtPoll]
    BY <1>3 DEF Ignore, Defer
  <2>2. PollerBecame(p, AtPoll) /\ AtPoll \in PollerState /\ AtPoll.pc = "poll"
    BY <2>1, TaskTypes, AtPollType DEF PollerBecame
  <2>3. PICK x \in {Nobody} \cup 0..23 :
           queue' \in {queue, [queue EXCEPT ![pollers[p].m] = x]}
    BY <1>3, TaskTypes DEF Ignore, Defer, PollerState
  <2>4. queue' \in [Message -> QueueState] /\ Queued \subseteq Queued'
    BY <2>3, TaskTypes, TaskAssumption DEF Queued, QueueState
  <2>5. UNCHANGED <<hour, stored, starter, executed, mishaps, early>>
    BY <1>3 DEF Ignore, Defer
  <2>6. QED
    BY <1>1, <2>2, <2>4, <2>5, PollerRests
<1>4. CASE DeferRaises(p)
  <2> DEFINE state == [AtPoll EXCEPT !.pc = "dead"]
  <2>1. state \in PollerState /\ state.pc = "dead"
    BY AtPollType
  <2>2. pollers' = [pollers EXCEPT ![p] = state]
    BY <1>4 DEF DeferRaises
  <2> HIDE DEF state
  <2>3. PollerBecame(p, state)
    BY <2>2, TaskTypes DEF PollerBecame
  <2>4. queue' \in {queue, [queue EXCEPT ![pollers[p].m] = Nobody]}
    BY <1>4 DEF DeferRaises
  <2>5. queue' \in [Message -> QueueState] /\ Queued \subseteq Queued'
    BY <2>4, TaskTypes, TaskAssumption DEF Queued, QueueState
  <2>6. UNCHANGED <<hour, stored, starter, executed, mishaps, early>>
    BY <1>4 DEF DeferRaises
  <2>7. QED
    BY <1>1, <2>1, <2>3, <2>5, <2>6, PollerRests
<1>5. CASE PollerDies(p)
  <2>1. pollers' = [pollers EXCEPT ![p] = AtPoll]
    BY <1>5 DEF PollerDies
  <2>2. PollerBecame(p, AtPoll) /\ AtPoll \in PollerState /\ AtPoll.pc = "poll"
    BY <2>1, TaskTypes, AtPollType DEF PollerBecame
  <2>3. queue' \in [Message -> QueueState] /\ Queued \subseteq Queued'
    BY <1>5, TaskTypes, TaskAssumption DEF PollerDies, Queued, QueueState
  <2>4. UNCHANGED <<hour, stored, starter, executed, early>> /\ mishaps' \in 0..MaxMishaps
    BY <1>1, <1>5, TaskAssumption DEF PollerDies
  <2>5. QED
    BY <2>2, <2>3, <2>4, PollerRests
<1>6. QED
  BY <1>2, <1>3, <1>4, <1>5

\* The steps of a poller that is past its check, or passes it.
LEMMA RunningSteps ==
    ASSUME TaskInv, NEW p \in Poller,
           LoadTask(p) \/ Run(p) \/ WriteMessage(p) \/ PutTask(p) \/ DeleteMessage(p)
    PROVE  TaskInv'
<1>0. TaskTypeOK /\ pollers[p] \in PollerState
  BY TaskTypes DEF TaskInv
<1>1. CASE LoadTask(p)
  <2> DEFINE to == IF Check = 0 THEN "run" ELSE "defer"
             state == [pc |-> to, m |-> pollers[p].m, new_msg |-> pollers[p].new_msg,
                       delay |-> Check]
  <2>1. /\ pollers' = [pollers EXCEPT ![p].pc = to, ![p].delay = Check]
        /\ early' = (early \/ stored.message_id = NoMessage)
        /\ stored.message_id \in {NoMessage, pollers[p].m}
        /\ UNCHANGED <<hour, queue, stored, starter, executed, mishaps>>
    BY <1>1 DEF LoadTask, Takes
  <2>2. to \in {"run", "defer"} /\ Check \in 0..23
    BY <1>0, CheckType
  <2> HIDE DEF to
  <2>3. PollerBecame(p, state)
    BY <2>1, TaskTypes DEF PollerState, PollerBecame
  <2>4. state \in PollerState
    BY <1>0, <2>2 DEF PollerState
  <2>5. pollers' \in [Poller -> PollerState]
    BY <2>3, <2>4, PollerTyped
  <2>6. early' \in BOOLEAN
    BY <2>1
  <2>7. TaskTypeOK'
    BY <1>0, <2>1, <2>5, <2>6 DEF TaskTypeOK, PollerState
  <2>8. ASSUME ~early'
        PROVE  ChainKept'
    <3>1. /\ ~early /\ ChainKept
          /\ stored.message_id = pollers[p].m /\ stored.message_id # NoMessage
      BY <2>1, <2>8 DEF TaskInv
    <3>2. /\ pollers'[p].pc \in {"run", "defer"} /\ pollers'[p].m = stored.message_id
          /\ \A q \in Poller \ {p} : pollers'[q] = pollers[q] /\ (Past(q)' <=> Past(q))
      BY <2>2, <2>3, <3>1 DEF PollerBecame, Past
    <3>3. Queued' = Queued
      BY <2>1 DEF Queued
    <3>4. starter.pc = "done"
      BY <3>1 DEF ChainKept
    <3>5. \A q \in Poller : pollers'[q].pc \in {"put", "delete"} => q # p
      BY <3>2
    <3>6. ASSUME NEW q \in Poller, pollers'[q].pc = "put"
          PROVE  /\ pollers'[q].new_msg \in Queued
                 /\ pollers'[q].new_msg # stored.message_id
                 /\ \A r \in Poller : Past(r)' => pollers'[r].m # pollers'[q].new_msg
                 /\ \A r \in Poller \ {q} : pollers'[r].pc = "put" =>
                       pollers'[r].new_msg # pollers'[q].new_msg
      <4>1. q # p /\ pollers'[q] = pollers[q] /\ pollers[q].pc = "put"
        BY <3>2, <3>5, <3>6
      <4>2. /\ pollers[q].new_msg \in Queued
            /\ pollers[q].new_msg # stored.message_id
            /\ \A r \in Poller : Past(r) => pollers[r].m # pollers[q].new_msg
            /\ \A r \in Poller \ {q} : pollers[r].pc = "put" =>
                  pollers[r].new_msg # pollers[q].new_msg
        BY <3>1, <4>1 DEF ChainKept
      <4>3. QED
        BY <3>2, <3>5, <4>1, <4>2
    <3>7. \A q \in Poller : pollers'[q].pc = "delete" => pollers'[q].m # stored.message_id
      BY <3>1, <3>2, <3>5 DEF ChainKept
    <3>8. QED
      BY <2>1, <3>3, <3>4, <3>6, <3>7 DEF ChainKept
  <2>9. ChainLives'
    BY <2>1 DEF TaskInv, ChainLives, Queued
  <2>10. QED
    BY <2>7, <2>8, <2>9 DEF TaskInv
<1>2. CASE Run(p)
  <2> DEFINE state == [pc |-> "write", m |-> pollers[p].m, new_msg |-> pollers[p].new_msg,
                       delay |-> pollers[p].delay]
  <2>1. /\ pollers' = [pollers EXCEPT ![p].pc = "write"]
        /\ pollers[p].pc = "run"
        /\ executed' = executed + 1
        /\ UNCHANGED <<hour, queue, stored, starter, mishaps, early>>
    BY <1>2 DEF Run, PollerAt
  <2>2. PollerBecame(p, state)
    BY <2>1, TaskTypes DEF PollerState, PollerBecame
  <2>3. state \in PollerState
    BY <1>0 DEF PollerState
  <2>4. pollers' \in [Poller -> PollerState]
    BY <2>2, <2>3, PollerTyped
  <2>5. TaskTypeOK'
    BY <1>0, <2>1, <2>4 DEF TaskTypeOK, PollerState
  <2>6. /\ pollers'[p].pc = "write" /\ pollers'[p].m = pollers[p].m /\ Past(p)
        /\ \A q \in Poller \ {p} : pollers'[q] = pollers[q] /\ (Past(q)' <=> Past(q))
    BY <2>1, <2>2 DEF PollerBecame, Past
  <2>7. (~early => ChainKept)'
    BY <2>1, <2>6 DEF TaskInv, ChainKept, Queued
  <2>8. ChainLives'
    BY <2>1 DEF TaskInv, ChainLives, Queued
  <2>9. QED
    BY <2>5, <2>7, <2>8 DEF TaskInv
<1>3. CASE WriteMessage(p)
  <2>1. PICK m \in Message :
           /\ Unused(m)
           /\ queue' = [queue EXCEPT ![m] = 0]
           /\ pollers' = [pollers EXCEPT ![p].pc = "put", ![p].new_msg = m]
    BY <1>3 DEF WriteMessage
  <2>2. UNCHANGED <<hour, stored, starter, executed, mishaps, early>> /\ pollers[p].pc = "write"
    BY <1>3 DEF WriteMessage
  <2> DEFINE state == [pc |-> "put", m |-> pollers[p].m, new_msg |-> m,
                       delay |-> pollers[p].delay]
  <2>3. PollerBecame(p, state)
    BY <2>1, TaskTypes DEF PollerState, PollerBecame
  <2>4. state \in PollerState
    BY <1>0 DEF PollerState
  <2>5. pollers' \in [Poller -> PollerState]
    BY <2>3, <2>4, PollerTyped
  <2>6. queue' \in [Message -> QueueState] /\ Queued' = Queued \cup {m}
    BY <2>1, TaskTypes, TaskAssumption DEF Queued, QueueState
  <2>7. TaskTypeOK'
    BY <1>0, <2>2, <2>5, <2>6 DEF TaskTypeOK, PollerState, QueueState
  <2>8. /\ pollers'[p].pc = "put" /\ pollers'[p].m = pollers[p].m /\ pollers'[p].new_msg = m
        /\ Past(p) /\ Past(p)'
        /\ \A q \in Poller \ {p} : pollers'[q] = pollers[q] /\ (Past(q)' <=> Past(q))
    BY <2>2, <2>3 DEF PollerBecame, Past
  <2>9. /\ stored.message_id # m
        /\ \A q \in Poller : pollers[q].m # m /\ pollers[q].new_msg # m
    BY <2>1 DEF Unused
  <2>10. (~early => ChainKept)'
    <3>1. SUFFICES ASSUME ~early, ChainKept
                   PROVE  ChainKept'
      BY <2>2 DEF TaskInv
    <3>2. ASSUME NEW q \in Poller, pollers'[q].pc = "put"
          PROVE  /\ pollers'[q].new_msg \in Queued'
                 /\ pollers'[q].new_msg # stored.message_id
                 /\ \A r \in Poller : Past(r)' => pollers'[r].m # pollers'[q].new_msg
                 /\ \A r \in Poller \ {q} : pollers'[r].pc = "put" =>
                       pollers'[r].new_msg # pollers'[q].new_msg
      <4>1. CASE q = p
        BY <2>6, <2>8, <2>9, <4>1
      <4>2. CASE q # p
        BY <2>6, <2>8, <2>9, <3>1, <3>2, <4>2 DEF ChainKept
      <4>3. QED
        BY <4>1, <4>2
    <3>3. starter.pc = "done"
      BY <2>8, <3>1 DEF ChainKept
    <3>4. \A q \in Poller : pollers'[q].pc = "delete" => pollers'[q].m # stored.message_id
      BY <2>8, <3>1 DEF ChainKept
    <3>5. QED
      BY <2>2, <3>2, <3>3, <3>4 DEF ChainKept
  <2>11. ChainLives'
    BY <2>2, <2>6 DEF TaskInv, ChainLives
  <2>12. QED
    BY <2>7, <2>10, <2>11 DEF TaskInv
<1>4. CASE PutTask(p)
  <2> DEFINE state == [pc |-> "delete", m |-> pollers[p].m, new_msg |-> pollers[p].new_msg,
                       delay |-> pollers[p].delay]
  <2>1. /\ pollers' = [pollers EXCEPT ![p].pc = "delete"]
        /\ pollers[p].pc = "put"
        /\ stored' = [message_id |-> pollers[p].new_msg, last_executed |-> 0]
        /\ UNCHANGED <<hour, queue, starter, executed, mishaps, early>>
    BY <1>4 DEF PutTask, PollerAt, NewItem
  <2>2. PollerBecame(p, state)
    BY <2>1, TaskTypes DEF PollerState, PollerBecame
  <2>3. state \in PollerState /\ pollers[p].new_msg \in Message \cup {NoMessage}
    BY <1>0 DEF PollerState
  <2>4. pollers' \in [Poller -> PollerState]
    BY <2>2, <2>3, PollerTyped
  <2>5. stored' \in Item
    BY <2>1, <2>3 DEF Item, LastExecuted
  <2>6. TaskTypeOK'
    BY <1>0, <2>1, <2>4, <2>5 DEF TaskTypeOK, PollerState
  <2>7. /\ pollers'[p].pc = "delete" /\ pollers'[p].m = pollers[p].m /\ Past(p)
        /\ \A q \in Poller \ {p} : pollers'[q] = pollers[q] /\ (Past(q)' <=> Past(q))
        /\ stored'.message_id = pollers[p].new_msg
    BY <2>1, <2>2 DEF PollerBecame, Past
  <2>8. (~early => ChainKept)'
    <3>1. SUFFICES ASSUME ~early, ChainKept
                   PROVE  ChainKept'
      BY <2>1 DEF TaskInv
    <3>2. starter.pc = "done"
      BY <2>7, <3>1 DEF ChainKept
    <3>3. \A q \in Poller : pollers'[q].pc = "put" =>
             /\ q # p /\ pollers[q].pc = "put"
             /\ pollers[q].new_msg # pollers[p].new_msg
      BY <2>1, <2>7, <3>1 DEF ChainKept
    <3>4. \A q \in Poller : pollers'[q].pc = "delete" => pollers'[q].m # pollers[p].new_msg
      BY <2>1, <2>7, <3>1 DEF ChainKept, Past
    <3>5. \A q \in Poller : pollers'[q].pc = "put" =>
             /\ pollers'[q].new_msg \in Queued'
             /\ \A r \in Poller : Past(r)' => pollers'[r].m # pollers'[q].new_msg
             /\ \A r \in Poller \ {q} : pollers'[r].pc = "put" =>
                   pollers'[r].new_msg # pollers'[q].new_msg
      BY <2>1, <2>7, <3>1, <3>3 DEF ChainKept, Queued
    <3>6. QED
      BY <2>1, <2>7, <3>2, <3>3, <3>4, <3>5 DEF ChainKept
  <2>9. ChainLives'
    BY <2>1, <2>7 DEF TaskInv, ChainKept, ChainLives, Queued
  <2>10. QED
    BY <2>6, <2>8, <2>9 DEF TaskInv
<1>5. CASE DeleteMessage(p)
  <2>1. /\ pollers' = [pollers EXCEPT ![p] = AtPoll]
        /\ pollers[p].pc = "delete"
        /\ queue' \in {queue, [queue EXCEPT ![pollers[p].m] = NoMessage]}
        /\ UNCHANGED <<hour, stored, starter, executed, mishaps, early>>
    BY <1>5 DEF DeleteMessage, Deleted
  <2>2. PollerBecame(p, AtPoll) /\ AtPoll \in PollerState /\ AtPoll.pc = "poll"
    BY <2>1, TaskTypes, AtPollType DEF PollerBecame
  <2>3. queue' \in [Message -> QueueState] /\ Queued \ {pollers[p].m} \subseteq Queued'
    BY <2>1, TaskTypes DEF Queued, QueueState
  <2>4. pollers' \in [Poller -> PollerState]
    BY <2>2, PollerTyped
  <2>5. TaskTypeOK'
    BY <1>0, <2>1, <2>3, <2>4 DEF TaskTypeOK, PollerState, QueueState
  <2>6. /\ Past(p) /\ pollers'[p].pc = "poll" /\ ~Past(p)'
        /\ \A q \in Poller \ {p} : pollers'[q] = pollers[q] /\ (Past(q)' <=> Past(q))
    BY <2>1, <2>2 DEF PollerBecame, Past
  <2>7. (~early => ChainKept)'
    <3>1. SUFFICES ASSUME ~early, ChainKept
                   PROVE  ChainKept'
      BY <2>1 DEF TaskInv
    <3>2. starter.pc = "done"
      BY <2>6, <3>1 DEF ChainKept
    <3>3. \A q \in Poller : pollers'[q].pc = "put" => pollers'[q].new_msg \in Queued'
      BY <2>3, <2>6, <3>1 DEF ChainKept
    <3>4. QED
      BY <2>1, <2>6, <3>1, <3>2, <3>3 DEF ChainKept
  <2>8. ChainLives'
    BY <2>1, <2>3 DEF TaskInv, ChainKept, ChainLives
  <2>9. QED
    BY <2>5, <2>7, <2>8 DEF TaskInv
<1>6. QED
  BY <1>1, <1>2, <1>3, <1>4, <1>5

LEMMA TickKeeps ==
    ASSUME TaskInv, Timeout \/ Lapse \/ Tick
    PROVE  TaskInv'
<1>1. TaskTypeOK /\ stored \in Item /\ hour \in 0..23 /\ executed \in Nat
  BY DEF TaskInv, TaskTypeOK
<1>2. CASE Timeout \/ Lapse
  <2>1. PICK m \in Message : queue' = [queue EXCEPT ![m] = 0]
    BY <1>2 DEF Timeout, Lapse
  <2>2. queue' \in [Message -> QueueState] /\ Queued \subseteq Queued'
    BY <2>1, TaskTypes, TaskAssumption DEF Queued, QueueState
  <2>3. mishaps' \in 0..MaxMishaps /\ UNCHANGED <<hour, stored, pollers, starter, executed, early>>
    BY <1>1, <1>2, TaskAssumption DEF Timeout, Lapse, TaskTypeOK
  <2>4. QED
    BY <1>1, <2>2, <2>3, QueueMoves
<1>3. CASE Tick
  <2>1. queue' = [m \in Message |-> IF queue[m] \in 1..23 THEN queue[m] - 1 ELSE queue[m]]
    BY <1>3 DEF Tick
  <2>2. queue' \in [Message -> QueueState] /\ Queued \subseteq Queued'
    BY <2>1, TaskTypes, TaskAssumption DEF Queued, QueueState
  <2>3. stored' \in Item /\ stored'.message_id = stored.message_id
    <3>1. stored.last_executed \in LastExecuted
      BY <1>1 DEF Item
    <3>2. Older(stored.last_executed) \in LastExecuted
      BY <3>1, TaskAssumption DEF Older, LastExecuted
    <3>3. stored' = [stored EXCEPT !.last_executed = Older(stored.last_executed)]
      BY <1>3 DEF Tick
    <3>4. QED
      BY <1>1, <3>2, <3>3 DEF Item
  <2>4. hour' \in 0..23
    <3>1. hour' = IF Hour = EveryHour THEN hour ELSE (hour + 1) % 24
      BY <1>3 DEF Tick
    <3>2. QED
      BY <1>1, <3>1
  <2>5. executed' \in Nat /\ mishaps' \in 0..MaxMishaps /\ UNCHANGED <<pollers, starter, early>>
    BY <1>1, <1>3 DEF Tick, TaskTypeOK
  <2>6. QED
    BY <2>2, <2>3, <2>4, <2>5, QueueMoves
<1>4. QED
  BY <1>2, <1>3

LEMMA TaskInvStep ==
    ASSUME TaskInv, [TaskNext]_taskVars
    PROVE  TaskInv'
<1>1. CASE UNCHANGED taskVars
  BY <1>1 DEF taskVars, TaskInv, TaskTypeOK, ChainKept, ChainLives, Past, Queued
<1>2. CASE TaskNext
  BY <1>2, StartKeeps, RestingSteps, RunningSteps, TickKeeps DEF TaskNext, Poll
<1>3. QED
  BY <1>1, <1>2

\* A task that was started has its message in the queue, whichever poller dies
\* where, unless one took it before Task.start had saved its id
\* (task.py:126-141, 143-150, 163-167).
THEOREM TaskChainLives == Spec => []ChainLives
<1>1. Init => TaskInv
  BY TaskInvInit DEF Init
<1>2. TaskInv /\ [Next]_vars => TaskInv'
  BY StepsOfParts, TaskInvStep
<1>3. TaskInv => ChainLives
  BY DEF TaskInv
<1>4. QED
  BY <1>1, <1>2, <1>3, PTL DEF Spec

\* Without a crash or a lapse a poller holds its message from the read on; one
\* that runs the command has the message of the task, which is why it is the
\* only one; and the command was executed in this hour only if the item says
\* so, or its poller has yet to save that.
Busy(p) == pollers[p].pc \in {"load", "run", "write", "put", "delete", "defer"}

Running(p) == pollers[p].pc \in {"run", "write", "put"}

OneAtATime ==
    /\ \A p \in Poller : Busy(p) => pollers[p].m \in Message /\ queue[pollers[p].m] = p
    /\ \A p \in Poller : Running(p) => pollers[p].m = stored.message_id
    /\ starter.pc # "done" => executed = 0
    /\ \A p \in Poller : pollers[p].pc = "run" => executed = 0
    /\ executed \in 0..1
    /\ executed = 1 => \/ stored.last_executed = 0
                       \/ \E p \in Poller : pollers[p].pc \in {"write", "put"}

OnceInv == mishaps = 0 /\ ~early => OneAtATime

LEMMA OnceInit == TaskInit => OnceInv
BY DEF TaskInit, AtPoll, OnceInv, OneAtATime, Busy, Running

LEMMA AloneRunning ==
    ASSUME OneAtATime, NEW p \in Poller, NEW q \in Poller, Running(p), Busy(q),
           pollers[q].m = stored.message_id
    PROVE  p = q
BY DEF OneAtATime, Busy, Running

\* What poller p does with its own message, or one that nobody holds, leaves
\* the others theirs.
LEMMA OthersKeep ==
    ASSUME OneAtATime, NEW p \in Poller, NEW state, PollerBecame(p, state),
           NEW m \in Message, queue[m] \notin Poller \ {p},
           \A x \in Message \ {m} : queue'[x] = queue[x]
    PROVE  \A q \in Poller \ {p} :
              /\ pollers'[q] = pollers[q] /\ (Busy(q)' <=> Busy(q)) /\ (Running(q)' <=> Running(q))
              /\ Busy(q) => pollers[q].m \in Message /\ queue'[pollers[q].m] = q
<1> SUFFICES ASSUME NEW q \in Poller \ {p}
             PROVE  /\ pollers'[q] = pollers[q] /\ (Busy(q)' <=> Busy(q))
                    /\ Running(q)' <=> Running(q)
                    /\ Busy(q) => pollers[q].m \in Message /\ queue'[pollers[q].m] = q
  OBVIOUS
<1>1. pollers'[q] = pollers[q]
  BY DEF PollerBecame
<1>2. ASSUME Busy(q)
      PROVE  pollers[q].m \in Message /\ queue'[pollers[q].m] = q
  <2>1. pollers[q].m \in Message /\ queue[pollers[q].m] = q
    BY <1>2 DEF OneAtATime
  <2> QED
    BY <2>1
<1> QED
  BY <1>1, <1>2 DEF Busy, Running

\* A step after which poller p does not run the command, nor before.
LEMMA OnceRests ==
    ASSUME OneAtATime, NEW p \in Poller, NEW state, PollerBecame(p, state), ~Running(p),
           state.pc \notin {"run", "write", "put", "delete", "defer"},
           NEW m \in Message, queue[m] \notin Poller \ {p},
           \A x \in Message \ {m} : queue'[x] = queue[x],
           state.pc = "load" => state.m \in Message /\ queue'[state.m] = p,
           UNCHANGED <<stored, starter, executed>>
    PROVE  OneAtATime'
<1>1. /\ pollers'[p] = state /\ ~Running(p)' /\ (Busy(p)' <=> state.pc = "load")
      /\ \A q \in Poller \ {p} :
            /\ pollers'[q] = pollers[q] /\ (Busy(q)' <=> Busy(q)) /\ (Running(q)' <=> Running(q))
            /\ Busy(q) => pollers[q].m \in Message /\ queue'[pollers[q].m] = q
  BY OthersKeep DEF PollerBecame, Busy, Running
<1>2. \A q \in Poller : Busy(q)' => pollers'[q].m \in Message /\ queue'[pollers'[q].m] = q
  BY <1>1
<1>3. \A q \in Poller : Running(q)' => pollers'[q].m = stored'.message_id
  BY <1>1 DEF OneAtATime
<1>4. \A q \in Poller : pollers'[q].pc = "run" => executed' = 0
  BY <1>1 DEF OneAtATime, Running
<1>5. executed' = 1 => \/ stored'.last_executed = 0
                       \/ \E q \in Poller : pollers'[q].pc \in {"write", "put"}
  BY <1>1 DEF OneAtATime, Running
<1> QED
  BY <1>2, <1>3, <1>4, <1>5 DEF OneAtATime

LEMMA OnceRestingSteps ==
    ASSUME TaskInv, OneAtATime, NEW p \in Poller,
           Read(p) \/ Ignore(p) \/ Defer(p) \/ DeferRaises(p) \/ DeleteMessage(p)
    PROVE  OneAtATime'
<1>1. CASE Read(p)
  <2>1. PICK m \in Message :
           /\ queue[m] = 0
           /\ queue' = [queue EXCEPT ![m] = p]
           /\ pollers' = [pollers EXCEPT ![p] = [AtPoll EXCEPT !.pc = "load", !.m = m]]
    BY <1>1 DEF Read
  <2>2. PICK state : state = [AtPoll EXCEPT !.pc = "load", !.m = m]
    OBVIOUS
  <2>3. state.pc = "load" /\ state.m = m
    BY <2>2 DEF AtPoll
  <2>4. PollerBecame(p, state)
    BY <2>1, <2>2, TaskTypes DEF PollerBecame
  <2>5. ~Running(p) /\ UNCHANGED <<stored, starter, executed>>
    BY <1>1 DEF Read, Running
  <2>6. queue[m] \notin Poller /\ queue'[m] = p /\ \A x \in Message \ {m} : queue'[x] = queue[x]
    BY <2>1, TaskTypes, TaskAssumption
  <2> QED
    BY <2>3, <2>4, <2>5, <2>6, OnceRests
<1>2. CASE Ignore(p) \/ Defer(p) \/ DeferRaises(p) \/ DeleteMessage(p)
  <2>1. /\ ~Running(p) /\ Busy(p) /\ UNCHANGED <<stored, starter, executed>>
        /\ \E state \in {AtPoll, [AtPoll EXCEPT !.pc = "dead"]} : pollers' = [pollers EXCEPT ![p] = state]
        /\ \/ queue' = queue
           \/ \E x : queue' = [queue EXCEPT ![pollers[p].m] = x]
    BY <1>2 DEF Ignore, Defer, DeferRaises, DeleteMessage, Deleted, Running, Busy
  <2>2. PICK state \in {AtPoll, [AtPoll EXCEPT !.pc = "dead"]} : pollers' = [pollers EXCEPT ![p] = state]
    BY <2>1
  <2>3. state.pc \in {"poll", "dead"}
    BY <2>2, AtPollType
  <2>4. PollerBecame(p, state)
    BY <2>2, TaskTypes DEF PollerBecame
  <2>5. pollers[p].m \in Message /\ queue[pollers[p].m] = p
    BY <2>1 DEF OneAtATime
  <2>6. \A x \in Message \ {pollers[p].m} : queue'[x] = queue[x]
    BY <2>1, TaskTypes
  <2> QED
    BY <2>1, <2>3, <2>4, <2>5, <2>6, OnceRests
<1> QED
  BY <1>1, <1>2

\* The item says that the command was executed less than an hour ago.
LEMMA JustExecuted ==
    ASSUME TaskTypeOK, stored.last_executed = 0
    PROVE  Check # 0
<1>1. hour \in 0..23 /\ 0 # Never
  BY TaskAssumption DEF TaskTypeOK
<1>2. CASE Hour = EveryHour
  <2>1. 0 % 24 = 0
    OBVIOUS
  <2> QED
    BY <1>1, <1>2, <2>1 DEF Check
<1>3. CASE Hour # EveryHour
  <2>1. Hour \in 0..23
    BY <1>3, TaskAssumption
  <2>2. Hour # hour => Distance # 0
    BY <1>1, <2>1 DEF Distance
  <2> QED
    BY <1>1, <1>3, <2>2 DEF Check
<1> QED
  BY <1>2, <1>3

LEMMA OnceRunningSteps ==
    ASSUME TaskInv, ChainKept, OneAtATime, ~early', NEW p \in Poller,
           LoadTask(p) \/ Run(p) \/ WriteMessage(p) \/ PutTask(p)
    PROVE  OneAtATime'
<1>1. /\ TaskTypeOK /\ pollers \in [Poller -> PollerState] /\ queue \in [Message -> QueueState]
      /\ pollers[p] \in PollerState
  BY TaskTypes DEF TaskInv
<1>2. Busy(p) /\ UNCHANGED starter
  BY DEF LoadTask, Run, WriteMessage, PutTask, Busy
<1>3. PICK m \in Message : m = pollers[p].m /\ queue[m] = p
  BY <1>2 DEF OneAtATime
<1>4. CASE LoadTask(p)
  <2>1. PICK to : to = IF Check = 0 THEN "run" ELSE "defer"
    OBVIOUS
  <2>2. PICK state : state = [pollers[p] EXCEPT !.pc = to, !.delay = Check]
    OBVIOUS
  <2>3. PollerBecame(p, state)
    <3>1. pollers' = [pollers EXCEPT ![p] = state]
      BY <1>1, <1>4, <2>1, <2>2 DEF LoadTask
    <3> QED
      BY <1>1, <3>1 DEF PollerBecame
  <2>4. pollers'[p].pc = to /\ pollers'[p].m = m /\ to \in {"run", "defer"}
    BY <1>1, <1>3, <2>1, <2>2, <2>3 DEF PollerState, PollerBecame
  <2>5. /\ stored.message_id = m /\ UNCHANGED <<queue, stored, executed>>
        /\ pollers[p].pc = "load"
    BY <1>3, <1>4 DEF LoadTask, Takes
  <2>6. \A q \in Poller \ {p} :
            /\ pollers'[q] = pollers[q] /\ (Busy(q)' <=> Busy(q)) /\ (Running(q)' <=> Running(q))
            /\ Busy(q) => pollers[q].m \in Message /\ queue'[pollers[q].m] = q
    BY <1>3, <2>3, <2>5, OthersKeep
  <2>7. \A q \in Poller : ~Running(q)
    <3>1. \A q \in Poller : Running(q) => q = p
      BY <1>2, <1>3, <2>5, AloneRunning
    <3> QED
      BY <2>5, <3>1 DEF Running
  <2>8. to = "run" => executed = 0
    BY <1>1, <2>1, <2>7, JustExecuted DEF OneAtATime, Running
  <2>9. \A q \in Poller : Busy(q)' => pollers'[q].m \in Message /\ queue'[pollers'[q].m] = q
    BY <1>3, <2>4, <2>5, <2>6
  <2>10. \A q \in Poller : Running(q)' => pollers'[q].m = stored'.message_id
    BY <2>4, <2>5, <2>6, <2>7
  <2>11. \A q \in Poller : pollers'[q].pc = "run" => executed' = 0
    BY <2>4, <2>5, <2>6, <2>7, <2>8 DEF Running
  <2>12. executed' = 1 => stored'.last_executed = 0
    BY <2>5, <2>7 DEF OneAtATime, Running
  <2> QED
    BY <1>2, <2>5, <2>9, <2>10, <2>11, <2>12 DEF OneAtATime
<1>5. CASE Run(p) \/ WriteMessage(p) \/ PutTask(p)
  <2>1. Running(p) /\ m = stored.message_id
    BY <1>3, <1>5 DEF Run, WriteMessage, PutTask, Running, OneAtATime
  <2>2. \A q \in Poller \ {p} : ~Running(q)
    BY <2>1, AloneRunning DEF OneAtATime, Running, Busy
  <2>3. starter'.pc = "done"
    BY <1>2, <2>1 DEF ChainKept, Past, Running
  <2>4. CASE Run(p)
    <3>1. PICK state : state = [pollers[p] EXCEPT !.pc = "write"]
      OBVIOUS
    <3>2. PollerBecame(p, state)
      <4>1. pollers' = [pollers EXCEPT ![p] = state]
        BY <1>1, <2>4, <3>1 DEF Run, PollerAt
      <4> QED
        BY <1>1, <4>1 DEF PollerBecame
    <3>3. pollers'[p].pc = "write" /\ pollers'[p].m = m
      BY <1>1, <1>3, <3>1, <3>2 DEF PollerState, PollerBecame
    <3>4. executed' = 1 /\ UNCHANGED <<queue, stored>>
      BY <2>4 DEF Run, OneAtATime
    <3>5. \A q \in Poller \ {p} :
              /\ pollers'[q] = pollers[q] /\ (Busy(q)' <=> Busy(q)) /\ (Running(q)' <=> Running(q))
              /\ Busy(q) => pollers[q].m \in Message /\ queue'[pollers[q].m] = q
      BY <1>3, <3>2, <3>4, OthersKeep
    <3>6. \A q \in Poller : Busy(q)' => pollers'[q].m \in Message /\ queue'[pollers'[q].m] = q
      BY <1>3, <3>3, <3>4, <3>5
    <3>7. \A q \in Poller : /\ Running(q)' => pollers'[q].m = stored'.message_id
                            /\ pollers'[q].pc # "run"
      BY <2>1, <2>2, <3>3, <3>4, <3>5 DEF Running
    <3> QED
      BY <2>3, <3>3, <3>4, <3>6, <3>7 DEF OneAtATime
  <2>5. CASE WriteMessage(p)
    <3>1. PICK n \in Message :
             /\ queue[n] = NoMessage
             /\ queue' = [queue EXCEPT ![n] = 0]
             /\ pollers' = [pollers EXCEPT ![p].pc = "put", ![p].new_msg = n]
      BY <2>5 DEF WriteMessage, Unused
    <3>2. PICK state : state = [pollers[p] EXCEPT !.pc = "put", !.new_msg = n]
      OBVIOUS
    <3>3. PollerBecame(p, state)
      <4>1. pollers' = [pollers EXCEPT ![p] = state]
        BY <1>1, <3>1, <3>2
      <4> QED
        BY <1>1, <4>1 DEF PollerBecame
    <3>4. pollers'[p].pc = "put" /\ pollers'[p].m = m
      BY <1>1, <1>3, <3>2, <3>3 DEF PollerState, PollerBecame
    <3>5. n # m /\ queue[n] \notin Poller /\ \A x \in Message \ {n} : queue'[x] = queue[x]
      BY <1>1, <1>3, <3>1, TaskAssumption
    <3>6. UNCHANGED <<executed, stored>>
      BY <2>5 DEF WriteMessage
    <3>7. \A q \in Poller \ {p} :
              /\ pollers'[q] = pollers[q] /\ (Busy(q)' <=> Busy(q)) /\ (Running(q)' <=> Running(q))
              /\ Busy(q) => pollers[q].m \in Message /\ queue'[pollers[q].m] = q
      BY <3>3, <3>5, OthersKeep
    <3>8. \A q \in Poller : Busy(q)' => pollers'[q].m \in Message /\ queue'[pollers'[q].m] = q
      BY <1>3, <3>4, <3>5, <3>7
    <3>9. \A q \in Poller : /\ Running(q)' => pollers'[q].m = stored'.message_id
                            /\ pollers'[q].pc # "run"
      BY <2>1, <2>2, <3>4, <3>6, <3>7 DEF Running
    <3>10. executed' \in 0..1
      BY <3>6 DEF OneAtATime
    <3> QED
      BY <2>3, <3>4, <3>8, <3>9, <3>10 DEF OneAtATime
  <2>6. CASE PutTask(p)
    <3>1. PICK state : state = [pollers[p] EXCEPT !.pc = "delete"]
      OBVIOUS
    <3>2. PollerBecame(p, state)
      <4>1. pollers' = [pollers EXCEPT ![p] = state]
        BY <1>1, <2>6, <3>1 DEF PutTask, PollerAt
      <4> QED
        BY <1>1, <4>1 DEF PollerBecame
    <3>3. pollers'[p].pc = "delete" /\ pollers'[p].m = m
      BY <1>1, <1>3, <3>1, <3>2 DEF PollerState, PollerBecame
    <3>4. UNCHANGED <<queue, executed>> /\ stored'.last_executed = 0
      BY <2>6 DEF PutTask, NewItem
    <3>5. \A q \in Poller \ {p} :
              /\ pollers'[q] = pollers[q] /\ (Busy(q)' <=> Busy(q)) /\ (Running(q)' <=> Running(q))
              /\ Busy(q) => pollers[q].m \in Message /\ queue'[pollers[q].m] = q
      BY <1>3, <3>2, <3>4, OthersKeep
    <3>6. \A q \in Poller : Busy(q)' => pollers'[q].m \in Message /\ queue'[pollers'[q].m] = q
      BY <1>3, <3>3, <3>4, <3>5
    <3>7. \A q \in Poller : ~Running(q)' /\ pollers'[q].pc # "run"
      BY <2>2, <3>3, <3>5 DEF Running
    <3>8. executed' \in 0..1
      BY <3>4 DEF OneAtATime
    <3> QED
      BY <2>3, <3>4, <3>6, <3>7, <3>8 DEF OneAtATime
  <2> QED
    BY <1>5, <2>4, <2>5, <2>6
<1> QED
  BY <1>4, <1>5

\* The steps of Task.start, of a timeout nobody minds, and of the clock.
LEMMA OnceOtherSteps ==
    ASSUME TaskInv, ChainKept, OneAtATime, StartWrites \/ StartPuts \/ Timeout \/ Tick
    PROVE  OneAtATime'
<1>1. pollers' = pollers
  BY DEF StartWrites, StartPuts, Timeout, Tick
<1>2. queue \in [Message -> QueueState]
  BY TaskTypes
<1>3. CASE StartWrites \/ Timeout
  <2>1. /\ UNCHANGED <<stored, executed>> /\ (starter'.pc # "done" => starter.pc # "done")
        /\ \E m \in Message : queue[m] \in {NoMessage, Nobody} /\ queue' = [queue EXCEPT ![m] = 0]
    BY <1>3 DEF StartWrites, Timeout, Unused
  <2>2. \A p \in Poller : Busy(p) => queue'[pollers[p].m] = p
    BY <1>2, <2>1, TaskAssumption DEF OneAtATime
  <2> QED
    BY <1>1, <2>1, <2>2 DEF OneAtATime, Busy, Running
<1>4. CASE StartPuts
  <2>1. /\ starter.pc = "put" /\ starter'.pc = "done"
        /\ UNCHANGED <<queue, executed>>
    BY <1>4 DEF StartPuts
  <2>2. executed = 0 /\ \A p \in Poller : ~Running(p)
    BY <2>1 DEF OneAtATime, ChainKept, Past, Running
  <2> QED
    BY <1>1, <2>1, <2>2 DEF OneAtATime, Busy, Running
<1>5. CASE Tick
  <2>1. executed' = 0 /\ \A p \in Poller : ~Busy(p) /\ ~Running(p)
    BY <1>5 DEF Tick, Busy, Running
  <2> QED
    BY <1>1, <2>1 DEF OneAtATime, Busy, Running
<1> QED
  BY <1>3, <1>4, <1>5

LEMMA OnceStep ==
    ASSUME TaskInv, OnceInv, [TaskNext]_taskVars
    PROVE  OnceInv'
<1> SUFFICES ASSUME mishaps' = 0, ~early' PROVE OneAtATime'
  BY DEF OnceInv
<1>1. CASE UNCHANGED taskVars
  BY <1>1 DEF taskVars, OnceInv, OneAtATime, Busy, Running
<1>2. CASE TaskNext
  <2>1. ~Lapse /\ \A p \in Poller : ~PollerDies(p)
    <3>1. mishaps \in 0..MaxMishaps /\ MaxMishaps \in Nat
      BY TaskAssumption DEF TaskInv, TaskTypeOK
    <3>2. mishaps' # mishaps + 1
      BY <3>1
    <3> QED
      BY <3>2 DEF Lapse, PollerDies
  <2>2. StartWrites \/ StartPuts \/ Timeout \/ Tick \/ \E p \in Poller : Poll(p)
    BY <1>2, <2>1 DEF TaskNext
  <2>3. mishaps = 0 /\ ~early
    <3>1. CASE StartWrites \/ StartPuts \/ Timeout \/ Tick
      BY <3>1 DEF StartWrites, StartPuts, Timeout, Tick
    <3>2. ASSUME NEW p \in Poller, Poll(p)
          PROVE  mishaps = 0 /\ ~early
      <4>1. CASE LoadTask(p)
        <5>1. mishaps' = mishaps /\ early' = (early \/ stored.message_id = NoMessage)
          BY <4>1, Zenon DEF LoadTask
        <5> QED
          BY <5>1, Zenon
      <4>2. CASE ~LoadTask(p)
        <5>1. UNCHANGED <<mishaps, early>>
          BY <3>2, <4>2 DEF Poll, Read, Ignore, Run, WriteMessage, PutTask, DeleteMessage,
             Defer, DeferRaises
        <5> QED
          BY <5>1, Zenon
      <4> QED
        BY <4>1, <4>2
    <3> QED
      BY <2>2, <3>1, <3>2
  <2>4. ChainKept /\ OneAtATime
    BY <2>3 DEF TaskInv, OnceInv
  <2>5. ASSUME NEW p \in Poller, Poll(p)
        PROVE  OneAtATime'
    BY <2>4, <2>5, OnceRestingSteps, OnceRunningSteps DEF Poll
  <2> QED
    BY <2>2, <2>4, <2>5, OnceOtherSteps
<1> QED
  BY <1>1, <1>2

\* Without a crash or a lapse the command is executed once in an hour, by one
\* of the pollers, for any number of them (task.py:126-136, 165).
THEOREM TaskOnceAnHour == Spec => []OnceAnHour
<1>1. Init => TaskInv /\ OnceInv
  BY TaskInvInit, OnceInit DEF Init
<1>2. TaskInv /\ OnceInv /\ [Next]_vars => (TaskInv /\ OnceInv)'
  BY StepsOfParts, TaskInvStep, OnceStep
<1>3. OnceInv => OnceAnHour
  BY DEF OnceInv, OneAtATime, OnceAnHour
<1> QED
  BY <1>1, <1>2, <1>3, PTL DEF Spec

-----------------------------------------------------------------------------
\* The variables of the seven parts keep their types, for any instance.
THEOREM ClientsTypeCorrect == Spec => []TypeOK
<1> DEFINE Inv == /\ ServiceInv /\ SequenceInv /\ ItemInv /\ BucketInv
                  /\ ProviderInv /\ TaskInv /\ SenderTypeInv
<1>1. Init => Inv
  BY ServiceInvInit, SequenceInvInit, ItemInvInit, BucketInvInit, ProviderInvInit, TaskInvInit,
     SenderInvInit, SenderTypeInit DEF Init, SenderTypeInv
<1>2. Inv /\ [Next]_vars => Inv'
  BY StepsOfParts, ServiceInvStep, SequenceInvStep, ItemInvStep, BucketInvStep,
     ProviderInvStep, TaskInvStep, SenderInvStep, SenderTypeStep DEF SenderTypeInv
<1>3. Inv => TypeOK
  BY DEF ServiceInv, SequenceInv, ItemInv, BucketInv, ProviderInv, TaskInv, SenderTypeInv, TypeOK
<1>4. QED
  BY <1>1, <1>2, <1>3, PTL DEF Spec
=============================================================================
