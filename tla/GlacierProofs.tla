---------------------------- MODULE GlacierProofs ----------------------------
(***************************************************************************)
(* Proofs about the Glacier writer and its resumption, for files of any    *)
(* length with any characters, any part size and writes of any length; and *)
(* about the part size and the tree hash of the concurrent transfers, for  *)
(* files of any size.                                                      *)
(***************************************************************************)
EXTENDS Glacier, TLAPS, SequenceTheorems, FiniteSetTheorems,
        WellFoundedInduction

-----------------------------------------------------------------------------
(* The invariants.                                                         *)

\* Between two steps there is something to send when the next step sends, and
\* the service has no part that is too long (writer.py:63-79, 171-203).
WriterType ==
    /\ TypeOK
    /\ op = "write" => taken + PartSize < written
    /\ op = "flush" => taken < written
    /\ op = "resume" => part_index * PartSize < NumChars
    /\ \A k \in DOMAIN stored : Size(stored[k]) <= PartSize
    /\ \A k \in DOMAIN part_hash_map : Size(part_hash_map[k]) <= PartSize

InWriter == op \in {"idle", "write", "flush", "complete"}

\* Everything taken from the buffer has been uploaded, part by part.
AllUploaded ==
    /\ Len(tree_hashes) = next_part_index
    /\ \A k \in 0..(next_part_index - 1) : tree_hashes[k + 1] = PartOf(k, taken)
    /\ uploaded_size = taken
    /\ taken <= next_part_index * PartSize
    /\ next_part_index > 0 => (next_part_index - 1) * PartSize < taken

\* The last part was lost in a close() that raised: its hash is there, its
\* size is not, and no completion is accepted any more.
LastLost ==
    /\ op \in {"idle", "complete"}
    /\ trouble = "close"
    /\ Len(tree_hashes) = next_part_index + 1
    /\ uploaded_size = next_part_index * PartSize

\* What the writer knows of the parts it has sent, as long as it is used as it
\* may be.
Accounted ==
    /\ AllUploaded \/ LastLost
    /\ op \in {"write", "flush"} => trouble = "none"
    /\ \/ op \in {"write", "flush"}
       \/ op = "idle" /\ ~closed /\ trouble = "none"
       => taken = next_part_index * PartSize
    /\ \/ op = "flush"
       \/ op = "idle" /\ ~closed /\ trouble = "none"
       => written <= taken + PartSize
    /\ op = "complete" \/ trouble = "close" \/ closed => taken = written
    /\ closed => op = "idle"
    /\ upload = "completed" => (closed \/ trouble = "close") /\ WholeArchive(written)

\* Strengthens ClosedIsWhole: all is accounted for unless a write() had raised,
\* or was called after a close() that had.
WriterInv == InWriter /\ trouble # "write" => Accounted

\* Strengthens ResumedIsWhole and ResumeIsAccepted: the parts that have gone
\* through are those of the file, and none had a character of two bytes but
\* the last.
ResumeInv ==
    /\ op \in {"resume", "resume_close"} =>
        /\ upload = "open"
        /\ Len(tree_hashes) = part_index
        /\ \A k \in 0..(part_index - 1) : tree_hashes[k + 1] = FilePart(k)
        /\ uploaded_size = Offset(Least(part_index * PartSize, NumChars))
        /\ Offset(Least(part_index * PartSize, NumChars)) <= part_index * PartSize
        /\ part_index > 0 =>
             /\ (part_index - 1) * PartSize < NumChars
             /\ Offset((part_index - 1) * PartSize) = (part_index - 1) * PartSize
        /\ op = "resume_close" => NumChars <= part_index * PartSize
        /\ ~late =>
             /\ \A k \in 0..(part_index - 1) : k \in DOMAIN stored /\ stored[k] = FilePart(k)
             /\ \A k \in DOMAIN part_hash_map :
                   k >= part_index => k \in DOMAIN stored /\ stored[k] = part_hash_map[k]
    /\ op = "resumed" => upload = "completed" /\ WholeArchive(FileSize)

-----------------------------------------------------------------------------
(* Numbers.                                                                *)

\* The multiples of the part size, where parts begin and end.
LEMMA Multiples ==
  /\ PartSize \in Nat /\ PartSize > 0
  /\ 0 * PartSize = 0
  /\ \A k \in Nat : k * PartSize \in Nat /\ k <= k * PartSize
  /\ \A k \in Int : /\ k * PartSize \in Int
                    /\ (k + 1) * PartSize = k * PartSize + PartSize
                    /\ (k - 1) * PartSize = k * PartSize - PartSize
  /\ \A j, k \in Int : j < k => j * PartSize + PartSize <= k * PartSize
  /\ \A j, k \in Int : j * PartSize < k * PartSize => j < k
<1>1. PartSize \in Nat /\ PartSize > 0
  BY UploaderAssumption DEF UploaderAssumption
<1>2. ASSUME NEW k \in Int
      PROVE  /\ k * PartSize \in Int
             /\ (k + 1) * PartSize = k * PartSize + PartSize
             /\ (k - 1) * PartSize = k * PartSize - PartSize
  BY <1>1
<1>3. ASSUME NEW k \in Nat
      PROVE  k * PartSize \in Nat /\ k <= k * PartSize
  BY <1>1
<1>4. ASSUME NEW j \in Int, NEW k \in Int, j < k
      PROVE  j * PartSize + PartSize <= k * PartSize
  <2>1. (j + 1) <= k
    BY <1>4
  <2>2. (j + 1) * PartSize <= k * PartSize
    BY <1>1, <2>1
  <2> QED
    BY <1>2, <2>2
<1>5. ASSUME NEW j \in Int, NEW k \in Int, j * PartSize < k * PartSize
      PROVE  j < k
  BY <1>1, <1>5
<1>6. 0 * PartSize = 0
  BY <1>1
<1> QED
  BY <1>1, <1>2, <1>3, <1>4, <1>5, <1>6

\* The smaller of two numbers.
LEMMA LeastIs ==
  ASSUME NEW m \in Int, NEW n \in Int
  PROVE  /\ Least(m, n) \in {m, n}
         /\ m <= n => Least(m, n) = m
         /\ n <= m => Least(m, n) = n
BY DEF Least

\* Characters and bytes: a character takes at least one byte, and the bytes
\* that wide ones add never become fewer.
LEMMA OffsetGrows ==
  /\ \A n \in Nat : Offset(n) \in Nat /\ n <= Offset(n)
  /\ \A m, n \in Nat : m <= n => Offset(m) - m <= Offset(n) - n
  /\ Offset(0) = 0
<1> DEFINE before(n) == {c \in Wide : c <= n}
<1>1. Wide \subseteq 1..NumChars /\ NumChars \in Nat
  BY WriterAssumption DEF WriterAssumption
<1>2. IsFiniteSet(Wide)
  <2>1. IsFiniteSet(1..NumChars)
    BY <1>1, FS_Interval
  <2> QED
    BY <1>1, <2>1, FS_Subset
<1>3. ASSUME NEW n \in Nat
      PROVE  IsFiniteSet(before(n)) /\ Cardinality(before(n)) \in Nat
  <2>1. IsFiniteSet(before(n))
    BY <1>2, FS_Subset
  <2> QED
    BY <2>1, FS_CardinalityType
<1>4. ASSUME NEW m \in Nat, NEW n \in Nat, m <= n
      PROVE  Cardinality(before(m)) <= Cardinality(before(n))
  <2>1. before(m) \subseteq before(n)
    <3> SUFFICES ASSUME NEW c \in Wide, c <= m
                 PROVE  c <= n
      OBVIOUS
    <3>1. c \in Nat
      BY <1>1
    <3> QED
      BY <1>4, <3>1
  <2> QED
    BY <1>3, <2>1, FS_Subset
<1>5. before(0) = {}
  <2>1. ASSUME NEW c \in Wide
        PROVE  ~(c <= 0)
    BY <1>1
  <2> QED
    BY <2>1
<1>6. \A n : Offset(n) = n + Cardinality(before(n))
  BY DEF Offset
<1>7. Cardinality(before(0)) = 0
  BY <1>5, FS_EmptySet
<1> HIDE DEF before
<1>8. \A n \in Nat : Offset(n) \in Nat /\ n <= Offset(n)
  BY <1>3, <1>6
<1>9. \A m, n \in Nat : m <= n => Offset(m) - m <= Offset(n) - n
  BY <1>3, <1>4, <1>6
<1> QED
  BY <1>6, <1>7, <1>8, <1>9

-----------------------------------------------------------------------------
(* The list of hashes.                                                     *)

\* A hash goes to its place: the list of hashes stays a list, and for the
\* index that comes next it is one longer (writer.py:106-112).
LEMMA InsertShape ==
  ASSUME NEW S, None \in S, tree_hashes \in Seq(S),
         NEW index \in Nat, NEW hash \in S, InsertTreeHash(index, hash)
  PROVE  /\ tree_hashes' \in Seq(S)
         /\ index = Len(tree_hashes) =>
              /\ Len(tree_hashes') = index + 1
              /\ tree_hashes'[index + 1] = hash
              /\ \A k \in 1..index : tree_hashes'[k] = tree_hashes[k]
<1> DEFINE gap == [k \in 1..(Len(tree_hashes) - index + 1) |-> None]
           longer == Extended(tree_hashes, index)
<1>1. Len(tree_hashes) \in Nat
  OBVIOUS
<1>2. CASE index >= Len(tree_hashes)
  <2>1. PICK n \in Nat : gap = [k \in 1..n |-> None] /\ (index = Len(tree_hashes) => n = 1)
    <3>1. CASE index <= Len(tree_hashes) + 1
      <4>1. Len(tree_hashes) - index + 1 \in Nat
        BY <1>1, <3>1
      <4>2. index = Len(tree_hashes) => Len(tree_hashes) - index + 1 = 1
        BY <1>1
      <4> QED
        BY <4>1, <4>2
    <3>2. CASE ~(index <= Len(tree_hashes) + 1)
      <4>1. 1..(Len(tree_hashes) - index + 1) = 1..0 /\ index # Len(tree_hashes)
        BY <1>1, <3>2
      <4> QED
        BY <4>1
    <3> QED
      BY <3>1, <3>2
  <2>2. gap \in Seq(S) /\ Len(gap) = n
    <3>1. [k \in 1..n |-> None] \in Seq(S) /\ Len([k \in 1..n |-> None]) = n
      OBVIOUS
    <3> HIDE DEF gap
    <3> QED
      BY <2>1, <3>1
  <2>3. longer = tree_hashes \o gap
    BY <1>2 DEF Extended
  <2> HIDE DEF gap, longer
  <2>4. /\ longer \in Seq(S)
        /\ Len(longer) = Len(tree_hashes) + n
        /\ \A k \in 1..Len(tree_hashes) : longer[k] = tree_hashes[k]
    <3>1. /\ tree_hashes \o gap \in Seq(S)
          /\ Len(tree_hashes \o gap) = Len(tree_hashes) + Len(gap)
          /\ \A k \in 1..(Len(tree_hashes) + Len(gap)) :
               (tree_hashes \o gap)[k] = IF k <= Len(tree_hashes) THEN tree_hashes[k]
                                         ELSE gap[k - Len(tree_hashes)]
      BY <2>2, ConcatProperties, Zenon
    <3>2. \A k \in 1..Len(tree_hashes) :
             k \in 1..(Len(tree_hashes) + Len(gap)) /\ k <= Len(tree_hashes)
      BY <1>1, <2>2
    <3> QED
      BY <2>2, <2>3, <3>1, <3>2
  <2>5. index < Len(longer) /\ tree_hashes' = [longer EXCEPT ![index + 1] = hash]
    BY DEF InsertTreeHash, HasSlot, longer
  <2>6. index + 1 \in 1..Len(longer)
    BY <2>4, <2>5
  <2>7. /\ tree_hashes' \in Seq(S) /\ Len(tree_hashes') = Len(longer)
        /\ \A k \in 1..Len(longer) : tree_hashes'[k] = IF k = index + 1 THEN hash ELSE longer[k]
    BY <2>4, <2>5, <2>6, ExceptSeq
  <2>8. ASSUME index = Len(tree_hashes)
        PROVE  /\ Len(tree_hashes') = index + 1
               /\ tree_hashes'[index + 1] = hash
               /\ \A k \in 1..index : tree_hashes'[k] = tree_hashes[k]
    <3>1. Len(longer) = index + 1
      BY <1>1, <2>1, <2>4, <2>8
    <3>2. \A k \in 1..index : k \in 1..Len(longer) /\ k # index + 1
      BY <3>1
    <3> QED
      BY <2>4, <2>6, <2>7, <2>8, <3>1, <3>2
  <2> QED
    BY <2>7, <2>8
<1>3. CASE ~(index >= Len(tree_hashes))
  <2>1. tree_hashes' = [tree_hashes EXCEPT ![index + 1] = hash]
    BY <1>3 DEF InsertTreeHash, Extended
  <2>2. index + 1 \in 1..Len(tree_hashes)
    BY <1>1, <1>3
  <2> QED
    BY <1>1, <1>3, <2>1, <2>2, ExceptSeq
<1> QED
  BY <1>2, <1>3

-----------------------------------------------------------------------------
(* Types.                                                                  *)

\* Spans of at least one byte are data.
LEMMA SpanIs ==
  ASSUME NEW m \in Nat, NEW n \in Nat, m < n
  PROVE  /\ Span(m, n) \in Data
         /\ Span(m, n).from = m /\ Span(m, n).to = n
         /\ Size(Span(m, n)) = n - m
<1> DEFINE d == [from |-> m, to |-> n]
<1>1. d \in [from : Nat, to : Nat] /\ d.from = m /\ d.to = n
  OBVIOUS
<1> HIDE DEF d
<1>2. d \in Data
  BY <1>1 DEF Data
<1> QED
  BY <1>1, <1>2 DEF Span, Size, d

\* The part the writer sends next (writer.py:63-74).
LEMMA NextPartIs ==
  ASSUME WriterType, op \in {"write", "flush"}
  PROVE  /\ NextPart = Span(taken, Least(taken + PartSize, written))
         /\ NextPart \in Data
         /\ NextPart.to = Least(taken + PartSize, written)
         /\ taken < NextPart.to /\ NextPart.to <= written
         /\ Size(NextPart) = NextPart.to - taken
<1>1. taken \in Nat /\ written \in Nat /\ taken < written
  BY Multiples DEF WriterType, TypeOK
<1>2. PICK n \in Nat : n = Least(taken + PartSize, written)
  BY <1>1, Multiples DEF Least
<1>3. taken < n /\ n <= written
  BY <1>1, <1>2, Multiples, LeastIs DEF Least
<1>4. NextPart = Span(taken, n)
  BY <1>2 DEF NextPart
<1> QED
  BY <1>1, <1>2, <1>3, <1>4, SpanIs

\* A part of the file that is resumed (writer.py:161-168).
LEMMA FilePartIs ==
  ASSUME NEW k \in Nat, k * PartSize < NumChars
  PROVE  /\ FilePart(k) = Span(Offset(k * PartSize), Offset(Least((k + 1) * PartSize, NumChars)))
         /\ FilePart(k) \in Data
         /\ Size(FilePart(k)) =
              Offset(Least((k + 1) * PartSize, NumChars)) - Offset(k * PartSize)
<1>1. NumChars \in Nat /\ k * PartSize \in Nat /\ (k + 1) * PartSize = k * PartSize + PartSize
  BY Multiples, WriterAssumption DEF WriterAssumption
<1>2. PICK m, n : m = k * PartSize /\ n = Least((k + 1) * PartSize, NumChars)
  OBVIOUS
<1>3. m \in Nat /\ n \in Nat /\ m < n
  BY <1>1, <1>2, Multiples DEF Least
<1>4. Offset(m) \in Nat /\ Offset(n) \in Nat /\ Offset(m) - m <= Offset(n) - n
  BY <1>3, OffsetGrows
<1>5. Offset(m) < Offset(n)
  BY <1>3, <1>4
<1>6. FilePart(k) = Span(Offset(m), Offset(n))
  BY <1>2 DEF FilePart
<1> QED
  BY <1>2, <1>4, <1>5, <1>6, SpanIs

\* What the service holds after it has taken a part.
LEMMA StoreIs ==
  ASSUME UploaderTypeOK, NEW index \in Nat, NEW data \in Data, Store(index, data)
  PROVE  /\ upload = "open" /\ upload' = "open" /\ Size(data) <= PartSize
         /\ DOMAIN stored' = DOMAIN stored \cup {index}
         /\ stored'[index] = data
         /\ \A k \in DOMAIN stored : k # index => stored'[k] = stored[k]
         /\ DOMAIN stored' \subseteq Nat
         /\ \A k \in DOMAIN stored' : stored'[k] \in Data
BY DEF Store, UploaderTypeOK

\* The uploader's methods keep its types, and the service's parts short
\* enough (writer.py:106-158).
LEMMA UploadType ==
  ASSUME UploaderTypeOK, \A k \in DOMAIN stored : Size(stored[k]) <= PartSize,
         NEW index \in Nat, NEW data \in Data,
         \/ UploadPart(index, data)
         \/ UploadPartRaises(index, data)
         \/ SkipPart(index, data)
  PROVE  UploaderTypeOK' /\ \A k \in DOMAIN stored' : Size(stored'[k]) <= PartSize
<1>1. tree_hashes' \in Seq(Data \cup {None})
  BY InsertShape DEF UploaderTypeOK, UploadPart, UploadPartRaises, SkipPart
<1>2. Size(data) \in Nat
  BY DEF Data, Size
<1>3. CASE UploadPart(index, data)
  <2>1. /\ DOMAIN stored' \subseteq Nat /\ \A k \in DOMAIN stored' : stored'[k] \in Data
        /\ upload' = "open"
        /\ \A k \in DOMAIN stored' : Size(stored'[k]) <= PartSize
    BY <1>3, StoreIs DEF UploadPart
  <2> QED
    BY <1>1, <1>2, <1>3, <2>1 DEF UploadPart, UploaderTypeOK
<1>4. CASE UploadPartRaises(index, data)
  <2>1. [index |-> index, data |-> data] \in [index : Nat, data : Data]
    OBVIOUS
  <2>2. delayed' \subseteq [index : Nat, data : Data]
    BY <1>4, <2>1 DEF UploadPartRaises, UploaderTypeOK
  <2> QED
    BY <1>1, <1>4, <2>2 DEF UploadPartRaises, UploaderTypeOK
<1>5. CASE SkipPart(index, data)
  BY <1>1, <1>2, <1>5 DEF SkipPart, UploaderTypeOK, serviceVars
<1> QED
  BY <1>3, <1>4, <1>5

\* A part that arrives late is stored as it was sent, or refused; once the
\* upload is completed nothing changes any more.
LEMMA ArriveIs ==
  ASSUME UploaderTypeOK, \A k \in DOMAIN stored : Size(stored[k]) <= PartSize, Arrive
  PROVE  /\ UploaderTypeOK' /\ \A k \in DOMAIN stored' : Size(stored'[k]) <= PartSize
         /\ upload' = upload /\ UNCHANGED clientVars
         /\ upload = "completed" => stored' = stored
         /\ late' = TRUE
         /\ UNCHANGED <<op, writerVars, part_hash_map, part_index>>
<1>1. PICK request \in delayed : DelayedPart(request)
  BY DEF Arrive
<1>2. request.index \in Nat /\ request.data \in Data
  BY DEF UploaderTypeOK
<1>3. delayed' \subseteq [index : Nat, data : Data]
  BY <1>1 DEF DelayedPart, UploaderTypeOK
<1>4. UNCHANGED <<tree_hashes, uploaded_size>>
  BY <1>1 DEF DelayedPart, clientVars
<1>5. CASE upload = "open" /\ Size(request.data) <= PartSize
  <2>1. Store(request.index, request.data)
    BY <1>1, <1>5 DEF DelayedPart
  <2>2. /\ DOMAIN stored' \subseteq Nat /\ \A k \in DOMAIN stored' : stored'[k] \in Data
        /\ upload' = "open"
        /\ \A k \in DOMAIN stored' : Size(stored'[k]) <= PartSize
    BY <1>2, <2>1, StoreIs
  <2> QED
    BY <1>3, <1>4, <1>5, <2>2 DEF Arrive, UploaderTypeOK, clientVars
<1>6. CASE ~(upload = "open" /\ Size(request.data) <= PartSize)
  <2>1. UNCHANGED <<upload, stored>>
    BY <1>1, <1>6 DEF DelayedPart
  <2> QED
    BY <1>3, <1>4, <2>1 DEF Arrive, UploaderTypeOK, clientVars
<1> QED
  BY <1>5, <1>6

\* A completion changes the state of the upload and nothing else.
LEMMA CompletionIs ==
  ASSUME UploaderTypeOK, CloseCompletes \/ CloseRaises
  PROVE  /\ UploaderTypeOK'
         /\ UNCHANGED <<tree_hashes, uploaded_size, stored, delayed>>
BY DEF CloseCompletes, CloseRaises, uploaderVars, clientVars, serviceVars, UploaderTypeOK

\* Every step keeps the types, and what is there to send.
LEMMA NextWriterType == WriterType /\ [WriterNext]_archiveVars => WriterType'
<1> SUFFICES ASSUME WriterType, [WriterNext]_archiveVars
             PROVE  WriterType'
  OBVIOUS
<1> DEFINE Fits == \A k \in DOMAIN stored : Size(stored[k]) <= PartSize
           Listed == /\ DOMAIN part_hash_map \subseteq Nat
                     /\ \A k \in DOMAIN part_hash_map : part_hash_map[k] \in Data
                     /\ \A k \in DOMAIN part_hash_map : Size(part_hash_map[k]) <= PartSize
<1>1. TypeOK /\ UploaderTypeOK /\ Fits /\ Listed
  BY DEF WriterType, TypeOK
<1>2. PartSize \in Nat /\ PartSize > 0 /\ MaxWrite \in Nat /\ NumChars \in Nat
  BY Multiples, WriterAssumption DEF WriterAssumption
<1>3. taken \in Nat /\ written \in Nat /\ taken <= written
  BY <1>1 DEF TypeOK
<1>4. ASSUME NEW n \in 1..MaxWrite, Write(n)
      PROVE  WriterType'
  BY <1>1, <1>2, <1>3, <1>4 DEF Write, WriterType, TypeOK, UploaderTypeOK, Op, Trouble,
       resumeVars, uploaderVars, clientVars, serviceVars
<1>5. ASSUME Close \/ Crash
      PROVE  WriterType'
  BY <1>1, <1>5 DEF Close, Crash, WriterType, TypeOK, UploaderTypeOK, Op,
       writerVars, resumeVars, uploaderVars, clientVars, serviceVars
<1>6. ASSUME SendPart \/ SendPartRaises
      PROVE  WriterType'
  <2>1. op \in {"write", "flush"} /\ next_part_index \in Nat
    BY <1>1, <1>6 DEF SendPart, SendPartRaises, TypeOK
  <2>2. /\ NextPart \in Data
        /\ taken < NextPart.to /\ NextPart.to <= written /\ NextPart.to \in Nat
    BY <2>1, NextPartIs DEF Data
  <2>3. UploaderTypeOK' /\ Fits'
    BY <1>1, <1>6, <2>1, <2>2, UploadType DEF SendPart, SendPartRaises
  <2>4. /\ taken' = NextPart.to /\ written' = written
        /\ next_part_index' \in Nat /\ closed' = closed /\ trouble' \in Trouble
        /\ UNCHANGED <<part_hash_map, part_index, late>>
    BY <1>1, <1>6 DEF SendPart, SendPartRaises, resumeVars, TypeOK, Trouble
  <2>5. /\ op' \in {"write", "idle", "complete"}
        /\ op' = "write" => written - taken' > PartSize
    BY <1>6 DEF SendPart, SendPartRaises
  <2>6. taken' \in 0..written' /\ (op' = "write" => taken' + PartSize < written')
    BY <1>2, <1>3, <2>2, <2>4, <2>5
  <2> QED
    BY <1>1, <2>3, <2>4, <2>5, <2>6 DEF WriterType, TypeOK, Op
<1>7. ASSUME Complete \/ CompleteRaises
      PROVE  WriterType'
  <2>1. UploaderTypeOK' /\ stored' = stored
    BY <1>1, <1>7, CompletionIs DEF Complete, CompleteRaises
  <2> QED
    BY <1>1, <1>7, <2>1 DEF Complete, CompleteRaises, WriterType, TypeOK, Op, Trouble, resumeVars
<1>8. ASSUME Resume
      PROVE  WriterType'
  <2>1. UploaderTypeOK'
    BY <1>1, <1>8 DEF Resume, UploaderTypeOK, serviceVars
  <2>2. op' \in Op /\ (op' = "resume" => part_index' * PartSize < NumChars) /\ op' \notin {"write", "flush"}
    BY <1>2, <1>8, Multiples DEF Resume, Op
  <2>3. stored' = stored /\ part_hash_map' = stored
    BY <1>8 DEF Resume, serviceVars
  <2> QED
    BY <1>1, <1>8, <2>1, <2>2, <2>3 DEF Resume, WriterType, TypeOK, UploaderTypeOK, writerVars
<1>9. ASSUME ResumeUploads \/ ResumeSkips \/ ResumeRaises
      PROVE  WriterType'
  <2>1. op = "resume" /\ part_index \in Nat /\ part_index * PartSize < NumChars
    BY <1>1, <1>9 DEF ResumeUploads, ResumeSkips, ResumeRaises, WriterType, TypeOK
  <2>2. FilePart(part_index) \in Data
    BY <2>1, FilePartIs
  <2>3. UploaderTypeOK' /\ Fits'
    <3>1. CASE UNCHANGED uploaderVars
      BY <1>1, <3>1 DEF uploaderVars, clientVars, serviceVars, UploaderTypeOK
    <3>2. CASE ~UNCHANGED uploaderVars
      <4>1. \/ UploadPart(part_index, FilePart(part_index))
            \/ UploadPartRaises(part_index, FilePart(part_index))
            \/ SkipPart(part_index, FilePart(part_index))
        BY <1>9, <3>2 DEF ResumeUploads, ResumeSkips, ResumeRaises
      <4> QED
        BY <1>1, <2>1, <2>2, <4>1, UploadType
    <3> QED
      BY <3>1, <3>2
  <2>4. /\ UNCHANGED <<writerVars, part_hash_map, late>>
        /\ part_index' \in Nat
        /\ op' \in {"resume", "resume_close", "down"}
        /\ op' = "resume" => part_index' * PartSize < NumChars
    BY <1>9, <2>1 DEF ResumeUploads, ResumeSkips, ResumeRaises, ResumeContinues, resumeVars
  <2> QED
    BY <1>1, <2>3, <2>4 DEF WriterType, TypeOK, Op, writerVars
<1>10. ASSUME ResumeCompletes
       PROVE  WriterType'
  <2>1. UploaderTypeOK' /\ stored' = stored
    BY <1>1, <1>10, CompletionIs DEF ResumeCompletes
  <2> QED
    BY <1>1, <1>10, <2>1 DEF ResumeCompletes, WriterType, TypeOK, Op, writerVars, resumeVars
<1>11. ASSUME Arrive
       PROVE  WriterType'
  <2>1. UploaderTypeOK' /\ Fits' /\ late' = TRUE
        /\ UNCHANGED <<op, writerVars, part_hash_map, part_index>>
    BY <1>1, <1>11, ArriveIs
  <2> QED
    BY <1>1, <2>1 DEF WriterType, TypeOK, writerVars
<1>12. CASE UNCHANGED archiveVars
  BY <1>1, <1>12 DEF archiveVars, WriterType, TypeOK, UploaderTypeOK,
       writerVars, resumeVars, uploaderVars, clientVars, serviceVars
<1> QED
  BY <1>4, <1>5, <1>6, <1>7, <1>8, <1>9, <1>10, <1>11, <1>12 DEF WriterNext

-----------------------------------------------------------------------------
(* The writer.                                                             *)

\* The parts of an archive of `length' bytes that ends in part n - 1.
LEMMA PartsAre ==
  ASSUME NEW n \in Nat, n > 0, NEW length \in Nat,
         (n - 1) * PartSize < length, length <= n * PartSize
  PROVE  Parts(length) = 0..(n - 1)
<1>1. ASSUME NEW k \in Parts(length)
      PROVE  k \in 0..(n - 1)
  <2>1. k \in Nat /\ k * PartSize < length
    BY <1>1 DEF Parts
  <2>2. k * PartSize < n * PartSize
    BY <2>1, Multiples
  <2>3. k < n
    BY <2>1, <2>2, Multiples
  <2> QED
    BY <2>1, <2>3
<1>2. ASSUME NEW k \in 0..(n - 1)
      PROVE  k \in Parts(length)
  <2>1. k \in Nat /\ k * PartSize \in Nat /\ k <= k * PartSize
    BY Multiples
  <2>2. k * PartSize <= (n - 1) * PartSize
    <3>1. CASE k = n - 1
      BY <2>1, <3>1
    <3>2. CASE k # n - 1
      <4>1. k < n - 1 /\ n - 1 \in Int
        BY <3>2
      <4>2. k * PartSize + PartSize <= (n - 1) * PartSize /\ (n - 1) * PartSize \in Int
        BY <2>1, <4>1, Multiples
      <4> QED
        BY <2>1, <4>2, Multiples
    <3> QED
      BY <3>1, <3>2
  <2>3. k * PartSize < length /\ k \in 0..length
    BY <2>1, <2>2, Multiples
  <2> QED
    BY <2>3 DEF Parts
<1> QED
  BY <1>1, <1>2

\* A part that is full stays what it is when more is taken.
LEMMA PartStays ==
  ASSUME NEW k \in Nat, NEW m \in Nat, NEW n \in Nat, (k + 1) * PartSize <= m, m <= n
  PROVE  PartOf(k, n) = PartOf(k, m) /\ PartOf(k, m) = Span(k * PartSize, (k + 1) * PartSize)
<1>1. (k + 1) * PartSize \in Int
  BY Multiples
<1>2. Least((k + 1) * PartSize, m) = (k + 1) * PartSize /\ Least((k + 1) * PartSize, n) = (k + 1) * PartSize
  BY <1>1, LeastIs
<1> QED
  BY <1>2 DEF PartOf

\* A completion is accepted only when the service holds what was written: with
\* a part lost, the size of the request is too small (writer.py:134-158).
LEMMA AcceptedIsWhole ==
  ASSUME WriterType, WriterInv, op = "complete", trouble # "write", CloseCompletes
  PROVE  WholeArchive(written)
<1>1. UploaderTypeOK /\ next_part_index \in Nat /\ written \in Nat /\ taken \in Nat
  BY DEF WriterType, TypeOK
<1>2. Len(tree_hashes) \in Nat /\ Len(tree_hashes) # 0
  BY <1>1 DEF CloseCompletes, UploaderTypeOK
<1>3. taken = written /\ (AllUploaded \/ LastLost)
  BY DEF WriterInv, InWriter, Accounted
<1>4. PICK last \in Nat :
        /\ last = Len(tree_hashes) - 1
        /\ DOMAIN stored = 0..last
        /\ \A k \in 0..last : tree_hashes[k + 1] = stored[k]
        /\ uploaded_size = last * PartSize + Size(stored[last])
  BY <1>2 DEF CloseCompletes, Acceptable
<1>5. stored[last] \in Data /\ Size(stored[last]) \in Nat /\ Size(stored[last]) > 0
  <2>1. stored[last] \in Data
    BY <1>1, <1>4 DEF UploaderTypeOK
  <2> QED
    BY <2>1 DEF Data, Size
<1>6. ~LastLost
  <2> SUFFICES ASSUME LastLost
               PROVE  FALSE
    OBVIOUS
  <2>1. last = next_part_index /\ uploaded_size = next_part_index * PartSize
    BY <1>1, <1>4 DEF LastLost
  <2>2. last * PartSize \in Nat /\ uploaded_size = last * PartSize
    BY <2>1, Multiples
  <2> QED
    BY <1>4, <1>5, <2>2
<1>7. /\ last = next_part_index - 1 /\ next_part_index > 0
      /\ \A k \in 0..last : stored[k] = PartOf(k, written)
      /\ (next_part_index - 1) * PartSize < written
      /\ written <= next_part_index * PartSize
  BY <1>1, <1>2, <1>3, <1>4, <1>6 DEF AllUploaded
<1>8. Parts(written) = 0..last
  BY <1>1, <1>7, PartsAre
<1> QED
  BY <1>4, <1>7, <1>8 DEF WholeArchive

\* What the parts uploaded so far are, after one more (writer.py:63-74).
LEMMA SendKeepsAll ==
  ASSUME WriterType, WriterInv, op \in {"write", "flush"}, trouble = "none", SendPart
  PROVE  /\ AllUploaded'
         /\ op = "write" => taken' = next_part_index' * PartSize
         /\ op = "flush" => taken' = written
<1>1. /\ UploaderTypeOK /\ next_part_index \in Nat /\ written \in Nat /\ taken \in Nat
      /\ PartSize \in Nat /\ PartSize > 0
  BY Multiples DEF WriterType, TypeOK
<1>2. AllUploaded /\ taken = next_part_index * PartSize
  BY DEF WriterInv, InWriter, Accounted, LastLost
<1>3. PICK n, next : n = next_part_index /\ next = NextPart.to
  OBVIOUS
<1>4. /\ NextPart \in Data /\ NextPart = Span(taken, next)
      /\ next = Least(taken + PartSize, written)
      /\ taken < next /\ next <= written /\ Size(NextPart) = next - taken
  BY <1>3, NextPartIs
<1>5. next \in Nat
  BY <1>3, <1>4 DEF Data
<1>6. /\ InsertTreeHash(n, NextPart) /\ uploaded_size' = uploaded_size + Size(NextPart)
      /\ taken' = next /\ next_part_index' = n + 1
  BY <1>3 DEF SendPart, UploadPart
<1>7. /\ Len(tree_hashes') = n + 1
      /\ tree_hashes'[n + 1] = NextPart
      /\ \A k \in 1..n : tree_hashes'[k] = tree_hashes[k]
  <2>1. n = Len(tree_hashes) /\ n \in Nat
    BY <1>1, <1>2, <1>3 DEF AllUploaded
  <2> QED
    BY <1>1, <1>4, <1>6, <2>1, InsertShape DEF UploaderTypeOK
<1>8. /\ n \in Nat /\ n * PartSize = taken
      /\ (n + 1) * PartSize = taken + PartSize
  BY <1>1, <1>2, <1>3, Multiples
<1>9. next = Least((n + 1) * PartSize, written) /\ next <= (n + 1) * PartSize
  BY <1>1, <1>4, <1>8, LeastIs
<1>10. PartOf(n, next) = NextPart
  <2>1. Least((n + 1) * PartSize, next) = next
    BY <1>1, <1>5, <1>8, <1>9, LeastIs
  <2> QED
    BY <1>4, <1>8, <2>1 DEF PartOf
<1>11. ASSUME NEW k \in 0..n
       PROVE  tree_hashes'[k + 1] = PartOf(k, next)
  <2>1. CASE k = n
    BY <1>7, <1>10, <2>1
  <2>2. CASE k # n
    <3>1. k \in 0..(n - 1) /\ k + 1 \in 1..n /\ k \in Nat /\ k < n
      BY <1>8, <2>2
    <3>2. (k + 1) * PartSize <= taken
      BY <1>8, <3>1, Multiples
    <3>3. PartOf(k, next) = PartOf(k, taken)
      BY <1>1, <1>4, <1>5, <3>1, <3>2, PartStays
    <3>4. tree_hashes[k + 1] = PartOf(k, taken)
      BY <1>2, <1>3, <3>1 DEF AllUploaded
    <3> QED
      BY <1>7, <3>1, <3>3, <3>4
  <2> QED
    BY <2>1, <2>2
<1>12. uploaded_size' = next
  BY <1>1, <1>2, <1>4, <1>5, <1>6 DEF AllUploaded
<1>13. ((n + 1) - 1) * PartSize < next /\ (n + 1) - 1 = n
  <2>1. (n + 1) - 1 = n
    BY <1>8
  <2> QED
    BY <1>4, <1>8, <2>1
<1>14. AllUploaded'
  BY <1>6, <1>7, <1>9, <1>11, <1>12, <1>13 DEF AllUploaded, PartOf
<1>15. op = "write" => taken' = next_part_index' * PartSize
  <2>1. op = "write" => taken + PartSize < written
    BY DEF WriterType
  <2>2. op = "write" => next = taken + PartSize
    BY <1>1, <1>4, <2>1, LeastIs
  <2> QED
    BY <1>6, <1>8, <2>2
<1>16. op = "flush" => taken' = written
  <2>1. op = "flush" => written <= taken + PartSize
    BY DEF WriterInv, InWriter, Accounted
  <2>2. op = "flush" => next = written
    BY <1>1, <1>4, <2>1, LeastIs
  <2> QED
    BY <1>6, <2>2
<1> QED
  BY <1>14, <1>15, <1>16

\* Every step keeps the account.
LEMMA NextWriterInv == WriterType /\ WriterInv /\ [WriterNext]_archiveVars => WriterInv'
<1> SUFFICES ASSUME WriterType, WriterInv, [WriterNext]_archiveVars,
                    InWriter', trouble' # "write"
             PROVE  Accounted'
  BY DEF WriterInv
<1>1. /\ UploaderTypeOK /\ next_part_index \in Nat /\ written \in Nat /\ taken \in Nat
      /\ taken <= written
      /\ PartSize \in Nat /\ PartSize > 0 /\ MaxWrite \in Nat
      /\ trouble \in Trouble /\ closed \in BOOLEAN
  BY Multiples, WriterAssumption DEF WriterType, TypeOK, WriterAssumption
<1>2. next_part_index * PartSize \in Nat
  BY <1>1, Multiples
<1>3. ASSUME NEW n \in 1..MaxWrite, Write(n)
      PROVE  Accounted'
  <2>1. op = "idle" /\ ~closed /\ trouble = "none" /\ trouble' = "none"
    BY <1>1, <1>3 DEF Write, Trouble
  <2>2. /\ AllUploaded /\ taken = next_part_index * PartSize
        /\ upload # "completed"
    BY <2>1 DEF WriterInv, InWriter, Accounted, LastLost
  <2>3. /\ written' = written + n /\ closed' = closed
        /\ op' = IF written' - taken > PartSize THEN "write" ELSE "idle"
        /\ UNCHANGED <<taken, next_part_index, tree_hashes, uploaded_size, upload>>
    BY <1>3 DEF Write, uploaderVars, clientVars, serviceVars
  <2>4. AllUploaded'
    BY <2>2, <2>3 DEF AllUploaded, PartOf
  <2>5. op' \in {"idle", "write"} /\ (op' = "idle" => written' <= taken' + PartSize)
    BY <1>1, <2>3
  <2> QED
    BY <2>1, <2>2, <2>3, <2>4, <2>5 DEF Accounted
<1>4. ASSUME Close
      PROVE  Accounted'
  <2>1. /\ op = "idle" /\ ~closed
        /\ op' = IF taken < written THEN "flush" ELSE "complete"
        /\ UNCHANGED <<written, taken, next_part_index, closed, trouble,
                       tree_hashes, uploaded_size, upload, stored>>
    BY <1>4 DEF Close, writerVars, uploaderVars, clientVars, serviceVars
  <2>2. trouble # "write" /\ Accounted
    BY <2>1 DEF WriterInv, InWriter
  <2>3. trouble \in {"none", "close"}
    BY <1>1, <2>2 DEF Trouble
  <2>4. AllUploaded => AllUploaded'
    BY <2>1 DEF AllUploaded, PartOf
  <2>5. LastLost => LastLost' /\ op' = "complete"
    BY <1>1, <2>1, <2>2 DEF LastLost, Accounted
  <2>6. op' = "flush" => trouble = "none"
    BY <1>1, <2>1, <2>2, <2>3 DEF Accounted
  <2>7. op' \in {"flush", "complete"} /\ (op' = "complete" => taken = written)
    BY <1>1, <2>1
  <2>8. WholeArchive(written) => WholeArchive(written)'
    BY <2>1 DEF WholeArchive, PartOf, Parts
  <2> QED
    BY <2>1, <2>2, <2>3, <2>4, <2>5, <2>6, <2>7, <2>8 DEF Accounted
<1>5. ASSUME SendPart
      PROVE  Accounted'
  <2>1. /\ op \in {"write", "flush"}
        /\ op' = IF op = "flush" THEN "complete"
                 ELSE IF written - taken' > PartSize THEN "write" ELSE "idle"
        /\ UNCHANGED <<written, closed, trouble>>
        /\ upload' = "open"
    BY <1>5 DEF SendPart, UploadPart, Store
  <2>2. Accounted /\ trouble = "none" /\ ~closed
    BY <1>1, <2>1 DEF WriterInv, InWriter, Accounted
  <2>3. /\ AllUploaded'
        /\ op = "write" => taken' = next_part_index' * PartSize
        /\ op = "flush" => taken' = written
    BY <1>5, <2>1, <2>2, SendKeepsAll
  <2>4. taken' \in Nat
    <3>1. taken' = NextPart.to /\ NextPart \in Data
      BY <1>5, <2>1, NextPartIs DEF SendPart
    <3> QED
      BY <3>1 DEF Data
  <2>5. op' = "idle" => written <= taken' + PartSize
    <3>1. CASE op = "flush"
      BY <2>1, <3>1
    <3>2. CASE op = "write" /\ written - taken' > PartSize
      BY <2>1, <3>2
    <3>3. CASE ~(written - taken' > PartSize)
      <4>1. \A a, b, c \in Nat : ~(a - b > c) => a <= b + c
        OBVIOUS
      <4> QED
        BY <1>1, <2>4, <3>3, <4>1, Zenon
    <3> QED
      BY <2>1, <3>1, <3>2, <3>3
  <2> QED
    BY <2>1, <2>2, <2>3, <2>5 DEF Accounted
<1>6. ASSUME SendPartRaises
      PROVE  Accounted'
  <2>1. /\ op \in {"write", "flush"}
        /\ InsertTreeHash(next_part_index, NextPart)
        /\ taken' = NextPart.to /\ op' = "idle"
        /\ trouble' = IF op = "write" \/ trouble = "write" THEN "write" ELSE "close"
        /\ UNCHANGED <<written, next_part_index, closed, uploaded_size, upload>>
    BY <1>6 DEF SendPartRaises, UploadPartRaises
  <2>2. op = "flush" /\ trouble' = "close"
    BY <2>1
  <2>3. /\ Accounted /\ trouble = "none" /\ ~closed /\ AllUploaded
        /\ taken = next_part_index * PartSize /\ written <= taken + PartSize
    BY <1>1, <2>1, <2>2 DEF WriterInv, InWriter, Accounted, LastLost
  <2>4. Len(tree_hashes') = next_part_index + 1
    <3>1. NextPart \in Data
      BY <2>1, NextPartIs
    <3>2. next_part_index = Len(tree_hashes)
      BY <2>3 DEF AllUploaded
    <3> QED
      BY <1>1, <2>1, <3>1, <3>2, InsertShape DEF UploaderTypeOK
  <2>5. taken' = written
    <3>1. NextPart.to = Least(taken + PartSize, written)
      BY <2>1, NextPartIs
    <3> QED
      BY <1>1, <2>1, <2>3, <3>1, LeastIs
  <2>6. LastLost'
    BY <2>1, <2>2, <2>3, <2>4 DEF LastLost, AllUploaded
  <2>7. upload # "completed"
    BY <2>3 DEF Accounted
  <2> QED
    BY <2>1, <2>2, <2>3, <2>5, <2>6, <2>7 DEF Accounted
<1>7. ASSUME Complete \/ CompleteRaises
      PROVE  Accounted'
  <2>1. /\ op = "complete" /\ op' = "idle"
        /\ UNCHANGED <<written, taken, next_part_index, tree_hashes, uploaded_size, stored>>
        /\ CloseCompletes \/ upload' = upload
        /\ \/ closed' = TRUE /\ trouble' = trouble
           \/ closed' = closed /\ trouble' = IF trouble = "none" THEN "close" ELSE trouble
    BY <1>1, <1>7, CompletionIs DEF Complete, CompleteRaises, CloseRaises, uploaderVars, serviceVars
  <2>2. trouble # "write" /\ Accounted
    BY <2>1 DEF WriterInv, InWriter
  <2>3. trouble' = "close" \/ closed' = TRUE
    BY <1>1, <2>1, <2>2 DEF Trouble
  <2>4. taken = written /\ trouble' \in {"none", "close"}
    BY <1>1, <2>1, <2>2 DEF Accounted, Trouble
  <2>5. AllUploaded => AllUploaded'
    BY <2>1 DEF AllUploaded, PartOf
  <2>6. LastLost => LastLost'
    BY <2>1 DEF LastLost
  <2>7. upload' = "completed" => WholeArchive(written)
    BY <2>1, <2>2, AcceptedIsWhole DEF Accounted
  <2>8. WholeArchive(written) => WholeArchive(written)'
    BY <2>1 DEF WholeArchive, PartOf, Parts
  <2>9. ~(op' = "idle" /\ ~closed' /\ trouble' = "none")
    BY <2>3
  <2> QED
    BY <2>1, <2>2, <2>3, <2>4, <2>5, <2>6, <2>7, <2>8, <2>9 DEF Accounted
<1>8. ASSUME Arrive
      PROVE  Accounted'
  <2>1. /\ UNCHANGED <<op, written, taken, next_part_index, closed, trouble,
                       tree_hashes, uploaded_size, upload>>
        /\ upload = "completed" => stored' = stored
    BY <1>1, <1>8, ArriveIs DEF WriterType, writerVars, clientVars
  <2>2. Accounted
    BY <2>1 DEF WriterInv, InWriter
  <2>3. AllUploaded => AllUploaded'
    BY <2>1 DEF AllUploaded, PartOf
  <2>4. LastLost => LastLost'
    BY <2>1 DEF LastLost
  <2>5. upload = "completed" /\ WholeArchive(written) => WholeArchive(written)'
    BY <2>1 DEF WholeArchive, PartOf, Parts
  <2> QED
    BY <2>1, <2>2, <2>3, <2>4, <2>5 DEF Accounted
<1>9. ASSUME Crash \/ Resume \/ ResumeUploads \/ ResumeSkips \/ ResumeRaises \/ ResumeCompletes
      PROVE  FALSE
  BY <1>9 DEF InWriter, Crash, Resume, ResumeUploads, ResumeSkips, ResumeRaises,
       ResumeCompletes, ResumeContinues
<1>10. CASE UNCHANGED archiveVars
  <2>1. UNCHANGED <<op, written, taken, next_part_index, closed, trouble,
                    tree_hashes, uploaded_size, upload, stored>>
    BY <1>10 DEF archiveVars, writerVars, uploaderVars, clientVars, serviceVars
  <2>2. Accounted
    BY <2>1 DEF WriterInv, InWriter
  <2> QED
    BY <2>1, <2>2 DEF Accounted, AllUploaded, LastLost, WholeArchive, PartOf, Parts
<1> QED
  BY <1>3, <1>4, <1>5, <1>6, <1>7, <1>8, <1>9, <1>10 DEF WriterNext

-----------------------------------------------------------------------------
(* The resumption.                                                         *)

\* When the parts but the last have no wide character and the last is not too
\* long, the resumption's parts are the archive's (writer.py:161-168).
LEMMA FilePartsAre ==
  ASSUME NEW n \in Nat, n > 0, (n - 1) * PartSize < NumChars, NumChars <= n * PartSize,
         Offset((n - 1) * PartSize) = (n - 1) * PartSize, FileSize <= n * PartSize
  PROVE  /\ Parts(FileSize) = 0..(n - 1)
         /\ \A k \in 0..(n - 1) : FilePart(k) = PartOf(k, FileSize)
         /\ \A k \in 0..(n - 2) : Size(FilePart(k)) = PartSize
         /\ Size(FilePart(n - 1)) = FileSize - (n - 1) * PartSize
<1>1. /\ NumChars \in Nat /\ FileSize \in Nat /\ NumChars <= FileSize
      /\ n - 1 \in Nat /\ (n - 1) * PartSize \in Nat /\ n * PartSize \in Nat
      /\ PartSize \in Nat
  BY WriterAssumption, OffsetGrows, Multiples DEF WriterAssumption, FileSize
<1>2. Parts(FileSize) = 0..(n - 1)
  BY <1>1, PartsAre
<1>3. ASSUME NEW k \in 0..(n - 1)
      PROVE  /\ k * PartSize \in Nat /\ k * PartSize <= (n - 1) * PartSize
             /\ Offset(k * PartSize) = k * PartSize
             /\ k * PartSize < NumChars
  <2>1. k \in Nat /\ k * PartSize \in Nat
    BY Multiples
  <2>2. k * PartSize <= (n - 1) * PartSize
    <3>1. CASE k = n - 1
      BY <1>1, <3>1
    <3>2. CASE k # n - 1
      <4>1. k < n - 1
        BY <3>2
      <4>2. k * PartSize + PartSize <= (n - 1) * PartSize
        BY <1>1, <2>1, <4>1, Multiples
      <4> QED
        BY <1>1, <2>1, <4>2
    <3> QED
      BY <3>1, <3>2
  <2>3. PICK a, b : a = k * PartSize /\ b = (n - 1) * PartSize
    OBVIOUS
  <2>4. a \in Nat /\ b \in Nat /\ a <= b /\ Offset(b) = b
    BY <1>1, <2>1, <2>2, <2>3
  <2>5. Offset(a) \in Nat /\ a <= Offset(a) /\ Offset(a) - a <= Offset(b) - b
    BY <2>4, OffsetGrows
  <2>6. Offset(a) = a
    BY <2>4, <2>5
  <2>7. a < NumChars
    BY <1>1, <2>3, <2>4
  <2> QED
    BY <2>1, <2>2, <2>3, <2>6, <2>7
<1>4. ASSUME NEW k \in 0..(n - 2)
      PROVE  /\ FilePart(k) = Span(k * PartSize, (k + 1) * PartSize)
             /\ PartOf(k, FileSize) = Span(k * PartSize, (k + 1) * PartSize)
             /\ Size(FilePart(k)) = PartSize
  <2>1. k \in 0..(n - 1) /\ k + 1 \in 0..(n - 1) /\ k \in Nat
    BY <1>1
  <2>2. /\ (k + 1) * PartSize \in Nat /\ (k + 1) * PartSize < NumChars
        /\ Offset((k + 1) * PartSize) = (k + 1) * PartSize
        /\ k * PartSize < NumChars /\ Offset(k * PartSize) = k * PartSize
    BY <1>3, <2>1
  <2>3. /\ Least((k + 1) * PartSize, NumChars) = (k + 1) * PartSize
        /\ Least((k + 1) * PartSize, FileSize) = (k + 1) * PartSize
    BY <1>1, <2>2, LeastIs
  <2>4. FilePart(k) = Span(k * PartSize, (k + 1) * PartSize)
    BY <2>1, <2>2, <2>3, FilePartIs
  <2>5. PartOf(k, FileSize) = Span(k * PartSize, (k + 1) * PartSize)
    BY <2>3 DEF PartOf
  <2>6. k * PartSize \in Nat /\ (k + 1) * PartSize = k * PartSize + PartSize
    BY <2>1, Multiples
  <2>7. Size(FilePart(k)) = (k + 1) * PartSize - k * PartSize
    BY <2>1, <2>2, <2>3, FilePartIs
  <2> QED
    BY <1>1, <2>4, <2>5, <2>6, <2>7
<1>5. /\ FilePart(n - 1) = PartOf(n - 1, FileSize)
      /\ Size(FilePart(n - 1)) = FileSize - (n - 1) * PartSize
  <2>1. n - 1 \in 0..(n - 1) /\ (n - 1) + 1 = n
    BY <1>1
  <2>2. /\ Least(n * PartSize, NumChars) = NumChars
        /\ Least(n * PartSize, FileSize) = FileSize
    BY <1>1, LeastIs
  <2>3. /\ FilePart(n - 1) = Span(Offset((n - 1) * PartSize), Offset(NumChars))
        /\ Size(FilePart(n - 1)) = Offset(NumChars) - Offset((n - 1) * PartSize)
    BY <1>1, <2>1, <2>2, FilePartIs
  <2>4. PartOf(n - 1, FileSize) = Span((n - 1) * PartSize, FileSize)
    BY <2>1, <2>2 DEF PartOf
  <2> QED
    BY <2>3, <2>4 DEF FileSize
<1>6. ASSUME NEW k \in 0..(n - 1)
      PROVE  FilePart(k) = PartOf(k, FileSize)
  <2>1. k = n - 1 \/ k \in 0..(n - 2)
    BY <1>1
  <2> QED
    BY <1>4, <1>5, <2>1
<1> QED
  BY <1>2, <1>4, <1>5, <1>6

\* What the resumption knows at its end.
LEMMA ResumeEndIs ==
  ASSUME WriterType, ResumeInv, op = "resume_close", part_index > 0
  PROVE  /\ Parts(FileSize) = 0..(part_index - 1)
         /\ \A k \in 0..(part_index - 1) : FilePart(k) = PartOf(k, FileSize)
         /\ \A k \in 0..(part_index - 2) : Size(FilePart(k)) = PartSize
         /\ Size(FilePart(part_index - 1)) = FileSize - (part_index - 1) * PartSize
         /\ uploaded_size = FileSize
<1>1. part_index \in Nat /\ NumChars \in Nat
  BY WriterAssumption DEF WriterType, TypeOK, WriterAssumption
<1>2. part_index * PartSize \in Nat
  BY <1>1, Multiples
<1>3. /\ (part_index - 1) * PartSize < NumChars
      /\ Offset((part_index - 1) * PartSize) = (part_index - 1) * PartSize
      /\ NumChars <= part_index * PartSize
      /\ Offset(Least(part_index * PartSize, NumChars)) <= part_index * PartSize
      /\ uploaded_size = Offset(Least(part_index * PartSize, NumChars))
  BY DEF ResumeInv
<1>4. Least(part_index * PartSize, NumChars) = NumChars
  BY <1>1, <1>2, <1>3, LeastIs
<1>5. FileSize <= part_index * PartSize /\ uploaded_size = FileSize
  BY <1>3, <1>4 DEF FileSize
<1> QED
  BY <1>1, <1>3, <1>5, FilePartsAre

\* A part that goes through, uploaded or skipped, takes the resumption on to
\* the next: the service refuses a part that is too long, so none of those
\* before the last has a wide character (writer.py:192-203).
LEMMA ResumeGoesOn ==
  ASSUME WriterType, ResumeInv, op = "resume", ResumeContinues,
         InsertTreeHash(part_index, FilePart(part_index)),
         uploaded_size' = uploaded_size + Size(FilePart(part_index)),
         Size(FilePart(part_index)) <= PartSize
  PROVE  /\ part_index' = part_index + 1
         /\ op' \in {"resume", "resume_close"}
         /\ Len(tree_hashes') = part_index'
         /\ \A k \in 0..(part_index' - 1) : tree_hashes'[k + 1] = FilePart(k)
         /\ uploaded_size' = Offset(Least(part_index' * PartSize, NumChars))
         /\ Offset(Least(part_index' * PartSize, NumChars)) <= part_index' * PartSize
         /\ (part_index' - 1) * PartSize < NumChars
         /\ Offset((part_index' - 1) * PartSize) = (part_index' - 1) * PartSize
         /\ op' = "resume_close" => NumChars <= part_index' * PartSize
<1>1. PICK n : n = part_index
  OBVIOUS
<1>2. /\ n \in Nat /\ NumChars \in Nat /\ UploaderTypeOK
      /\ n * PartSize < NumChars
  BY <1>1, WriterAssumption DEF WriterType, TypeOK, WriterAssumption
<1>3. /\ n * PartSize \in Nat /\ (n + 1) * PartSize = n * PartSize + PartSize
      /\ PartSize \in Nat
  BY <1>2, Multiples
<1>4. /\ part_index' = n + 1 /\ n + 1 - 1 = n
      /\ op' = IF (n + 1) * PartSize < NumChars THEN "resume" ELSE "resume_close"
  BY <1>1, <1>2 DEF ResumeContinues
<1>5. Least(n * PartSize, NumChars) = n * PartSize
  BY <1>2, <1>3, LeastIs
<1>6. /\ uploaded_size = Offset(n * PartSize) /\ Offset(n * PartSize) <= n * PartSize
      /\ n = Len(tree_hashes)
      /\ \A k \in 0..(n - 1) : tree_hashes[k + 1] = FilePart(k)
  BY <1>1, <1>5 DEF ResumeInv
<1>7. PICK end : end = Least((n + 1) * PartSize, NumChars)
  OBVIOUS
<1>8. end \in Nat
  BY <1>2, <1>3, <1>7, LeastIs
<1>9. /\ Offset(n * PartSize) \in Nat /\ n * PartSize <= Offset(n * PartSize)
      /\ Offset(end) \in Nat
  BY <1>3, <1>8, OffsetGrows
<1>10. Offset(n * PartSize) = n * PartSize
  <2>1. \A a, b \in Nat : a <= b /\ b <= a => b = a
    OBVIOUS
  <2> QED
    BY <1>3, <1>6, <1>9, <2>1, Zenon
<1>11. FilePart(n) \in Data /\ Size(FilePart(n)) = Offset(end) - Offset(n * PartSize)
  BY <1>2, <1>7, FilePartIs
<1>12. uploaded_size' = Offset(end) /\ Offset(end) <= (n + 1) * PartSize
  <2>1. PICK a, b, size :
          a = Offset(n * PartSize) /\ b = Offset(end) /\ size = Size(FilePart(n))
    OBVIOUS
  <2>2. /\ a \in Nat /\ b \in Nat /\ size = b - a /\ size <= PartSize /\ a = n * PartSize
        /\ uploaded_size' = a + size
    BY <1>1, <1>3, <1>6, <1>9, <1>10, <1>11, <2>1
  <2>3. a + size = b
    BY <2>2
  <2>4. b <= a + PartSize
    BY <1>3, <2>2
  <2> QED
    BY <1>3, <2>1, <2>2, <2>3, <2>4
<1>13. /\ Len(tree_hashes') = n + 1
       /\ tree_hashes'[n + 1] = FilePart(n)
       /\ \A k \in 1..n : tree_hashes'[k] = tree_hashes[k]
  BY <1>1, <1>2, <1>6, <1>11, InsertShape DEF UploaderTypeOK
<1>14. ASSUME NEW k \in 0..n
       PROVE  tree_hashes'[k + 1] = FilePart(k)
  <2>1. CASE k = n
    BY <1>13, <2>1
  <2>2. CASE k # n
    <3>1. k \in 0..(n - 1) /\ k + 1 \in 1..n
      BY <1>2, <2>2
    <3> QED
      BY <1>6, <1>13, <3>1
  <2> QED
    BY <2>1, <2>2
<1>15. op' = "resume_close" => NumChars <= (n + 1) * PartSize
  BY <1>2, <1>3, <1>4
<1>16. part_index' - 1 = n
  BY <1>2, <1>4
<1>17. op' \in {"resume", "resume_close"}
  BY <1>4
<1>18. Len(tree_hashes') = part_index' /\ \A k \in 0..(part_index' - 1) : tree_hashes'[k + 1] = FilePart(k)
  BY <1>4, <1>13, <1>14, <1>16
<1>19. /\ uploaded_size' = Offset(Least(part_index' * PartSize, NumChars))
       /\ Offset(Least(part_index' * PartSize, NumChars)) <= part_index' * PartSize
  BY <1>4, <1>7, <1>12
<1>20. /\ (part_index' - 1) * PartSize < NumChars
       /\ Offset((part_index' - 1) * PartSize) = (part_index' - 1) * PartSize
  BY <1>2, <1>10, <1>16
<1>21. part_index' = part_index + 1
  BY <1>1, <1>4
<1>22. op' = "resume_close" => NumChars <= part_index' * PartSize
  BY <1>4, <1>15
<1> QED
  BY <1>17, <1>18, <1>19, <1>20, <1>21, <1>22

\* The archive that a resumption completes is the file's: the parts that the
\* service holds are those that went through (writer.py:189-203).
LEMMA ResumedIsTheFile ==
  ASSUME WriterType, ResumeInv, op = "resume_close", CloseCompletes
  PROVE  WholeArchive(FileSize) /\ upload' = "completed" /\ stored' = stored
<1>1. UploaderTypeOK /\ part_index \in Nat
  BY DEF WriterType, TypeOK
<1>2. /\ Len(tree_hashes) = part_index
      /\ \A k \in 0..(part_index - 1) : tree_hashes[k + 1] = FilePart(k)
  BY DEF ResumeInv
<1>3. part_index > 0
  BY <1>1, <1>2 DEF CloseCompletes, UploaderTypeOK
<1>4. /\ DOMAIN stored = 0..(part_index - 1)
      /\ \A k \in 0..(part_index - 1) : tree_hashes[k + 1] = stored[k]
      /\ upload' = "completed" /\ stored' = stored
  BY <1>2 DEF CloseCompletes, Acceptable
<1>5. /\ Parts(FileSize) = 0..(part_index - 1)
      /\ \A k \in 0..(part_index - 1) : FilePart(k) = PartOf(k, FileSize)
  BY <1>3, ResumeEndIs
<1> QED
  BY <1>2, <1>4, <1>5 DEF WholeArchive

\* Every step keeps what a resumption knows.
LEMMA NextResumeInv == WriterType /\ ResumeInv /\ [WriterNext]_archiveVars => ResumeInv'
<1> SUFFICES ASSUME WriterType, ResumeInv, [WriterNext]_archiveVars
             PROVE  ResumeInv'
  OBVIOUS
<1>1. /\ UploaderTypeOK /\ part_index \in Nat /\ NumChars \in Nat
      /\ \A k \in DOMAIN stored : Size(stored[k]) <= PartSize
      /\ DOMAIN part_hash_map \subseteq Nat
  BY WriterAssumption DEF WriterType, TypeOK, WriterAssumption
<1>2. ASSUME \/ \E n \in 1..MaxWrite : Write(n)
             \/ Close \/ SendPart \/ SendPartRaises \/ Complete \/ CompleteRaises \/ Crash
             \/ ResumeRaises
      PROVE  ResumeInv'
  <2>1. op' \notin {"resume", "resume_close", "resumed"}
    BY <1>2 DEF Write, Close, SendPart, SendPartRaises, Complete, CompleteRaises, Crash, ResumeRaises
  <2> QED
    BY <2>1 DEF ResumeInv
<1>3. ASSUME Resume
      PROVE  ResumeInv'
  <2>1. /\ part_index' = 0 /\ tree_hashes' = <<>> /\ uploaded_size' = 0
        /\ upload' = "open" /\ stored' = stored /\ part_hash_map' = stored
        /\ op' = IF NumChars = 0 THEN "resume_close" ELSE "resume"
    BY <1>3 DEF Resume, serviceVars
  <2>2. part_index' * PartSize = 0
    BY <2>1, Multiples
  <2>3. Least(0, NumChars) = 0 /\ Offset(0) = 0
    BY <1>1, LeastIs, OffsetGrows
  <2>4. Len(tree_hashes') = 0 /\ 0..(part_index' - 1) = {}
    BY <2>1
  <2>5. op' = "resume_close" => NumChars <= 0
    BY <1>1, <2>1
  <2>6. op' # "resumed"
    BY <2>1
  <2> QED
    BY <2>1, <2>2, <2>3, <2>4, <2>5, <2>6 DEF ResumeInv
<1>4. ASSUME ResumeUploads \/ ResumeSkips
      PROVE  ResumeInv'
  <2>1. PICK n : n = part_index
    OBVIOUS
  <2>2. /\ op = "resume" /\ n \in Nat /\ n * PartSize < NumChars /\ upload = "open"
        /\ ResumeContinues /\ InsertTreeHash(n, FilePart(n))
        /\ uploaded_size' = uploaded_size + Size(FilePart(n))
        /\ late' = late /\ part_hash_map' = part_hash_map
    BY <1>1, <1>4, <2>1 DEF ResumeUploads, ResumeSkips, UploadPart, SkipPart, ResumeContinues,
         ResumeInv, WriterType
  <2>3. FilePart(n) \in Data
    BY <2>2, FilePartIs
  <2>4. /\ Size(FilePart(n)) <= PartSize /\ upload' = "open"
        /\ DOMAIN stored \subseteq DOMAIN stored'
        /\ \A k \in DOMAIN stored : k # n => stored'[k] = stored[k]
        /\ ~late => n \in DOMAIN stored' /\ stored'[n] = FilePart(n)
    <3>1. CASE UploadPart(n, FilePart(n))
      <4>1. Store(n, FilePart(n))
        BY <3>1 DEF UploadPart
      <4> QED
        BY <1>1, <2>2, <2>3, <4>1, StoreIs
    <3>2. CASE Known(n) /\ SkipPart(n, FilePart(n))
      <4>1. /\ n \in DOMAIN part_hash_map /\ part_hash_map[n] = FilePart(n)
            /\ stored' = stored /\ upload' = upload
        BY <3>2 DEF Known, SkipPart, serviceVars
      <4>2. Size(FilePart(n)) <= PartSize
        BY <4>1 DEF WriterType
      <4>3. ~late => n \in DOMAIN stored /\ stored[n] = part_hash_map[n]
        BY <2>1, <2>2, <4>1 DEF ResumeInv
      <4> QED
        BY <2>2, <4>1, <4>2, <4>3
    <3> QED
      BY <1>4, <2>1, <3>1, <3>2 DEF ResumeUploads, ResumeSkips
  <2>5. /\ part_index' = n + 1
        /\ op' \in {"resume", "resume_close"}
        /\ Len(tree_hashes') = part_index'
        /\ \A k \in 0..(part_index' - 1) : tree_hashes'[k + 1] = FilePart(k)
        /\ uploaded_size' = Offset(Least(part_index' * PartSize, NumChars))
        /\ Offset(Least(part_index' * PartSize, NumChars)) <= part_index' * PartSize
        /\ (part_index' - 1) * PartSize < NumChars
        /\ Offset((part_index' - 1) * PartSize) = (part_index' - 1) * PartSize
        /\ op' = "resume_close" => NumChars <= part_index' * PartSize
    BY <2>1, <2>2, <2>4, ResumeGoesOn
  <2>6. ASSUME ~late, NEW k \in 0..(part_index' - 1)
        PROVE  k \in DOMAIN stored' /\ stored'[k] = FilePart(k)
    <3>1. k = n \/ (k \in 0..(n - 1) /\ k # n)
      BY <2>2, <2>5
    <3>2. k \in 0..(n - 1) => k \in DOMAIN stored /\ stored[k] = FilePart(k)
      BY <2>1, <2>2, <2>6 DEF ResumeInv
    <3> QED
      BY <2>4, <2>6, <3>1, <3>2
  <2>7. ASSUME ~late, NEW k \in DOMAIN part_hash_map, k >= n + 1
        PROVE  k \in DOMAIN stored' /\ stored'[k] = part_hash_map[k]
    <3>1. k \in Nat /\ k >= n /\ k # n
      BY <1>1, <2>2, <2>7
    <3>2. k \in DOMAIN stored /\ stored[k] = part_hash_map[k]
      BY <2>1, <2>2, <2>7, <3>1 DEF ResumeInv
    <3> QED
      BY <2>4, <3>1, <3>2
  <2>8. FilePart(n) = FilePart(n)' /\ op' # "resumed"
    BY <2>5 DEF FilePart
  <2> QED
    BY <2>2, <2>4, <2>5, <2>6, <2>7, <2>8 DEF ResumeInv, FilePart
<1>5. ASSUME ResumeCompletes
      PROVE  ResumeInv'
  <2>1. CASE op' = "resumed"
    <3>1. op = "resume_close" /\ CloseCompletes
      BY <1>5, <2>1 DEF ResumeCompletes
    <3>2. WholeArchive(FileSize) /\ upload' = "completed" /\ stored' = stored
      BY <3>1, ResumedIsTheFile
    <3> QED
      BY <2>1, <3>2 DEF ResumeInv, WholeArchive, Parts, PartOf
  <2>2. CASE op' # "resumed"
    BY <1>5, <2>2 DEF ResumeCompletes, ResumeInv
  <2> QED
    BY <2>1, <2>2
<1>6. ASSUME Arrive
      PROVE  ResumeInv'
  <2>1. /\ upload' = upload /\ UNCHANGED <<tree_hashes, uploaded_size, op, part_hash_map, part_index>>
        /\ late' = TRUE
        /\ upload = "completed" => stored' = stored
    BY <1>1, <1>6, ArriveIs DEF clientVars
  <2> QED
    BY <2>1 DEF ResumeInv, WholeArchive, Parts, PartOf, FilePart
<1>7. CASE UNCHANGED archiveVars
  <2>1. UNCHANGED <<upload, stored, tree_hashes, uploaded_size, op, part_hash_map, part_index, late>>
    BY <1>7 DEF archiveVars, writerVars, resumeVars, uploaderVars, clientVars, serviceVars
  <2> QED
    BY <2>1 DEF ResumeInv, WholeArchive, Parts, PartOf, FilePart
<1> QED
  BY <1>2, <1>3, <1>4, <1>5, <1>6, <1>7 DEF WriterNext

-----------------------------------------------------------------------------
(* Theorems: the writer and its resumption.                                *)

\* A program that writes, closes, crashes, and resumes keeps the three
\* invariants above, whatever requests raise or arrive late.
THEOREM WriterInvariant == Spec => [](WriterType /\ WriterInv /\ ResumeInv)
<1>1. WriterInit => WriterType /\ WriterInv /\ ResumeInv
  <2> SUFFICES ASSUME WriterInit
               PROVE  WriterType /\ WriterInv /\ ResumeInv
    OBVIOUS
  <2> USE DEF WriterInit, UploaderInit
  <2>1. WriterType
    <3>1. DOMAIN stored = {} /\ DOMAIN part_hash_map = {}
      OBVIOUS
    <3>2. <<>> \in Seq(Data \cup {None})
      BY EmptySeq
    <3>3. UploaderTypeOK
      BY <3>1, <3>2 DEF UploaderTypeOK
    <3>4. /\ op \in Op /\ trouble \in Trouble
          /\ closed \in BOOLEAN /\ late \in BOOLEAN
      BY Zenon DEF Op, Trouble
    <3>5. /\ written \in Nat /\ taken \in 0..written
          /\ next_part_index \in Nat /\ part_index \in Nat
      OBVIOUS
    <3>6. TypeOK
      BY <3>1, <3>3, <3>4, <3>5, Zenon DEF TypeOK
    <3> QED
      BY <3>1, <3>6 DEF WriterType
  <2>2. 0 * PartSize = 0 /\ PartSize \in Nat
    BY Multiples
  <2>3. AllUploaded
    BY <2>2 DEF AllUploaded
  <2>4. WriterInv
    BY <2>2, <2>3 DEF WriterInv, Accounted
  <2>5. ResumeInv
    BY DEF ResumeInv
  <2> QED
    BY <2>1, <2>4, <2>5
<1>2. WriterType /\ WriterInv /\ ResumeInv /\ [WriterNext]_archiveVars
        => (WriterType /\ WriterInv /\ ResumeInv)'
  BY NextWriterType, NextWriterInv, NextResumeInv
<1>3. Init => WriterInit
  BY DEF Init
<1>4. [Next]_vars => [WriterNext]_archiveVars
  BY DEF Next, vars, HashStep, WriterStep
<1> QED
  BY <1>1, <1>2, <1>3, <1>4, PTL DEF Spec

\* The writer's upload is completed only with every byte that was written,
\* however often close() is tried again (writer.py:63-79, 109-132, 146-158).
THEOREM WriterClosedIsWhole == Spec => []ClosedIsWhole
<1>1. WriterInv => ClosedIsWhole
  BY DEF WriterInv, InWriter, Accounted, ClosedIsWhole
<1> QED
  BY <1>1, WriterInvariant, PTL

\* A resumption completes the archive of the file, whatever parts an earlier
\* program had left and whatever arrives late, and for text whose characters
\* take more than a byte too (writer.py:161-203).
THEOREM WriterResumedIsWhole == Spec => []ResumedIsWhole
<1>1. ResumeInv => ResumedIsWhole
  BY DEF ResumeInv, ResumedIsWhole
<1> QED
  BY <1>1, WriterInvariant, PTL

\* The service accepts the completion of a resumption that has gone through
\* the file, unless a part arrived late or it holds parts beyond the file's
\* end (writer.py:189-203).
THEOREM WriterResumeIsAccepted == Spec => []ResumeIsAccepted
<1>1. WriterType /\ ResumeInv => ResumeIsAccepted
  <2> SUFFICES ASSUME WriterType, ResumeInv, op = "resume_close", ~late, NumChars > 0,
                      DOMAIN stored \subseteq Parts(FileSize)
               PROVE  Acceptable
    BY DEF ResumeIsAccepted
  <2>1. PICK n : n = part_index
    OBVIOUS
  <2>2. /\ n \in Nat /\ NumChars \in Nat
        /\ NumChars <= n * PartSize
        /\ upload = "open" /\ Len(tree_hashes) = n
        /\ \A k \in 0..(n - 1) : tree_hashes[k + 1] = FilePart(k)
        /\ \A k \in 0..(n - 1) : k \in DOMAIN stored /\ stored[k] = FilePart(k)
    BY <2>1, WriterAssumption DEF ResumeInv, WriterType, TypeOK, WriterAssumption
  <2>3. n > 0
    <3>1. CASE n = 0
      BY <2>2, <3>1, Multiples
    <3> QED
      BY <2>2, <3>1
  <2>4. /\ Parts(FileSize) = 0..(n - 1)
        /\ \A k \in 0..(n - 2) : Size(FilePart(k)) = PartSize
        /\ Size(FilePart(n - 1)) = FileSize - (n - 1) * PartSize
        /\ uploaded_size = FileSize
    BY <2>1, <2>3, ResumeEndIs
  <2>5. DOMAIN stored = 0..(n - 1)
    BY <2>2, <2>4
  <2>6. FileSize \in Nat /\ (n - 1) * PartSize \in Nat /\ n - 1 \in 0..(n - 1)
    BY <2>2, <2>3, OffsetGrows, Multiples DEF FileSize
  <2>7. uploaded_size = (n - 1) * PartSize + Size(stored[n - 1])
    <3>1. \A a, b \in Nat : a = b + (a - b)
      OBVIOUS
    <3>2. stored[n - 1] = FilePart(n - 1)
      BY <2>2, <2>6
    <3>3. FileSize = (n - 1) * PartSize + (FileSize - (n - 1) * PartSize)
      BY <2>6, <3>1, Zenon
    <3> QED
      BY <2>4, <3>2, <3>3, Zenon
  <2>8. \A k \in 0..((n - 1) - 1) : Size(stored[k]) = PartSize
    <3>1. (n - 1) - 1 = n - 2 /\ \A k \in 0..(n - 2) : k \in 0..(n - 1)
      BY <2>2
    <3> QED
      BY <2>2, <2>4, <3>1
  <2> QED
    BY <2>2, <2>5, <2>7, <2>8 DEF Acceptable
<1> QED
  BY <1>1, WriterInvariant, PTL

-----------------------------------------------------------------------------
(* The part size.                                                          *)

LEMMA PowerOfTwo == ASSUME NEW k \in Nat PROVE 2^k \in Nat \ {0}
<1>1. IsFiniteSet(1..k) /\ Cardinality(1..k) = k
  BY FS_Interval
<1>2. IsFiniteSet(SUBSET (1..k)) /\ Cardinality(SUBSET (1..k)) = 2^k
  BY <1>1, FS_SUBSET
<1>3. Cardinality(SUBSET (1..k)) \in Nat
  BY <1>2, FS_CardinalityType
<1>4. Cardinality(SUBSET (1..k)) # 0
  <2>1. {} \in SUBSET (1..k)
    OBVIOUS
  <2> QED
    BY <1>2, <2>1, FS_EmptySet
<1> QED
  BY <1>2, <1>3, <1>4

\* Every size the choice is made from is a positive number of bytes.
LEMMA PowersAreSizes == ASSUME NEW from \in Nat PROVE Powers(from) \subseteq Nat \ {0}
<1> SUFFICES ASSUME NEW k \in from..LargestPower
             PROVE  Megabyte * 2^k \in Nat \ {0}
  BY DEF Powers
<1>1. k \in Nat
  BY PartSizeAssumption DEF PartSizeAssumption
<1>2. PICK m : m = 2^k /\ m \in Nat \ {0}
  BY <1>1, PowerOfTwo
<1>3. \A a, b \in Nat \ {0} : a * b \in Nat \ {0}
  OBVIOUS
<1> QED
  BY <1>2, <1>3, PartSizeAssumption DEF PartSizeAssumption

LEMMA SmallestIs ==
  ASSUME NEW S \in SUBSET Nat, S # {}
  PROVE  SmallestOf(S) \in S /\ \A q \in S : SmallestOf(S) <= q
<1> DEFINE R == OpToRel(<, Nat)
<1>1. \A m, n \in Nat : m < n => <<m, n>> \in R
  BY DEF R, OpToRel
<1>2. IsWellFoundedOn(R, Nat)
  BY NatLessThanWellFounded
<1> HIDE DEF R
<1>3. PICK p \in S : \A q \in S : ~(<<q, p>> \in R)
  BY <1>2, WFMin
<1>4. ASSUME NEW q \in S
      PROVE  p <= q
  <2>1. p \in Nat /\ q \in Nat /\ ~(q < p)
    BY <1>1, <1>3
  <2> QED
    BY <2>1
<1> QED
  BY <1>3, <1>4 DEF SmallestOf

\* The rounding up of a division by a positive number stays below a bound
\* that the exact quotient stays below.
LEMMA CeilDivFits ==
  ASSUME NEW s \in Nat, NEW p \in Nat \ {0}, NEW q \in Nat, s <= p * q
  PROVE  CeilDiv(s, p) <= q
BY DEF CeilDiv

\* The loop of minimum_part_size ends with a size it tries (utils.py:61-71).
LEMMA MinimumIs ==
  ASSUME NEW size \in Nat, NEW default \in Nat \ {0}, ~TooLarge(size, default),
         ~(default * MAXIMUM_NUMBER_OF_PARTS >= size)
  PROVE  /\ MinimumPartSize(size, default) \in LoopSizes
         /\ ~Below(MinimumPartSize(size, default), size)
<1> DEFINE largest == Megabyte * 2^LargestPower
           S == {p \in LoopSizes : ~Below(p, size)}
<1>1. largest \in Powers(3) /\ largest \in Nat
  <2>1. LargestPower \in 3..LargestPower
    BY PartSizeAssumption DEF PartSizeAssumption
  <2>2. largest \in Powers(3)
    BY <2>1 DEF Powers
  <2> QED
    BY <2>2, PowersAreSizes
<1>2. LoopSizes \subseteq Nat \ {0}
  BY PowersAreSizes, PartSizeAssumption DEF LoopSizes, PartSizeAssumption
<1>3. largest \in S
  <2>1. size <= largest * MAXIMUM_NUMBER_OF_PARTS
    <3>1. default * MAXIMUM_NUMBER_OF_PARTS < size
      BY PartSizeAssumption DEF PartSizeAssumption
    <3>2. ~(size > LargestFile)
      BY <3>1 DEF TooLarge
    <3> HIDE DEF largest
    <3>3. largest * MAXIMUM_NUMBER_OF_PARTS \in Nat
      BY <1>1, PartSizeAssumption DEF PartSizeAssumption
    <3>4. LargestFile = largest * MAXIMUM_NUMBER_OF_PARTS
      BY DEF LargestFile, largest
    <3> QED
      BY <3>2, <3>3, <3>4
  <2>2. ~Below(largest, size)
    <3> HIDE DEF largest
    <3>1. size \div MAXIMUM_NUMBER_OF_PARTS <= largest
      BY <1>1, <2>1, PartSizeAssumption DEF PartSizeAssumption
    <3>2. largest * MAXIMUM_NUMBER_OF_PARTS \in Nat /\ size \div MAXIMUM_NUMBER_OF_PARTS \in Nat
      BY <1>1, PartSizeAssumption DEF PartSizeAssumption
    <3> QED
      BY <1>1, <2>1, <3>1, <3>2 DEF Below
  <2> QED
    BY <1>1, <2>2 DEF LoopSizes
<1>4. SmallestOf(S) \in S
  <2>1. S \in SUBSET Nat /\ S # {}
    BY <1>2, <1>3
  <2> HIDE DEF S
  <2> QED
    BY <2>1, SmallestIs
<1>5. MinimumPartSize(size, default) = SmallestOf(S)
  BY DEF MinimumPartSize
<1> QED
  BY <1>4, <1>5

\* With the exact division of Python 3 the size is large enough.
LEMMA MinimumFits ==
  ASSUME ~IntegerDivision,
         NEW size \in Nat, NEW default \in Nat \ {0}, ~TooLarge(size, default)
  PROVE  /\ MinimumPartSize(size, default) \in Nat \ {0}
         /\ size <= MinimumPartSize(size, default) * MAXIMUM_NUMBER_OF_PARTS
<1>1. CASE default * MAXIMUM_NUMBER_OF_PARTS >= size
  BY <1>1, PartSizeAssumption DEF MinimumPartSize, PartSizeAssumption
<1>2. CASE ~(default * MAXIMUM_NUMBER_OF_PARTS >= size)
  <2>1. PICK p : p = MinimumPartSize(size, default) /\ p \in LoopSizes /\ ~Below(p, size)
    BY <1>2, MinimumIs
  <2>2. LoopSizes \subseteq Nat \ {0}
    BY PowersAreSizes, PartSizeAssumption DEF LoopSizes, PartSizeAssumption
  <2>3. p \in Nat \ {0} /\ size <= p * MAXIMUM_NUMBER_OF_PARTS
    BY <2>1, <2>2, PartSizeAssumption DEF Below, PartSizeAssumption
  <2> QED
    BY <2>1, <2>3
<1> QED
  BY <1>1, <1>2

\* What a file and the size asked for are, throughout.
FileKnown == size_in_bytes \in Nat /\ default_part_size \in Nat \ {0}

LEMMA FileStaysKnown == Spec => []FileKnown
<1>1. Init => FileKnown
  <2> SUFFICES ASSUME Init
               PROVE  FileKnown
    OBVIOUS
  <2>1. CASE FileInit
    BY <2>1, PowersAreSizes, PartSizeAssumption DEF FileInit, FileKnown, PartSizeAssumption
  <2>2. CASE size_in_bytes = 0 /\ default_part_size = Default
    BY <2>2, PartSizeAssumption DEF Default, FileKnown, PartSizeAssumption
  <2> QED
    BY <2>1, <2>2 DEF Init, TreeHashInit
<1>2. FileKnown /\ [Next]_vars => FileKnown'
  <2> SUFFICES ASSUME FileKnown, [Next]_vars
               PROVE  UNCHANGED <<size_in_bytes, default_part_size>>
    BY DEF FileKnown
  <2> QED
    BY DEF vars, Next, HashStep, WriterStep, TreeHashNext, HashPart, HashTotal, treeHashVars, fileVars
<1> QED
  BY <1>1, <1>2, PTL DEF Spec

-----------------------------------------------------------------------------
(* Theorems: the part size.                                                *)

\* With the exact division, minimum_part_size keeps every file that it takes
\* under the largest number of parts (utils.py:50-71); with the division of
\* integers it does not, as the run PartSize2 shows.
THEOREM MinimumPartSizeFewEnoughParts ==
  ASSUME ~IntegerDivision
  PROVE  Spec => []FewEnoughParts
<1>1. FileKnown => FewEnoughParts
  <2> SUFFICES ASSUME FileKnown, ~TooLarge(size_in_bytes, default_part_size)
               PROVE  TotalParts(size_in_bytes, MinimumPartSize(size_in_bytes, default_part_size))
                        <= MAXIMUM_NUMBER_OF_PARTS
    BY DEF FewEnoughParts
  <2> QED
    BY MinimumFits, CeilDivFits, PartSizeAssumption DEF FileKnown, TotalParts, PartSizeAssumption
<1> QED
  BY <1>1, FileStaysKnown, PTL

\* The part size of a concurrent transfer is at least the one that was asked
\* for and gives no more parts than the service takes, for a file of any size
\* and with the exact division (concurrent.py:48-58).
THEOREM TransferPartSizeFits ==
  ASSUME ~IntegerDivision
  PROVE  Spec => []TransferFits
<1>1. FileKnown => TransferFits
  <2> SUFFICES ASSUME FileKnown, ~TooLarge(size_in_bytes, Default)
               PROVE  /\ RequiredPartSize(size_in_bytes, default_part_size) >= default_part_size
                      /\ TotalParts(size_in_bytes, RequiredPartSize(size_in_bytes, default_part_size))
                           <= MAXIMUM_NUMBER_OF_PARTS
    BY DEF TransferFits
  <2>1. size_in_bytes \in Nat /\ default_part_size \in Nat \ {0} /\ Default \in Nat \ {0}
    BY PartSizeAssumption DEF FileKnown, Default, PartSizeAssumption
  <2>2. PICK m : m = MinimumPartSize(size_in_bytes, Default)
    OBVIOUS
  <2>3. m \in Nat \ {0} /\ size_in_bytes <= m * MAXIMUM_NUMBER_OF_PARTS
    BY <2>1, <2>2, MinimumFits
  <2>4. PICK p : p = RequiredPartSize(size_in_bytes, default_part_size)
    OBVIOUS
  <2>5. p \in Nat \ {0} /\ p >= default_part_size /\ p >= m
    BY <2>1, <2>2, <2>3, <2>4 DEF RequiredPartSize
  <2>6. size_in_bytes <= p * MAXIMUM_NUMBER_OF_PARTS
    <3>1. \A a, b, c, d \in Nat : a <= b * d /\ b <= c => a <= c * d
      OBVIOUS
    <3> QED
      BY <2>1, <2>3, <2>5, <3>1, PartSizeAssumption DEF PartSizeAssumption
  <2>7. CeilDiv(size_in_bytes, p) <= MAXIMUM_NUMBER_OF_PARTS
    BY <2>1, <2>5, <2>6, CeilDivFits, PartSizeAssumption DEF PartSizeAssumption
  <2> QED
    BY <2>4, <2>5, <2>7 DEF TotalParts
<1> QED
  BY <1>1, FileStaysKnown, PTL

-----------------------------------------------------------------------------
(* The tree hash.                                                          *)

\* Induction, for a set of numbers.
LEMMA Inductive ==
  ASSUME NEW S, 0 \in S, \A n \in Nat : n \in S => n + 1 \in S
  PROVE  Nat \subseteq S
<1> DEFINE Out == {n \in Nat : n \notin S}
<1>1. SUFFICES Out = {}
  OBVIOUS
<1>2. CASE Out # {}
  <2>1. PICK least : least = SmallestOf(Out)
    OBVIOUS
  <2>2. least \in Out /\ \A n \in Out : least <= n
    BY <1>2, <2>1, SmallestIs
  <2>3. least \in Nat /\ least \notin S /\ least # 0
    BY <2>2
  <2>4. least - 1 \in Nat /\ ~(least <= least - 1) /\ (least - 1) + 1 = least
    BY <2>3
  <2>5. least - 1 \in S
    BY <2>2, <2>4
  <2> QED
    BY <2>3, <2>4, <2>5
<1> QED
  BY <1>2

\* A subset of a set with one element more has that element or has it not.
LEMMA PowerDoubles == ASSUME NEW k \in Nat PROVE 2^(k + 1) = 2 * 2^k
<1> DEFINE S == SUBSET (1..k)
           T == {A \in SUBSET (1..(k + 1)) : k + 1 \in A}
           add == [A \in S |-> A \cup {k + 1}]
<1>1. /\ IsFiniteSet(S) /\ Cardinality(S) = 2^k
      /\ IsFiniteSet(SUBSET (1..(k + 1))) /\ Cardinality(SUBSET (1..(k + 1))) = 2^(k + 1)
  <2>1. IsFiniteSet(1..k) /\ Cardinality(1..k) = k
    BY FS_Interval
  <2>2. IsFiniteSet(1..(k + 1)) /\ Cardinality(1..(k + 1)) = k + 1
    <3>1. k + 1 \in Int /\ ~(1 > k + 1) /\ (k + 1) - 1 + 1 = k + 1
      OBVIOUS
    <3> QED
      BY <3>1, FS_Interval
  <2> QED
    BY <2>1, <2>2, FS_SUBSET
<1>2. IsFiniteSet(T) /\ Cardinality(T) = Cardinality(S)
  <2>1. add \in [S -> T]
    <3>1. ASSUME NEW A \in S
          PROVE  A \cup {k + 1} \in T
      OBVIOUS
    <3> QED
      BY <3>1
  <2>2. \A A, B \in S : add[A] = add[B] => A = B
    <3> SUFFICES ASSUME NEW A \in S, NEW B \in S, A \cup {k + 1} = B \cup {k + 1}
                 PROVE  A = B
      OBVIOUS
    <3>1. k + 1 \notin A /\ k + 1 \notin B
      OBVIOUS
    <3> QED
      BY <3>1
  <2>3. \A A \in T : \E B \in S : add[B] = A
    <3> SUFFICES ASSUME NEW A \in T
                 PROVE  \E B \in S : add[B] = A
      OBVIOUS
    <3>1. A \ {k + 1} \in S
      OBVIOUS
    <3>2. (A \ {k + 1}) \cup {k + 1} = A
      OBVIOUS
    <3> QED
      BY <3>1, <3>2
  <2>4. ExistsBijection(S, T)
    <3> HIDE DEF add, S, T
    <3> QED
      BY <2>1, <2>2, <2>3 DEF ExistsBijection, Bijection, Injection, Surjection, IsInjective
  <2> HIDE DEF S, T
  <2> QED
    BY <1>1, <2>4, FS_Bijection
<1>3. SUBSET (1..(k + 1)) = S \cup T
  <2>1. ASSUME NEW A \in SUBSET (1..(k + 1)), A \notin T
        PROVE  A \in S
    <3>1. k + 1 \notin A
      BY <2>1
    <3> QED
      BY <3>1
  <2>2. \A A \in S : A \in SUBSET (1..(k + 1))
    OBVIOUS
  <2>3. \A A \in T : A \in SUBSET (1..(k + 1))
    OBVIOUS
  <2> HIDE DEF S, T
  <2> QED
    BY <2>1, <2>2, <2>3
<1>4. S \cap T = {}
  OBVIOUS
<1>5. Cardinality(S \cup T) = Cardinality(S) + Cardinality(T)
  <2> HIDE DEF S, T
  <2>1. Cardinality(S \cup T) = Cardinality(S) + Cardinality(T) - Cardinality(S \cap T)
    BY <1>1, <1>2, FS_Union, Zenon
  <2>2. Cardinality(S \cap T) = 0
    BY <1>4, FS_EmptySet, Zenon
  <2>3. Cardinality(S) \in Nat /\ Cardinality(T) \in Nat
    BY <1>1, <1>2, FS_CardinalityType
  <2> QED
    BY <2>1, <2>2, <2>3
<1>6. 2^k \in Nat
  BY PowerOfTwo
<1> HIDE DEF S, T
<1>7. 2^(k + 1) = 2^k + 2^k
  BY <1>1, <1>2, <1>3, <1>5, Zenon
<1>8. PICK x : x = 2^k
  OBVIOUS
<1> QED
  BY <1>6, <1>7, <1>8

\* The powers of two.
LEMMA PowersAre ==
  /\ 2^0 = 1
  /\ \A k \in Nat : 2^k \in Nat \ {0} /\ 2^(k + 1) = 2 * 2^k
  /\ \A j, k \in Nat : j <= k => 2^j <= 2^k
<1>1. 2^0 = 1
  <2>1. IsFiniteSet({}) /\ Cardinality({}) = 0
    BY FS_EmptySet
  <2>2. Cardinality(SUBSET {}) = 2^0
    BY <2>1, FS_SUBSET
  <2>3. SUBSET {} = {{}}
    OBVIOUS
  <2>4. Cardinality({{}}) = 1
    BY FS_Singleton
  <2> QED
    BY <2>2, <2>3, <2>4
<1>2. \A k \in Nat : 2^k \in Nat \ {0} /\ 2^(k + 1) = 2 * 2^k
  BY PowerOfTwo, PowerDoubles
<1>3. ASSUME NEW j \in Nat
      PROVE  \A k \in Nat : j <= k => 2^j <= 2^k
  <2> DEFINE S == {k \in Nat : j <= k => 2^j <= 2^k}
  <2>1. 0 \in S
    <3>1. j <= 0 => j = 0
      OBVIOUS
    <3>2. 2^0 <= 2^0
      BY <1>1
    <3>3. j <= 0 => 2^j <= 2^0
      BY <3>1, <3>2
    <3> QED
      BY <3>3
  <2>2. ASSUME NEW n \in Nat, n \in S
        PROVE  n + 1 \in S
    <3>1. CASE j <= n
      <4>1. PICK a, b : a = 2^j /\ b = 2^n
        OBVIOUS
      <4>2. a \in Nat /\ b \in Nat /\ a <= b /\ 2^(n + 1) = 2 * b
        BY <1>2, <2>2, <3>1, <4>1
      <4>3. a <= 2 * b
        BY <4>2
      <4> QED
        BY <4>1, <4>2, <4>3
    <3>2. CASE j = n + 1
      <4>1. 2^j \in Nat
        BY <1>2
      <4>2. 2^j <= 2^(n + 1)
        BY <3>2, <4>1
      <4> QED
        BY <4>2
    <3>3. CASE ~(j <= n + 1)
      BY <3>3
    <3> QED
      BY <3>1, <3>2, <3>3
  <2>3. Nat \subseteq S
    <3> HIDE DEF S
    <3> QED
      BY <2>1, <2>2, Inductive
  <2> QED
    BY <2>3
<1> QED
  BY <1>1, <1>2, <1>3

\* The rounding up of a division: so many pieces cover it, and one less do not.
LEMMA CeilDivIs ==
  ASSUME NEW s \in Nat, NEW d \in Nat \ {0}
  PROVE  /\ CeilDiv(s, d) \in Nat
         /\ s <= CeilDiv(s, d) * d
         /\ CeilDiv(s, d) = 0 \/ (CeilDiv(s, d) - 1) * d < s
         /\ \A c \in Nat : s <= c * d /\ (c = 0 \/ (c - 1) * d < s) => c = CeilDiv(s, d)
<1>1. PICK m : m = CeilDiv(s, d)
  OBVIOUS
<1>2. m \in Nat /\ s <= m * d
  BY <1>1 DEF CeilDiv
<1>3. (m - 1) * d < s
  BY <1>1 DEF CeilDiv
<1>4. ASSUME NEW a \in Nat, NEW b \in Nat, s <= a * d, b = 0 \/ (b - 1) * d < s
      PROVE  b <= a
  <2> SUFFICES ASSUME a < b
               PROVE  FALSE
    OBVIOUS
  <2>1. (b - 1) * d < s /\ b - 1 \in Nat /\ a <= b - 1
    BY <1>4
  <2>2. \A p, q \in Nat : p <= q => p * d <= q * d
    OBVIOUS
  <2>3. a * d <= (b - 1) * d /\ a * d \in Nat /\ (b - 1) * d \in Nat
    BY <2>1, <2>2
  <2> QED
    BY <1>4, <2>1, <2>3
<1>5. ASSUME NEW c \in Nat, s <= c * d, c = 0 \/ (c - 1) * d < s
      PROVE  c = m
  <2>1. c <= m
    BY <1>2, <1>4, <1>5
  <2>2. m <= c
    BY <1>2, <1>3, <1>4, <1>5
  <2> QED
    BY <1>2, <2>1, <2>2
<1> QED
  BY <1>1, <1>2, <1>3, <1>5

\* Dividing twice, as a file is cut into parts and these into chunks.
LEMMA CeilDivTwice ==
  ASSUME NEW s \in Nat, NEW d \in Nat \ {0}, NEW e \in Nat \ {0}
  PROVE  CeilDiv(s, d * e) = CeilDiv(CeilDiv(s, d), e)
<1>1. PICK m, n : m = CeilDiv(s, d) /\ n = CeilDiv(m, e)
  OBVIOUS
<1>2. m \in Nat /\ s <= m * d /\ (m = 0 \/ (m - 1) * d < s)
  BY <1>1, CeilDivIs
<1>3. n \in Nat /\ m <= n * e /\ (n = 0 \/ (n - 1) * e < m)
  BY <1>1, <1>2, CeilDivIs
<1>4. PICK f : f = d * e /\ f \in Nat \ {0}
  OBVIOUS
<1>5. \A a \in Int : (a * e) * d = a * f
  BY <1>4
<1>6. \A a, b \in Int : a <= b => a * d <= b * d
  OBVIOUS
<1>7. s <= n * f
  <2>1. m * d <= (n * e) * d /\ n * e \in Int /\ (n * e) * d \in Int /\ m * d \in Int
    BY <1>2, <1>3, <1>6
  <2>2. (n * e) * d = n * f
    BY <1>3, <1>5
  <2> QED
    BY <1>2, <2>1, <2>2
<1>8. n = 0 \/ (n - 1) * f < s
  <2> SUFFICES ASSUME n # 0
               PROVE  (n - 1) * f < s
    OBVIOUS
  <2>1. (n - 1) * e \in Nat /\ (n - 1) * e <= m - 1 /\ m # 0
    BY <1>2, <1>3
  <2>2. ((n - 1) * e) * d <= (m - 1) * d
    BY <1>2, <1>6, <2>1
  <2>3. ((n - 1) * e) * d = (n - 1) * f
    BY <1>3, <1>5
  <2>4. (m - 1) * d < s /\ (m - 1) * d \in Int /\ (n - 1) * f \in Int
    BY <1>2, <1>3, <1>4, <2>1
  <2> QED
    BY <2>2, <2>3, <2>4
<1>9. n = CeilDiv(s, f)
  BY <1>3, <1>4, <1>7, <1>8, CeilDivIs
<1> QED
  BY <1>1, <1>4, <1>9

\* The left half of a tree exists, and is neither empty nor the whole tree.
LEMMA LeftOfIs ==
  ASSUME NEW n \in Nat, n >= 2, n <= 2^Levels
  PROVE  /\ LeftOf(n) \in 1..(n - 1)
         /\ \A k \in Nat : 2^k < n /\ n <= 2 * 2^k => LeftOf(n) = 2^k
<1> Levels \in Nat
  BY TreeHashAssumption DEF TreeHashAssumption
<1>1. ASSUME NEW j \in Nat, NEW k \in Nat, 2^j < n, n <= 2 * 2^k
      PROVE  2^j <= 2^k
  <2>1. CASE j <= k
    BY <2>1, PowersAre
  <2>2. CASE k + 1 <= j
    <3>1. 2^(k + 1) <= 2^j /\ 2^(k + 1) = 2 * 2^k /\ 2^(k + 1) \in Nat /\ 2^j \in Nat
      BY <2>2, PowersAre
    <3>2. n <= 2^j
      BY <1>1, <3>1
    <3> QED
      BY <1>1, <3>1, <3>2
  <2> QED
    BY <2>1, <2>2
<1>2. \E k \in 0..Levels : 2^k < n /\ 2 * 2^k >= n
  <2> DEFINE Enough == {k \in Nat : n <= 2^k}
  <2>1. PICK least : least = SmallestOf(Enough)
    OBVIOUS
  <2>2. Levels \in Enough
    OBVIOUS
  <2>3. least \in Enough /\ \A k \in Enough : least <= k
    BY <2>1, <2>2, SmallestIs
  <2>4. least # 0
    <3>1. 2^0 = 1
      BY PowersAre
    <3>2. 0 \notin Enough
      BY <3>1
    <3> QED
      BY <2>3, <3>2
  <2>5. PICK k : k = least - 1
    OBVIOUS
  <2>6. k \in Nat /\ k + 1 = least /\ k < least /\ k \in 0..Levels
    BY <2>2, <2>3, <2>4, <2>5
  <2>7. k \notin Enough
    BY <2>3, <2>6
  <2>8. 2^k \in Nat /\ 2^(k + 1) = 2 * 2^k
    BY <2>6, PowersAre
  <2>9. n <= 2^(k + 1)
    BY <2>3, <2>6
  <2> QED
    BY <2>6, <2>7, <2>8, <2>9
<1>3. /\ LeftOf(n) \in TwoPowers
      /\ LeftOf(n) < n
      /\ 2 * LeftOf(n) >= n
  <2>1. \E m \in TwoPowers : m < n /\ 2 * m >= n
    BY <1>2 DEF TwoPowers
  <2>2. LeftOf(n) = CHOOSE m : m \in TwoPowers /\ m < n /\ 2 * m >= n
    BY DEF LeftOf
  <2> QED
    BY <2>1, <2>2, Zenon
<1>4. PICK j \in 0..Levels : LeftOf(n) = 2^j
  BY <1>3 DEF TwoPowers
<1>5. LeftOf(n) \in 1..(n - 1)
  BY <1>3, <1>4, PowersAre
<1>6. ASSUME NEW k \in Nat, 2^k < n, n <= 2 * 2^k
      PROVE  LeftOf(n) = 2^k
  <2>1. 2^k \in Nat /\ 2^j \in Nat /\ j \in Nat
    BY PowersAre
  <2>2. 2^j <= 2^k /\ 2^k <= 2^j
    BY <1>1, <1>3, <1>4, <1>6, <2>1
  <2> QED
    BY <1>4, <2>1, <2>2
<1> QED
  BY <1>5, <1>6

\* The trees are what their definition says: each is made of two smaller ones.
LEMMA TreesAre ==
  ASSUME NEW N \in Nat, N <= 2^Levels
  PROVE  \A n, f \in 1..N :
            Trees(N)[n][f] =
              IF n = 1 THEN <<f>>
              ELSE <<Trees(N)[LeftOf(n)][f], Trees(N)[n - LeftOf(n)][f + LeftOf(n)]>>
<1> DEFINE OfLength(g, n) ==
             [from \in 1..N |->
                IF n = 1 THEN <<from>>
                ELSE <<g[LeftOf(n)][from], g[n - LeftOf(n)][from + LeftOf(n)]>>]
           UpTo(g, m) == g = [n \in 1..m |-> OfLength(g, n)]
           S == {m \in Nat : m <= N => \E g : UpTo(g, m)}
<1>1. \A n \in 2..N : LeftOf(n) \in 1..(n - 1) /\ n - LeftOf(n) \in 1..(n - 1)
  <2> SUFFICES ASSUME NEW n \in 2..N
               PROVE  LeftOf(n) \in 1..(n - 1) /\ n - LeftOf(n) \in 1..(n - 1)
    OBVIOUS
  <2>1. n \in Nat /\ n >= 2 /\ n <= 2^Levels
    BY PowersAre, TreeHashAssumption DEF TreeHashAssumption
  <2>2. LeftOf(n) \in 1..(n - 1)
    BY <2>1, LeftOfIs
  <2> QED
    BY <2>2
<1>2. 0 \in S
  <2>1. \A n : n \notin 1..0
    OBVIOUS
  <2>2. UpTo([n \in 1..0 |-> {}], 0)
    BY <2>1
  <2> HIDE DEF UpTo
  <2> QED
    BY <2>2
<1>3. ASSUME NEW m \in Nat, m \in S
      PROVE  m + 1 \in S
  <2> SUFFICES ASSUME m + 1 <= N
               PROVE  \E g : UpTo(g, m + 1)
    BY DEF S
  <2>1. PICK g : UpTo(g, m)
    <3> HIDE DEF UpTo
    <3> QED
      BY <1>3
  <2> DEFINE h == [n \in 1..(m + 1) |-> IF n <= m THEN g[n] ELSE OfLength(g, n)]
  <2>2. ASSUME NEW n \in 1..(m + 1)
        PROVE  OfLength(h, n) = OfLength(g, n)
    <3>1. CASE n = 1
      BY <3>1
    <3>2. CASE n # 1
      <4>1. LeftOf(n) \in 1..m /\ n - LeftOf(n) \in 1..m
        BY <1>1, <3>2
      <4>2. h[LeftOf(n)] = g[LeftOf(n)] /\ h[n - LeftOf(n)] = g[n - LeftOf(n)]
        BY <4>1
      <4> HIDE DEF h
      <4> QED
        BY <4>2
    <3> QED
      BY <3>1, <3>2
  <2>3. ASSUME NEW n \in 1..(m + 1)
        PROVE  h[n] = OfLength(g, n)
    <3> HIDE DEF OfLength
    <3>1. CASE n <= m
      <4>1. n \in 1..m
        BY <3>1
      <4>2. g[n] = OfLength(g, n)
        BY <2>1, <4>1
      <4> QED
        BY <3>1, <4>2
    <3>2. CASE ~(n <= m)
      BY <3>2
    <3> QED
      BY <3>1, <3>2
  <2>4. UpTo(h, m + 1)
    <3> HIDE DEF OfLength
    <3>1. h = [n \in 1..(m + 1) |-> h[n]]
      OBVIOUS
    <3> HIDE DEF h
    <3>2. \A n \in 1..(m + 1) : h[n] = OfLength(h, n)
      BY <2>2, <2>3, Zenon
    <3> QED
      BY <3>1, <3>2
  <2> HIDE DEF UpTo, h
  <2> QED
    BY <2>4
<1>4. UpTo(Trees(N), N)
  <2>1. Trees(N) = CHOOSE g : UpTo(g, N)
    BY DEF Trees
  <2> HIDE DEF UpTo
  <2>2. Nat \subseteq S
    <3> HIDE DEF S
    <3> QED
      BY <1>2, <1>3, Inductive
  <2>3. \E g : UpTo(g, N)
    BY <2>2
  <2> QED
    BY <2>1, <2>3, Zenon
<1> SUFFICES ASSUME NEW n \in 1..N, NEW f \in 1..N
             PROVE  Trees(N)[n][f] =
                      IF n = 1 THEN <<f>>
                      ELSE <<Trees(N)[LeftOf(n)][f], Trees(N)[n - LeftOf(n)][f + LeftOf(n)]>>
  OBVIOUS
<1> PICK t : t = Trees(N)
  OBVIOUS
<1>5. t[n] = OfLength(t, n)
  <2> HIDE DEF OfLength
  <2> QED
    BY <1>4
<1>6. t[n][f] = IF n = 1 THEN <<f>> ELSE <<t[LeftOf(n)][f], t[n - LeftOf(n)][f + LeftOf(n)]>>
  BY <1>5
<1> QED
  BY <1>6

\* The turns of tree_hash are what their definition says.
LEMMA TurnsAre ==
  ASSUME NEW h, Len(h) \in Nat
  PROVE  /\ Turns(h)[0] = h
         /\ \A n \in 1..Len(h) : Turns(h)[n] = NewHashes(Turns(h)[n - 1])
<1> DEFINE After(g, n) == IF n = 0 THEN h ELSE NewHashes(g[n - 1])
           UpTo(g, m) == g = [n \in 0..m |-> After(g, n)]
           S == {m \in Nat : \E g : UpTo(g, m)}
<1>1. 0 \in S
  <2> DEFINE g == [n \in 0..0 |-> h]
  <2>1. \A n \in 0..0 : n = 0 /\ g[n] = h
    OBVIOUS
  <2>2. \A n \in 0..0 : g[n] = After(g, n)
    BY <2>1, Zenon
  <2>3. g = [n \in 0..0 |-> g[n]]
    OBVIOUS
  <2> HIDE DEF g, After
  <2>4. UpTo(g, 0)
    BY <2>2, <2>3
  <2> HIDE DEF UpTo
  <2> QED
    BY <2>4
<1>2. ASSUME NEW m \in Nat, m \in S
      PROVE  m + 1 \in S
  <2>1. PICK g : UpTo(g, m)
    <3> HIDE DEF UpTo
    <3> QED
      BY <1>2
  <2> DEFINE k == [n \in 0..(m + 1) |-> IF n <= m THEN g[n] ELSE NewHashes(g[m])]
  <2>2. ASSUME NEW n \in 0..(m + 1)
        PROVE  k[n] = After(k, n)
    <3>1. CASE n = 0
      <4>1. g[0] = h /\ k[0] = g[0]
        BY <2>1
      <4> QED
        BY <3>1, <4>1
    <3>2. CASE n \in 1..m
      <4>1. g[n] = NewHashes(g[n - 1])
        <5>1. n \in 0..m /\ n # 0
          BY <3>2
        <5>2. g[n] = After(g, n)
          <6> HIDE DEF After
          <6> QED
            BY <2>1, <5>1
        <5> QED
          BY <5>1, <5>2
      <4>2. k[n] = g[n] /\ k[n - 1] = g[n - 1]
        BY <3>2
      <4> QED
        BY <3>2, <4>1, <4>2
    <3>3. CASE n = m + 1
      <4>1. k[n] = NewHashes(g[m]) /\ k[n - 1] = g[m] /\ n # 0
        BY <3>3
      <4> QED
        BY <4>1
    <3> QED
      BY <3>1, <3>2, <3>3
  <2>3. k = [n \in 0..(m + 1) |-> k[n]]
    OBVIOUS
  <2> HIDE DEF k, After
  <2>4. UpTo(k, m + 1)
    BY <2>2, <2>3
  <2> HIDE DEF UpTo
  <2> QED
    BY <2>4
<1>3. UpTo(Turns(h), Len(h))
  <2>1. Turns(h) = CHOOSE g : UpTo(g, Len(h))
    BY DEF Turns
  <2> HIDE DEF UpTo
  <2>2. Nat \subseteq S
    <3> HIDE DEF S
    <3> QED
      BY <1>1, <1>2, Inductive
  <2>3. \E g : UpTo(g, Len(h))
    BY <2>2
  <2> QED
    BY <2>1, <2>3, Zenon
<1>4. PICK t : t = Turns(h)
  OBVIOUS
<1>5. \A n \in 0..Len(h) : t[n] = After(t, n)
  <2> HIDE DEF After
  <2> QED
    BY <1>3, <1>4
<1>6. t[0] = h
  BY <1>5
<1>7. \A n \in 1..Len(h) : n \in 0..Len(h) /\ n # 0
  OBVIOUS
<1>8. \A n \in 1..Len(h) : t[n] = NewHashes(t[n - 1])
  BY <1>5, <1>7, Zenon
<1> QED
  BY <1>4, <1>6, <1>8, Zenon

\* A row of trees over the n chunks from f on, each of q chunks but the last.
Width(q, n, i) == IF i * q <= n THEN q ELSE n - (i - 1) * q

RowOf(N, q, f, n) == [i \in 1..CeilDiv(n, q) |-> Trees(N)[Width(q, n, i)][f + (i - 1) * q]]

\* Every tree of a row lies within it, and all but the last are full.
LEMMA WidthIs ==
  ASSUME NEW n \in Nat \ {0}, NEW q \in Nat \ {0}, NEW i \in 1..CeilDiv(n, q)
  PROVE  /\ (i - 1) * q \in Nat
         /\ Width(q, n, i) \in 1..q
         /\ (i - 1) * q + Width(q, n, i) <= n
         /\ i < CeilDiv(n, q) => Width(q, n, i) = q
         /\ i = CeilDiv(n, q) => Width(q, n, i) = n - (i - 1) * q
<1>1. PICK c : c = CeilDiv(n, q)
  OBVIOUS
<1>2. c \in Nat /\ n <= c * q /\ (c = 0 \/ (c - 1) * q < n) /\ i \in 1..c
  BY <1>1, CeilDivIs
<1>3. \A a, b \in Nat : a <= b => a * q <= b * q
  OBVIOUS
<1>4. /\ i * q \in Nat /\ (i - 1) * q \in Nat /\ i * q = (i - 1) * q + q
      /\ c * q \in Nat /\ (c - 1) * q \in Nat /\ c * q = (c - 1) * q + q
  <2>1. \A a \in Nat \ {0} : a * q \in Nat /\ (a - 1) * q \in Nat /\ a * q = (a - 1) * q + q
    OBVIOUS
  <2>2. i \in Nat \ {0} /\ c \in Nat \ {0}
    BY <1>2
  <2> QED
    BY <2>1, <2>2
<1>5. PICK a, b : a = (i - 1) * q /\ b = (c - 1) * q
  OBVIOUS
<1>6. CASE i < c
  <2>1. i * q <= b
    BY <1>2, <1>3, <1>5, <1>6
  <2>2. i * q <= n /\ a + q <= n
    BY <1>2, <1>4, <1>5, <2>1
  <2>3. Width(q, n, i) = q
    BY <2>2 DEF Width
  <2> QED
    BY <1>1, <1>4, <1>5, <1>6, <2>2, <2>3
<1>7. CASE i = c
  <2>1. a = b /\ a < n /\ n <= a + q /\ a \in Nat /\ i * q = a + q
    BY <1>2, <1>4, <1>5, <1>7
  <2>2. Width(q, n, i) = n - a
    <3>1. Width(q, n, i) = IF i * q <= n THEN q ELSE n - a
      BY <1>5 DEF Width
    <3> QED
      BY <2>1, <3>1
  <2>3. n - a \in 1..q /\ a + (n - a) <= n
    BY <2>1
  <2> QED
    BY <1>1, <1>5, <1>7, <2>1, <2>2, <2>3
<1> QED
  BY <1>2, <1>6, <1>7

\* One turn pairs the trees of a row, and its last stays if it has no partner.
LEMMA NewHashesOfRow ==
  ASSUME NEW N \in Nat, N <= 2^Levels,
         NEW f \in 1..N, NEW n \in 1..N, f + n <= N + 1, NEW j \in Nat
  PROVE  NewHashes(RowOf(N, 2^j, f, n)) = RowOf(N, 2^(j + 1), f, n)
<1>1. PICK q : q = 2^j
  OBVIOUS
<1>2. PICK d : d = 2^(j + 1)
  OBVIOUS
<1>3. q \in Nat \ {0} /\ d = 2 * q /\ d \in Nat \ {0}
  BY <1>1, <1>2, PowersAre
<1>4. PICK c : c = CeilDiv(n, q)
  OBVIOUS
<1>5. c \in Nat /\ n <= c * q /\ (c = 0 \/ (c - 1) * q < n) /\ c # 0
  <2>1. c \in Nat /\ n <= c * q /\ (c = 0 \/ (c - 1) * q < n)
    BY <1>3, <1>4, CeilDivIs
  <2>2. 0 * q = 0 /\ ~(n <= 0)
    BY <1>3
  <2> QED
    BY <2>1, <2>2
<1>6. PICK m : m = Half(c)
  OBVIOUS
<1>7. m \in Nat /\ (c = 2 * m \/ c = 2 * m - 1) /\ m >= 1
  BY <1>5, <1>6 DEF Half
<1>8. m = CeilDiv(n, d)
  <2>1. \A a \in Int : (2 * a) * q = a * d
    BY <1>3
  <2>2. \A a, b \in Int : a <= b => a * q <= b * q
    BY <1>3
  <2>3. n <= m * d
    <3>1. c * q <= (2 * m) * q
      BY <1>5, <1>7, <2>2
    <3>2. (2 * m) * q = m * d /\ c * q \in Int /\ m * d \in Int
      BY <1>3, <1>5, <1>7, <2>1
    <3> QED
      BY <1>5, <3>1, <3>2
  <2>4. (m - 1) * d < n
    <3>1. 2 * (m - 1) <= c - 1
      BY <1>7
    <3>2. (2 * (m - 1)) * q <= (c - 1) * q
      BY <1>5, <1>7, <2>2, <3>1
    <3>3. (2 * (m - 1)) * q = (m - 1) * d /\ (c - 1) * q \in Int /\ (m - 1) * d \in Int
      BY <1>3, <1>5, <1>7, <2>1
    <3> QED
      BY <1>5, <3>2, <3>3
  <2> QED
    BY <1>3, <1>7, <2>3, <2>4, CeilDivIs
<1>9. PICK row : row = RowOf(N, q, f, n)
  OBVIOUS
<1>10. Len(row) = c
  <2>1. row = [i \in 1..c |-> Trees(N)[Width(q, n, i)][f + (i - 1) * q]]
    BY <1>4, <1>9 DEF RowOf
  <2> QED
    BY <1>5, <2>1
<1>11. \A i \in 1..c : row[i] = Trees(N)[Width(q, n, i)][f + (i - 1) * q]
  BY <1>4, <1>9 DEF RowOf
<1>12. ASSUME NEW k \in 1..m
       PROVE  (IF 2 * k <= c THEN <<row[2 * k - 1], row[2 * k]>> ELSE row[2 * k - 1])
                = Trees(N)[Width(d, n, k)][f + (k - 1) * d]
  <2>1. PICK g : g = f + (k - 1) * d
    OBVIOUS
  <2>2. k \in 1..CeilDiv(n, d)
    BY <1>8
  <2>3. /\ (k - 1) * d \in Nat
        /\ Width(d, n, k) \in 1..d
        /\ (k - 1) * d + Width(d, n, k) <= n
        /\ k = m => Width(d, n, k) = n - (k - 1) * d
    BY <1>3, <1>8, <2>2, WidthIs
  <2>4. ((2 * k - 1) - 1) * q = (k - 1) * d
    BY <1>3
  <2>5. CASE 2 * k <= c
    <3>1. (2 * k - 1) * q = (k - 1) * d + q /\ (2 * k) * q = k * d /\ k * d = (k - 1) * d + d
      BY <1>3
    <3>2. PICK w : w = Width(q, n, 2 * k)
      OBVIOUS
    <3>3. /\ 2 * k - 1 \in 1..CeilDiv(n, q) /\ 2 * k - 1 < CeilDiv(n, q)
          /\ 2 * k \in 1..CeilDiv(n, q)
      BY <1>4, <1>5, <2>5
    <3>4. Width(q, n, 2 * k - 1) = q
      BY <1>3, <3>3, WidthIs
    <3>5. w \in 1..q /\ (2 * k - 1) * q + w <= n
      BY <1>3, <3>2, <3>3, WidthIs
    <3>6. Width(d, n, k) = q + w
      <4>1. PICK a, b : a = (k - 1) * d /\ b = k * d
        OBVIOUS
      <4>2. a \in Nat /\ b = a + d /\ (2 * k) * q = b /\ (2 * k - 1) * q = a + q
        BY <2>3, <3>1, <4>1
      <4>3. w = IF b <= n THEN q ELSE n - (a + q)
        BY <3>2, <4>2 DEF Width
      <4>4. Width(d, n, k) = IF b <= n THEN d ELSE n - a
        BY <4>1 DEF Width
      <4> QED
        BY <1>3, <4>2, <4>3, <4>4
    <3>7. row[2 * k - 1] = Trees(N)[q][g]
      <4>1. row[2 * k - 1] = Trees(N)[Width(q, n, 2 * k - 1)][f + ((2 * k - 1) - 1) * q]
        BY <1>4, <1>11, <3>3
      <4> QED
        BY <2>1, <2>4, <3>4, <4>1
    <3>8. row[2 * k] = Trees(N)[w][g + q]
      <4>1. row[2 * k] = Trees(N)[w][f + (2 * k - 1) * q]
        BY <1>4, <1>11, <3>2, <3>3
      <4>2. f + (2 * k - 1) * q = g + q
        BY <1>3, <2>1, <2>3, <3>1
      <4> QED
        BY <4>1, <4>2
    <3>9. Trees(N)[q + w][g] = <<Trees(N)[q][g], Trees(N)[w][g + q]>>
      <4>1. q + w \in 1..N /\ g \in 1..N /\ q + w >= 2 /\ q < q + w /\ q + w <= 2 * q
        BY <1>3, <2>1, <2>3, <3>5, <3>6
      <4>2. q + w \in Nat /\ q + w <= 2^Levels
        BY <4>1, PowersAre, TreeHashAssumption DEF TreeHashAssumption
      <4>3. LeftOf(q + w) = q
        BY <1>1, <4>1, <4>2, LeftOfIs
      <4>4. (q + w) - q = w /\ q + w # 1
        BY <1>3, <3>5, <4>1
      <4>5. Trees(N)[q + w][g] =
              IF q + w = 1 THEN <<g>>
              ELSE <<Trees(N)[LeftOf(q + w)][g],
                     Trees(N)[(q + w) - LeftOf(q + w)][g + LeftOf(q + w)]>>
        BY <4>1, TreesAre
      <4> QED
        BY <4>3, <4>4, <4>5
    <3> QED
      BY <2>1, <2>5, <3>6, <3>7, <3>8, <3>9
  <2>6. CASE ~(2 * k <= c)
    <3>1. 2 * k - 1 = c /\ k = m
      BY <1>5, <1>7, <2>6
    <3>2. c \in 1..CeilDiv(n, q)
      BY <1>4, <1>5
    <3>3. Width(q, n, c) = n - (c - 1) * q
      <4>1. \A i \in 1..CeilDiv(n, q) :
              i = CeilDiv(n, q) => Width(q, n, i) = n - (i - 1) * q
        <5>1. n \in Nat \ {0}
          OBVIOUS
        <5> QED
          BY <1>3, <5>1, WidthIs, Zenon
      <4> QED
        BY <1>4, <3>2, <4>1, Zenon
    <3>4. (c - 1) * q = (k - 1) * d
      BY <2>4, <3>1
    <3>5. Width(q, n, c) = Width(d, n, k)
      BY <2>3, <3>1, <3>3, <3>4
    <3>6. row[c] = Trees(N)[Width(q, n, c)][f + (c - 1) * q]
      BY <1>4, <1>11, <3>2
    <3> QED
      BY <2>6, <3>1, <3>4, <3>5, <3>6
  <2> QED
    BY <2>5, <2>6
<1>13. NewHashes(row) = [k \in 1..m |->
                IF 2 * k <= c THEN <<row[2 * k - 1], row[2 * k]>> ELSE row[2 * k - 1]]
  BY <1>6, <1>10 DEF NewHashes
<1>14. RowOf(N, d, f, n) = [k \in 1..m |-> Trees(N)[Width(d, n, k)][f + (k - 1) * d]]
  BY <1>8 DEF RowOf
<1>15. NewHashes(row) = RowOf(N, d, f, n)
  BY <1>12, <1>13, <1>14
<1> QED
  BY <1>1, <1>2, <1>9, <1>15

\* A row has one tree when that is of all its chunks.
LEMMA RowLength ==
  ASSUME NEW N \in Nat, NEW q \in Nat \ {0}, NEW f \in 1..N, NEW n \in 1..N
  PROVE  /\ CeilDiv(n, q) \in Nat \ {0}
         /\ Len(RowOf(N, q, f, n)) = CeilDiv(n, q)
         /\ CeilDiv(n, q) = 1 <=> n <= q
<1>1. PICK c : c = CeilDiv(n, q)
  OBVIOUS
<1>2. c \in Nat /\ n <= c * q /\ (c = 0 \/ (c - 1) * q < n)
  BY <1>1, CeilDivIs
<1>3. 0 * q = 0 /\ ~(n <= 0) /\ 1 * q = q
  OBVIOUS
<1>4. c \in Nat \ {0}
  BY <1>2, <1>3
<1>5. Len(RowOf(N, q, f, n)) = c
  BY <1>1, <1>2 DEF RowOf
<1>6. ASSUME n <= q
      PROVE  c = 1
  <2>1. n <= 1 * q /\ (1 - 1) * q < n
    BY <1>3, <1>6
  <2> QED
    BY <1>1, <2>1, CeilDivIs
<1>7. ASSUME c = 1
      PROVE  n <= q
  BY <1>2, <1>3, <1>7
<1> QED
  BY <1>1, <1>4, <1>5, <1>6, <1>7

\* tree_hash of a row is the tree over its chunks.
LEMMA TreeHashOfRow ==
  ASSUME NEW N \in Nat, N <= 2^Levels,
         NEW f \in 1..N, NEW n \in 1..N, f + n <= N + 1, NEW j \in Nat
  PROVE  TreeHash(RowOf(N, 2^j, f, n)) = Trees(N)[n][f]
<1>1. PICK h : h = RowOf(N, 2^j, f, n)
  OBVIOUS
<1>2. PICK c : c = Len(h)
  OBVIOUS
<1>3. c \in Nat \ {0} /\ c = CeilDiv(n, 2^j)
  BY <1>1, <1>2, RowLength, PowersAre
<1>4. ASSUME NEW k \in Nat
      PROVE  Len(RowOf(N, 2^(j + k), f, n)) = 1 <=> n <= 2^(j + k)
  <2>1. PICK d : d = 2^(j + k)
    OBVIOUS
  <2>2. d \in Nat \ {0}
    BY <2>1, PowersAre
  <2>3. Len(RowOf(N, d, f, n)) = CeilDiv(n, d) /\ (CeilDiv(n, d) = 1 <=> n <= d)
    BY <2>2, RowLength
  <2> QED
    BY <2>1, <2>3
<1>5. \A k \in 0..c : Turns(h)[k] = RowOf(N, 2^(j + k), f, n)
  <2> DEFINE S == {k \in Nat : k <= c => Turns(h)[k] = RowOf(N, 2^(j + k), f, n)}
  <2>1. Turns(h)[0] = h /\ \A k \in 1..c : Turns(h)[k] = NewHashes(Turns(h)[k - 1])
    BY <1>2, <1>3, TurnsAre
  <2>2. 0 \in S
    <3>1. j + 0 = j
      OBVIOUS
    <3> QED
      BY <1>1, <2>1, <3>1
  <2>3. ASSUME NEW k \in Nat, k \in S
        PROVE  k + 1 \in S
    <3> SUFFICES ASSUME k + 1 <= c
                 PROVE  Turns(h)[k + 1] = RowOf(N, 2^(j + (k + 1)), f, n)
      OBVIOUS
    <3>1. Turns(h)[k] = RowOf(N, 2^(j + k), f, n)
      BY <1>3, <2>3
    <3>2. k + 1 \in 1..c /\ (k + 1) - 1 = k /\ j + (k + 1) = (j + k) + 1 /\ j + k \in Nat
      BY <1>3
    <3>3. Turns(h)[k + 1] = NewHashes(RowOf(N, 2^(j + k), f, n))
      <4>1. Turns(h)[k + 1] = NewHashes(Turns(h)[(k + 1) - 1])
        BY <2>1, <3>2
      <4> QED
        BY <3>1, <3>2, <4>1
    <3>4. NewHashes(RowOf(N, 2^(j + k), f, n)) = RowOf(N, 2^((j + k) + 1), f, n)
      BY <3>2, NewHashesOfRow
    <3> QED
      BY <3>2, <3>3, <3>4
  <2>4. Nat \subseteq S
    <3> HIDE DEF S
    <3> QED
      BY <2>2, <2>3, Inductive
  <2> QED
    BY <1>3, <2>4
<1>6. n <= 2^(j + c)
  <2> DEFINE S == {k \in Nat : k * 2^j <= 2^(j + k)}
  <2>1. PICK q : q = 2^j /\ q \in Nat \ {0}
    BY PowersAre
  <2>2. 0 \in S
    <3>1. j + 0 = j /\ 0 * q = 0
      BY <2>1
    <3> QED
      BY <2>1, <3>1
  <2>3. ASSUME NEW k \in Nat, k \in S
        PROVE  k + 1 \in S
    <3>1. PICK a : a = 2^(j + k)
      OBVIOUS
    <3>2. /\ a \in Nat /\ k * q <= a /\ q <= a
          /\ 2^((j + k) + 1) = 2 * a /\ j + (k + 1) = (j + k) + 1
      BY <2>1, <2>3, <3>1, PowersAre
    <3>3. (k + 1) * q = k * q + q /\ k * q \in Nat
      BY <2>1
    <3>4. (k + 1) * q <= 2^(j + (k + 1))
      BY <2>1, <3>2, <3>3
    <3> QED
      BY <2>1, <3>4
  <2>4. c * q <= 2^(j + c)
    <3> HIDE DEF S
    <3>1. Nat \subseteq S
      BY <2>2, <2>3, Inductive
    <3>2. c \in S
      BY <1>3, <3>1
    <3> USE DEF S
    <3> QED
      BY <2>1, <3>2
  <2>5. n <= c * q /\ c * q \in Nat /\ 2^(j + c) \in Nat
    <3>1. c = CeilDiv(n, q) /\ n \in Nat
      BY <1>3, <2>1
    <3>2. n <= c * q
      BY <2>1, <3>1, CeilDivIs
    <3>3. j + c \in Nat /\ c * q \in Nat
      BY <1>3, <2>1
    <3> QED
      BY <3>2, <3>3, PowersAre
  <2> QED
    BY <2>4, <2>5
<1>7. \E k \in 0..c : Len(Turns(h)[k]) = 1
  <2>1. c \in 0..c /\ c \in Nat
    BY <1>3
  <2> QED
    BY <1>4, <1>5, <1>6, <2>1
<1>8. PICK k : k = CHOOSE i \in 0..c : Len(Turns(h)[i]) = 1
  OBVIOUS
<1>9. k \in 0..c /\ Len(Turns(h)[k]) = 1
  BY <1>7, <1>8
<1>10. PICK d : d = 2^(j + k) /\ d \in Nat \ {0}
  BY <1>3, <1>9, PowersAre
<1>11. Turns(h)[k] = RowOf(N, d, f, n) /\ n <= d
  BY <1>3, <1>4, <1>5, <1>9, <1>10
<1>12. RowOf(N, d, f, n)[1] = Trees(N)[n][f]
  <2>1. CeilDiv(n, d) = 1
    BY <1>10, <1>11, RowLength
  <2>2. 1 * d = d /\ (1 - 1) * d = 0
    BY <1>10
  <2>3. Width(d, n, 1) = n
    BY <1>10, <1>11, <2>2 DEF Width
  <2>4. RowOf(N, d, f, n)[1] = Trees(N)[Width(d, n, 1)][f + (1 - 1) * d]
    BY <2>1 DEF RowOf
  <2>5. f + 0 = f
    OBVIOUS
  <2> QED
    BY <2>2, <2>3, <2>4, <2>5
<1>13. TreeHash(h) = Turns(h)[k][1]
  BY <1>2, <1>8 DEF TreeHash
<1> QED
  BY <1>1, <1>11, <1>12, <1>13

\* The hashes of chunks are a row of trees of one chunk.
LEMMA ChunkHashesAre ==
  ASSUME NEW N \in Nat, N <= 2^Levels, NEW f \in 1..N, NEW to \in f..N
  PROVE  ChunkHashes(f, to) = RowOf(N, 2^0, f, to - f + 1)
<1>1. PICK n : n = to - f + 1
  OBVIOUS
<1>2. n \in Nat \ {0} /\ 2^0 = 1
  BY <1>1, PowersAre
<1>3. n = CeilDiv(n, 1)
  BY <1>2 DEF CeilDiv
<1>4. ASSUME NEW k \in 1..n
      PROVE  Trees(N)[Width(1, n, k)][f + (k - 1) * 1] = <<f + k - 1>>
  <2>1. k * 1 = k /\ (k - 1) * 1 = k - 1
    OBVIOUS
  <2>2. Width(1, n, k) = 1
    BY <1>2, <2>1 DEF Width
  <2>3. f + (k - 1) * 1 = f + k - 1 /\ f + k - 1 \in 1..N /\ 1 \in 1..N
    BY <1>1, <2>1
  <2>4. Trees(N)[1][f + k - 1] = <<f + k - 1>>
    BY <2>3, TreesAre
  <2> QED
    BY <2>2, <2>3, <2>4
<1>5. ChunkHashes(f, to) = [k \in 1..n |-> <<f + k - 1>>]
  BY <1>1 DEF ChunkHashes
<1>6. RowOf(N, 1, f, n) = [k \in 1..n |-> Trees(N)[Width(1, n, k)][f + (k - 1) * 1]]
  BY <1>3 DEF RowOf
<1>7. RowOf(N, 1, f, n) = [k \in 1..n |-> <<f + k - 1>>]
  BY <1>4, <1>6
<1> QED
  BY <1>1, <1>2, <1>5, <1>7

\* A transfer's part size is a power of two megabytes, with either division.
LEMMA PartSizeIsPower ==
  ASSUME FileInit, ~TooLarge(size_in_bytes, Default)
  PROVE  \E j \in Nat : part_size = Megabyte * 2^j
<1>1. size_in_bytes \in Nat /\ default_part_size \in Powers(0) /\ Default \in Nat \ {0}
  BY PartSizeAssumption DEF FileInit, Default, PartSizeAssumption
<1>2. \A a \in Nat : \A p \in Powers(a) : \E j \in Nat : p = Megabyte * 2^j
  <2> SUFFICES ASSUME NEW a \in Nat, NEW p \in Powers(a)
               PROVE  \E j \in Nat : p = Megabyte * 2^j
    OBVIOUS
  <2>1. PICK j \in a..LargestPower : p = Megabyte * 2^j
    BY DEF Powers
  <2>2. j \in Nat
    BY PartSizeAssumption DEF PartSizeAssumption
  <2> QED
    BY <2>1, <2>2
<1>3. \E j \in Nat : Default = Megabyte * 2^j
  <2>1. 2^0 = 1 /\ 2^(0 + 1) = 2 * 2^0 /\ 2^(1 + 1) = 2 * 2^1
    BY PowersAre
  <2>2. 0 + 1 = 1 /\ 1 + 1 = 2
    OBVIOUS
  <2>3. 2^2 = 4
    BY <2>1, <2>2
  <2>4. Default = Megabyte * 2^2
    BY <2>3, PartSizeAssumption DEF Default, PartSizeAssumption
  <2> QED
    BY <2>4
<1>4. PICK m : m = MinimumPartSize(size_in_bytes, Default)
  OBVIOUS
<1>5. \E j \in Nat : m = Megabyte * 2^j
  <2>1. CASE Default * MAXIMUM_NUMBER_OF_PARTS >= size_in_bytes
    BY <1>3, <1>4, <2>1 DEF MinimumPartSize
  <2>2. CASE ~(Default * MAXIMUM_NUMBER_OF_PARTS >= size_in_bytes)
    <3>1. m \in LoopSizes
      BY <1>1, <1>4, <2>2, MinimumIs
    <3>2. CASE m = Megabyte
      <4>1. m = Megabyte * 2^0
        BY <3>2, PowersAre, PartSizeAssumption DEF PartSizeAssumption
      <4> QED
        BY <4>1
    <3>3. CASE m \in Powers(3)
      BY <1>2, <3>3
    <3> QED
      BY <3>1, <3>2, <3>3 DEF LoopSizes
  <2> QED
    BY <2>1, <2>2
<1>6. part_size \in {m, default_part_size}
  BY <1>4 DEF part_size, RequiredPartSize
<1> QED
  BY <1>1, <1>2, <1>5, <1>6

\* So the parts of a file are of a power of two chunks, but for the last.
LEMMA PartsAreRows ==
  ASSUME FileInit, ~TooLarge(size_in_bytes, Default)
  PROVE  /\ ChunkCount \in Nat
         /\ ChunkCount <= 2^Levels
         /\ PartCount = CeilDiv(ChunkCount, ChunksInPart)
         /\ \E j \in Nat : ChunksInPart = 2^j
<1>1. size_in_bytes \in Nat /\ size_in_bytes <= MaxSize /\ Megabyte \in Nat \ {0}
  BY PartSizeAssumption DEF FileInit, PartSizeAssumption
<1>2. ChunkCount \in Nat
  BY <1>1, CeilDivIs DEF ChunkCount
<1>3. ChunkCount <= 2^Levels
  <2>1. PICK b : b = 2^Levels /\ b \in Nat
    BY PowersAre, TreeHashAssumption DEF TreeHashAssumption
  <2>2. size_in_bytes <= Megabyte * b
    <3>1. MaxSize <= Megabyte * b /\ Megabyte * b \in Nat /\ MaxSize \in Nat
      BY <1>1, <2>1, PartSizeAssumption, TreeHashAssumption
         DEF PartSizeAssumption, TreeHashAssumption
    <3> QED
      BY <1>1, <3>1
  <2>3. CeilDiv(size_in_bytes, Megabyte) <= b
    BY <1>1, <2>1, <2>2, CeilDivFits
  <2> QED
    BY <2>1, <2>3 DEF ChunkCount
<1>4. PICK j \in Nat : part_size = Megabyte * 2^j
  BY PartSizeIsPower
<1>5. PICK q : q = 2^j /\ q \in Nat \ {0}
  BY PowersAre
<1>6. ChunksInPart = q
  <2>1. (Megabyte * q) \div Megabyte = q
    BY <1>1, <1>5
  <2> QED
    BY <1>4, <1>5, <2>1 DEF ChunksInPart
<1>7. PartCount = CeilDiv(ChunkCount, q)
  <2>1. PartCount = CeilDiv(size_in_bytes, Megabyte * q)
    BY <1>4, <1>5 DEF PartCount, TotalParts
  <2> QED
    BY <1>1, <1>5, <2>1, CeilDivTwice DEF ChunkCount
<1> QED
  BY <1>2, <1>3, <1>5, <1>6, <1>7

\* All the parts' hashes.
PartTrees == RowOf(ChunkCount, ChunksInPart, 1, ChunkCount)

\* The parts' hashes are that row, and tree_hash of them the tree of the archive.
LEMMA PartTreesAre ==
  ASSUME FileInit, ~TooLarge(size_in_bytes, Default)
  PROVE  /\ PartCount \in Nat
         /\ \A p \in 1..PartCount :
               TreeHash(ChunkHashes((p - 1) * ChunksInPart + 1, LastOf(p))) = PartTrees[p]
         /\ PartCount > 0 =>
               /\ PartTrees = [p \in 1..PartCount |-> PartTrees[p]]
               /\ TreeHash(PartTrees) = Trees(ChunkCount)[ChunkCount][1]
<1>1. PICK N : N = ChunkCount
  OBVIOUS
<1>2. PICK j \in Nat : ChunksInPart = 2^j
  BY PartsAreRows
<1>3. PICK q : q = 2^j /\ q \in Nat \ {0}
  BY PowersAre
<1>4. N \in Nat /\ N <= 2^Levels /\ ChunksInPart = q /\ PartCount = CeilDiv(N, q)
  BY <1>1, <1>2, <1>3, PartsAreRows
<1>5. PartCount \in Nat
  BY <1>3, <1>4, CeilDivIs
<1>6. PartTrees = [p \in 1..PartCount |-> Trees(N)[Width(q, N, p)][1 + (p - 1) * q]]
  BY <1>1, <1>4 DEF PartTrees, RowOf
<1>7. PartCount > 0 => N \in 1..N
  <2>1. CeilDiv(0, q) = 0
    <3>1. 0 <= 0 * q
      BY <1>3
    <3> QED
      BY <1>3, <3>1, CeilDivIs
  <2> QED
    BY <1>4, <2>1
<1>8. ASSUME NEW p \in 1..PartCount
      PROVE  TreeHash(ChunkHashes((p - 1) * ChunksInPart + 1, LastOf(p))) = PartTrees[p]
  <2>1. N \in Nat \ {0} /\ p \in 1..CeilDiv(N, q)
    BY <1>4, <1>5, <1>7
  <2>2. PICK w, f : w = Width(q, N, p) /\ f = (p - 1) * q + 1
    OBVIOUS
  <2>3. (p - 1) * q \in Nat /\ w \in 1..q /\ (p - 1) * q + w <= N
    BY <1>3, <2>1, <2>2, WidthIs
  <2>4. f \in 1..N /\ w \in 1..N /\ f + w <= N + 1 /\ f + w - 1 \in f..N
    BY <1>4, <2>2, <2>3
  <2>5. LastOf(p) = f + w - 1
    <3>1. p * q = (p - 1) * q + q
      BY <1>3
    <3>2. w = IF p * q <= N THEN q ELSE N - (p - 1) * q
      BY <2>2 DEF Width
    <3>3. LastOf(p) = IF p * q < N THEN p * q ELSE N
      BY <1>1, <1>4 DEF LastOf
    <3>4. PICK a : a = (p - 1) * q
      OBVIOUS
    <3>5. /\ a \in Nat /\ p * q = a + q /\ f = a + 1
          /\ w = (IF a + q <= N THEN q ELSE N - a)
          /\ LastOf(p) = (IF a + q < N THEN a + q ELSE N)
      BY <2>2, <2>3, <3>1, <3>2, <3>3, <3>4
    <3> QED
      BY <1>3, <1>4, <3>5
  <2>6. ChunkHashes(f, f + w - 1) = RowOf(N, 2^0, f, w)
    <3>1. (f + w - 1) - f + 1 = w
      BY <2>3, <2>4
    <3> QED
      BY <1>4, <2>4, <3>1, ChunkHashesAre
  <2>7. TreeHash(RowOf(N, 2^0, f, w)) = Trees(N)[w][f]
    BY <1>4, <2>4, TreeHashOfRow
  <2>8. PartTrees[p] = Trees(N)[w][1 + (p - 1) * q]
    BY <1>6, <2>2
  <2>9. f = 1 + (p - 1) * q
    BY <2>2, <2>3
  <2> QED
    BY <1>4, <2>2, <2>5, <2>6, <2>7, <2>8, <2>9
<1>9. ASSUME PartCount > 0
      PROVE  /\ PartTrees = [p \in 1..PartCount |-> PartTrees[p]]
             /\ TreeHash(PartTrees) = Trees(ChunkCount)[ChunkCount][1]
  <2>1. PartTrees = [p \in 1..PartCount |-> PartTrees[p]]
    BY <1>6
  <2>2. 1 \in 1..N /\ N \in 1..N /\ 1 + N <= N + 1
    BY <1>4, <1>7, <1>9
  <2>3. TreeHash(RowOf(N, 2^j, 1, N)) = Trees(N)[N][1]
    BY <1>4, <2>2, TreeHashOfRow
  <2> QED
    BY <1>1, <1>3, <1>4, <2>1, <2>3 DEF PartTrees
<1> QED
  BY <1>5, <1>8, <1>9

\* Strengthens PartsHashAsTheArchive: the hashes are those of the first parts.
HashInv ==
    /\ part # "hash" => total = <<>>
    /\ part = "hash" =>
         /\ FileInit
         /\ hashes # <<>> => ~TooLarge(size_in_bytes, Default)
         /\ \E m \in Nat :
              /\ hashes = [p \in 1..m |-> PartTrees[p]]
              /\ m > 0 => m <= PartCount
         /\ total # <<>> => total = Trees(ChunkCount)[ChunkCount][1]

LEMMA NextHashInv == HashInv /\ [Next]_vars => HashInv'
<1> SUFFICES ASSUME HashInv, [Next]_vars
             PROVE  HashInv'
  OBVIOUS
<1>1. ASSUME UNCHANGED <<part, fileVars>>
      PROVE  /\ FileInit' = FileInit
             /\ TooLarge(size_in_bytes, Default)' = TooLarge(size_in_bytes, Default)
             /\ PartTrees' = PartTrees /\ PartCount' = PartCount /\ ChunkCount' = ChunkCount
  BY <1>1 DEF fileVars, FileInit, TooLarge, PartTrees, PartCount, ChunkCount, ChunksInPart,
              part_size, TotalParts, RequiredPartSize, MinimumPartSize, RowOf, Below
<1>2. ASSUME UNCHANGED <<part, treeHashVars>>
      PROVE  HashInv'
  BY <1>1, <1>2 DEF HashInv, treeHashVars
<1>3. CASE part = "hash" /\ HashPart /\ UNCHANGED part
  <2>1. /\ FileInit /\ ~TooLarge(size_in_bytes, Default)
        /\ UNCHANGED <<part, fileVars>> /\ total' = total
        /\ Len(hashes) < PartCount
        /\ hashes' = Append(hashes, TreeHash(ChunkHashes(((Len(hashes) + 1) - 1) * ChunksInPart + 1,
                                                        LastOf(Len(hashes) + 1))))
    BY <1>3 DEF HashInv, HashPart
  <2>2. PICK m \in Nat : hashes = [p \in 1..m |-> PartTrees[p]] /\ (m > 0 => m <= PartCount)
    BY <1>3 DEF HashInv
  <2>3. Len(hashes) = m
    BY <2>2
  <2>4. m + 1 \in 1..PartCount
    BY <2>1, <2>3, PartTreesAre
  <2>5. hashes' = Append(hashes, PartTrees[m + 1])
    BY <2>1, <2>3, <2>4, PartTreesAre
  <2>6. PICK last : last = PartTrees[m + 1]
    OBVIOUS
  <2>7. hashes' = [p \in 1..(m + 1) |-> PartTrees[p]]
    <3> DEFINE S == {PartTrees[p] : p \in 1..(m + 1)}
    <3>1. hashes \in Seq(S)
      <4>1. \A p \in 1..m : PartTrees[p] \in S
        OBVIOUS
      <4> HIDE DEF S
      <4>2. hashes \in [1..m -> S]
        BY <2>2, <4>1
      <4> QED
        BY <4>2
    <3>2. last \in S
      BY <2>6
    <3> HIDE DEF S
    <3>3. PICK t : t = Append(hashes, last)
      OBVIOUS
    <3>4. /\ t \in Seq(S) /\ Len(t) = m + 1
          /\ \A p \in 1..m : t[p] = hashes[p]
          /\ t[m + 1] = last
      BY <2>3, <3>1, <3>2, <3>3, AppendProperties
    <3>5. t = [p \in 1..(m + 1) |-> t[p]]
      BY <3>4
    <3>6. ASSUME NEW p \in 1..(m + 1)
          PROVE  t[p] = PartTrees[p]
      <4>1. CASE p \in 1..m
        BY <2>2, <3>4, <4>1
      <4>2. CASE p = m + 1
        BY <2>6, <3>4, <4>2
      <4> QED
        BY <4>1, <4>2
    <3>7. t = [p \in 1..(m + 1) |-> PartTrees[p]]
      BY <3>5, <3>6
    <3> QED
      BY <2>5, <2>6, <3>3, <3>7
  <2>8. /\ FileInit' = FileInit /\ PartTrees' = PartTrees /\ PartCount' = PartCount
        /\ TooLarge(size_in_bytes, Default)' = TooLarge(size_in_bytes, Default)
        /\ ChunkCount' = ChunkCount
    BY <1>1, <2>1
  <2>9. \E n \in Nat : /\ hashes' = [p \in 1..n |-> PartTrees'[p]]
                       /\ n > 0 => n <= PartCount'
    <3>1. m + 1 \in Nat /\ m + 1 <= PartCount
      BY <2>4
    <3> QED
      BY <2>7, <2>8, <3>1
  <2>10. total # <<>> => total = Trees(ChunkCount)[ChunkCount][1]
    BY <1>3 DEF HashInv
  <2> QED
    BY <1>3, <2>1, <2>8, <2>9, <2>10 DEF HashInv
<1>4. CASE part = "hash" /\ HashTotal /\ UNCHANGED part
  <2>1. /\ FileInit /\ ~TooLarge(size_in_bytes, Default)
        /\ UNCHANGED <<part, fileVars>> /\ hashes' = hashes /\ hashes # <<>>
        /\ Len(hashes) = PartCount
        /\ total' = TreeHash(hashes)
    BY <1>4 DEF HashInv, HashTotal
  <2>2. PICK m \in Nat : hashes = [p \in 1..m |-> PartTrees[p]] /\ (m > 0 => m <= PartCount)
    BY <1>4 DEF HashInv
  <2>3. Len(hashes) = m
    BY <2>2
  <2>4. m > 0
    <3>1. CASE m = 0
      <4>1. hashes = [p \in 1..0 |-> PartTrees[p]]
        BY <2>2, <3>1
      <4>2. hashes = <<>>
        BY <4>1
      <4> QED
        BY <2>1, <4>2
    <3> QED
      BY <3>1
  <2>5. hashes = PartTrees
    BY <2>1, <2>2, <2>3, <2>4, PartTreesAre
  <2>6. total' = Trees(ChunkCount)[ChunkCount][1]
    BY <2>1, <2>3, <2>4, <2>5, PartTreesAre
  <2> QED
    BY <1>1, <1>4, <2>1, <2>2, <2>6 DEF HashInv
<1> QED
  BY <1>2, <1>3, <1>4 DEF Next, HashStep, WriterStep, TreeHashNext, vars, treeHashVars

-----------------------------------------------------------------------------
(* Theorems: the tree hash.                                                *)

\* The tree hash of the parts' tree hashes is that of the archive, for a file of
\* any size and any part size that may be asked for, whichever the division
\* (utils.py:59-107, concurrent.py:48-58, 153-156).
THEOREM HashPartsAsTheArchive == Spec => []PartsHashAsTheArchive
<1>1. Init => HashInv
  <2> SUFFICES ASSUME Init
               PROVE  HashInv
    OBVIOUS
  <2>1. hashes = <<>> /\ total = <<>> /\ (part = "hash" => FileInit)
    BY DEF Init, TreeHashInit
  <2>2. <<>> = [p \in 1..0 |-> PartTrees[p]]
    OBVIOUS
  <2> QED
    BY <2>1, <2>2 DEF HashInv
<1>2. HashInv => PartsHashAsTheArchive
  BY DEF HashInv, PartsHashAsTheArchive
<1> QED
  BY <1>1, <1>2, NextHashInv, PTL DEF Spec
=============================================================================
