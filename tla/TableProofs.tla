---------------------------- MODULE TableProofs ----------------------------
(***************************************************************************)
(* A block of BatchTable that is left without an exception has written     *)
(* everything, and leaves no older write but one that was sent back; a     *)
(* scan, a batch_get and a count give what they should of the table: for   *)
(* any keys, any size of a batch and any pages of the service.             *)
(***************************************************************************)
EXTENDS Table, SequenceTheorems, FiniteSetTheorems, WellFoundedInduction, TLAPS

(* Sequences and the sets of their elements.                               *)

LEMMA ToSetEmpty == ToSet(<<>>) = {}
BY DEF ToSet

LEMMA ToSetAppend ==
    ASSUME NEW s \in Seq(Nat), NEW e \in Nat
    PROVE  ToSet(Append(s, e)) = ToSet(s) \cup {e}
<1>1. /\ Append(s, e) \in Seq(Nat)
      /\ Len(Append(s, e)) = Len(s) + 1
      /\ \A i \in 1..Len(s) : Append(s, e)[i] = s[i]
      /\ Append(s, e)[Len(s) + 1] = e
  BY AppendProperties
<1> DEFINE a == Append(s, e)
<1> HIDE DEF a
<1>2. /\ a \in Seq(Nat) /\ Len(a) = Len(s) + 1
      /\ \A i \in 1..Len(s) : a[i] = s[i]
      /\ a[Len(s) + 1] = e
  BY <1>1 DEF a
<1>3. DOMAIN a = 1..(Len(s) + 1) /\ DOMAIN s = 1..Len(s) /\ Len(s) \in Nat
  BY <1>2
<1>4. ASSUME NEW x \in ToSet(a)
      PROVE  x \in ToSet(s) \cup {e}
  <2>1. PICK i \in 1..(Len(s) + 1) : x = a[i]
    BY <1>3 DEF ToSet
  <2>2. CASE i = Len(s) + 1
    BY <1>2, <2>1, <2>2
  <2>3. CASE i \in 1..Len(s)
    BY <1>2, <1>3, <2>1, <2>3 DEF ToSet
  <2>4. QED
    BY <1>3, <2>2, <2>3
<1>5. ASSUME NEW x \in ToSet(s)
      PROVE  x \in ToSet(a)
  <2>1. PICK i \in 1..Len(s) : x = s[i]
    BY <1>3 DEF ToSet
  <2>2. i \in DOMAIN a /\ a[i] = x
    BY <1>2, <1>3, <2>1
  <2>3. QED
    BY <2>2 DEF ToSet
<1>6. e \in ToSet(a)
  <2>1. Len(s) + 1 \in DOMAIN a
    BY <1>3
  <2>2. QED
    BY <1>2, <2>1 DEF ToSet
<1>7. QED
  BY <1>4, <1>5, <1>6 DEF a

LEMMA ToSetConcat ==
    ASSUME NEW s \in Seq(Nat), NEW t \in Seq(Nat)
    PROVE  s \o t \in Seq(Nat) /\ ToSet(s \o t) = ToSet(s) \cup ToSet(t)
<1> DEFINE c == s \o t
<1>1. /\ c \in Seq(Nat) /\ Len(c) = Len(s) + Len(t)
      /\ \A i \in 1..(Len(s) + Len(t)) : c[i] = IF i <= Len(s) THEN s[i] ELSE t[i - Len(s)]
  BY ConcatProperties
<1> HIDE DEF c
<1>2. /\ DOMAIN c = 1..(Len(s) + Len(t)) /\ DOMAIN s = 1..Len(s) /\ DOMAIN t = 1..Len(t)
      /\ Len(s) \in Nat /\ Len(t) \in Nat
  BY <1>1
<1>3. ASSUME NEW x \in ToSet(c)
      PROVE  x \in ToSet(s) \cup ToSet(t)
  <2>1. PICK i \in 1..(Len(s) + Len(t)) : x = c[i]
    BY <1>2 DEF ToSet
  <2>2. CASE i <= Len(s)
    <3>1. i \in DOMAIN s /\ x = s[i]
      BY <1>1, <1>2, <2>1, <2>2
    <3>2. QED
      BY <3>1 DEF ToSet
  <2>3. CASE i > Len(s)
    <3>1. i - Len(s) \in DOMAIN t /\ x = t[i - Len(s)]
      BY <1>1, <1>2, <2>1, <2>3
    <3>2. QED
      BY <3>1 DEF ToSet
  <2>4. QED
    BY <1>2, <2>2, <2>3
<1>4. ASSUME NEW x \in ToSet(s)
      PROVE  x \in ToSet(c)
  <2>1. PICK i \in 1..Len(s) : x = s[i]
    BY <1>2 DEF ToSet
  <2>2. i \in DOMAIN c /\ c[i] = x
    BY <1>1, <1>2, <2>1
  <2>3. QED
    BY <2>2 DEF ToSet
<1>5. ASSUME NEW x \in ToSet(t)
      PROVE  x \in ToSet(c)
  <2>1. PICK i \in 1..Len(t) : x = t[i]
    BY <1>2 DEF ToSet
  <2> DEFINE j == i + Len(s)
  <2>2. j \in Int /\ j > Len(s) /\ j <= Len(s) + Len(t) /\ j - Len(s) = i
    BY <1>2
  <2> HIDE DEF j
  <2>3. j \in 1..(Len(s) + Len(t)) /\ ~(j <= Len(s))
    BY <1>2, <2>2
  <2>4. j \in DOMAIN c /\ c[j] = x
    BY <1>1, <1>2, <2>1, <2>2, <2>3
  <2>5. QED
    BY <2>4 DEF ToSet
<1>6. QED
  BY <1>1, <1>3, <1>4, <1>5 DEF c

LEMMA SplitIs ==
    ASSUME NEW s \in Seq(Nat), NEW n \in 0..Len(s)
    PROVE  LET a == SubSeq(s, 1, n)
               b == SubSeq(s, n + 1, Len(s))
           IN  /\ a \in Seq(Nat) /\ Len(a) = n /\ \A i \in 1..n : a[i] = s[i]
               /\ b \in Seq(Nat) /\ Len(b) = Len(s) - n /\ \A i \in 1..(Len(s) - n) : b[i] = s[n + i]
<1> DEFINE l == Len(s)
<1> DEFINE a == SubSeq(s, 1, n)
<1> DEFINE b == SubSeq(s, n + 1, l)
<1>1. l \in Nat /\ n \in Nat /\ n <= l /\ DOMAIN s = 1..l /\ \A i \in 1..l : s[i] \in Nat
  OBVIOUS
<1> HIDE DEF l
<1>2. a \in Seq(Nat) /\ Len(a) = n /\ \A i \in 1..n : a[i] = s[i]
  <2>1. \A i \in 1..n : s[i] \in Nat
    BY <1>1
  <2>2. /\ SubSeq(s, 1, n) \in Seq(Nat)
        /\ Len(SubSeq(s, 1, n)) = IF 1 <= n THEN n - 1 + 1 ELSE 0
        /\ \A i \in 1..(n - 1 + 1) : SubSeq(s, 1, n)[i] = s[1 + i - 1]
    BY <2>1, <1>1, SubSeqProperties
  <2> HIDE DEF a
  <2>3. /\ a \in Seq(Nat)
        /\ Len(a) = IF 1 <= n THEN n - 1 + 1 ELSE 0
        /\ \A i \in 1..(n - 1 + 1) : a[i] = s[1 + i - 1]
    BY <2>2 DEF a
  <2>4. QED
    BY <2>3, <1>1
<1>3. b \in Seq(Nat) /\ Len(b) = l - n /\ \A i \in 1..(l - n) : b[i] = s[n + i]
  <2>1. \A i \in (n + 1)..l : s[i] \in Nat
    BY <1>1
  <2>2. n + 1 \in Int /\ l \in Int
    BY <1>1
  <2>3. /\ SubSeq(s, n + 1, l) \in Seq(Nat)
        /\ Len(SubSeq(s, n + 1, l)) = IF n + 1 <= l THEN l - (n + 1) + 1 ELSE 0
        /\ \A i \in 1..(l - (n + 1) + 1) : SubSeq(s, n + 1, l)[i] = s[(n + 1) + i - 1]
    BY <2>1, <2>2, SubSeqProperties
  <2> HIDE DEF b
  <2>4. /\ b \in Seq(Nat)
        /\ Len(b) = IF n + 1 <= l THEN l - (n + 1) + 1 ELSE 0
        /\ \A i \in 1..(l - (n + 1) + 1) : b[i] = s[(n + 1) + i - 1]
    BY <2>3 DEF b
  <2>5. QED
    BY <2>4, <1>1
<1> QED
  BY <1>2, <1>3 DEF l

LEMMA ToSetSplit ==
    ASSUME NEW s \in Seq(Nat), NEW n \in 0..Len(s)
    PROVE  /\ SubSeq(s, 1, n) \in Seq(Nat)
           /\ SubSeq(s, n + 1, Len(s)) \in Seq(Nat)
           /\ ToSet(SubSeq(s, 1, n)) \cup ToSet(SubSeq(s, n + 1, Len(s))) = ToSet(s)
<1> DEFINE l == Len(s)
<1> DEFINE a == SubSeq(s, 1, n)
<1> DEFINE b == SubSeq(s, n + 1, l)
<1>1. l \in Nat /\ n \in Nat /\ n <= l /\ DOMAIN s = 1..l /\ \A i \in 1..l : s[i] \in Nat
  OBVIOUS
<1>2. a \in Seq(Nat) /\ Len(a) = n /\ \A i \in 1..n : a[i] = s[i]
  BY SplitIs
<1>3. b \in Seq(Nat) /\ Len(b) = l - n /\ \A i \in 1..(l - n) : b[i] = s[n + i]
  BY SplitIs
<1> HIDE DEF l
<1> HIDE DEF a, b
<1>4. DOMAIN a = 1..n /\ DOMAIN b = 1..(l - n)
  BY <1>1, <1>2, <1>3
<1>5. ASSUME NEW x \in ToSet(s)
      PROVE  x \in ToSet(a) \cup ToSet(b)
  <2>1. PICK i \in 1..l : x = s[i]
    BY <1>1 DEF ToSet
  <2>2. CASE i <= n
    <3>1. i \in DOMAIN a /\ a[i] = x
      BY <1>1, <1>2, <1>4, <2>1, <2>2
    <3>2. QED
      BY <3>1 DEF ToSet
  <2>3. CASE i > n
    <3>1. i - n \in DOMAIN b /\ b[i - n] = x
      BY <1>1, <1>3, <1>4, <2>1, <2>3
    <3>2. QED
      BY <3>1 DEF ToSet
  <2>4. QED
    BY <1>1, <2>2, <2>3
<1>6. ToSet(a) \subseteq ToSet(s)
  BY <1>1, <1>2, <1>4 DEF ToSet
<1>7. ToSet(b) \subseteq ToSet(s)
  <2>1. \A i \in DOMAIN b : n + i \in DOMAIN s /\ b[i] = s[n + i]
    BY <1>1, <1>3, <1>4
  <2>2. QED
    BY <2>1 DEF ToSet
<1>8. QED
  BY <1>2, <1>3, <1>5, <1>6, <1>7 DEF a, b, l

LEMMA ToSetNumbers ==
    ASSUME NEW s \in Seq(Nat)
    PROVE  ToSet(s) \subseteq Nat /\ IsFiniteSet(ToSet(s))
<1>1. DOMAIN s = 1..Len(s) /\ Len(s) \in Nat /\ \A i \in 1..Len(s) : s[i] \in Nat
  OBVIOUS
<1>2. ToSet(s) \subseteq Nat
  BY <1>1 DEF ToSet
<1>3. s \in [1..Len(s) -> ToSet(s)] /\ \A x \in ToSet(s) : \E i \in 1..Len(s) : s[i] = x
  BY <1>1 DEF ToSet
<1>4. s \in Surjection(1..Len(s), ToSet(s))
  BY <1>3 DEF Surjection
<1>5. 1 \in Int /\ Len(s) \in Int
  BY <1>1
<1>6. IsFiniteSet(1..Len(s))
  BY <1>5, FS_Interval
<1>7. QED
  BY <1>2, <1>4, <1>6, FS_Surjection

LEMMA OrdersAreOfAll ==
    ASSUME NEW W \in SUBSET Nat, IsFiniteSet(W), NEW s \in Orders(W)
    PROVE  s \in Seq(Nat) /\ ToSet(s) = W
<1>1. Cardinality(W) \in Nat
  BY FS_CardinalityType
<1>2. s \in [1..Cardinality(W) -> W] /\ \A w \in W : \E n \in DOMAIN s : s[n] = w
  BY DEF Orders
<1> DEFINE c == Cardinality(W)
<1> HIDE DEF c
<1>3. c \in Nat /\ s \in [1..c -> W]
  BY <1>1, <1>2 DEF c
<1>4. s \in [1..c -> Nat]
  BY <1>3
<1>5. s \in Seq(Nat)
  BY <1>3, <1>4
<1>6. ToSet(s) = W
  BY <1>2, <1>3 DEF ToSet
<1>7. QED
  BY <1>5, <1>6

-----------------------------------------------------------------------------
(* The inductive invariant: what was asked for and is not written is in a  *)
(* buffer or unprocessed, unless a request raised while the block was left.*)

Pending == ToSet(to_put) \cup ToSet(to_delete) \cup ToSet(unprocessed)

BuffersOK ==
    /\ issued \in Seq(Write)
    /\ to_put \in Seq(Nat) /\ to_delete \in Seq(Nat) /\ unprocessed \in Seq(Nat)
    /\ applied \cup Pending \subseteq Issued

NothingIsDropped == block \notin {"raised", "over"} => Issued \subseteq applied \cup Pending

LeftIsEmpty ==
    /\ block \in {"resend", "exited"} => to_put = <<>> /\ to_delete = <<>>
    /\ block = "exited" => unprocessed = <<>>

BatchInv == BuffersOK /\ NothingIsDropped /\ LeftIsEmpty

\* What is written and pending together, were the buffers these.
Known(puts, deletes, left) == applied \cup ToSet(puts) \cup ToSet(deletes) \cup ToSet(left)

LEMMA ProcessedKeeps ==
    ASSUME NEW request \in Seq(Nat), NEW kept \in Seq(Nat), Processed(request, kept)
    PROVE  /\ unprocessed' \in Seq(Nat)
           /\ applied' \cup ToSet(unprocessed') = applied \cup ToSet(kept) \cup ToSet(request)
<1>1. PICK done \in SUBSET ToSet(request) :
         /\ Apply(done)
         /\ \E back \in Orders(ToSet(request) \ done) : HandleUnprocessed(kept, back, request)
  BY DEF Processed
<1>2. PICK back \in Orders(ToSet(request) \ done) : HandleUnprocessed(kept, back, request)
  BY <1>1
<1>3. ToSet(request) \ done \in SUBSET Nat /\ IsFiniteSet(ToSet(request) \ done)
  <2>1. ToSet(request) \subseteq Nat /\ IsFiniteSet(ToSet(request))
    BY ToSetNumbers
  <2>2. ToSet(request) \ done \in SUBSET ToSet(request)
    OBVIOUS
  <2>3. QED
    BY <2>1, <2>2, FS_Subset
<1>4. back \in Seq(Nat) /\ ToSet(back) = ToSet(request) \ done
  BY <1>2, <1>3, OrdersAreOfAll
<1>5. unprocessed' = kept \o back
  BY <1>2 DEF HandleUnprocessed
<1>6. kept \o back \in Seq(Nat) /\ ToSet(kept \o back) = ToSet(kept) \cup ToSet(back)
  BY <1>4, ToSetConcat
<1>7. applied' = applied \cup done
  BY <1>1 DEF Apply
<1>8. unprocessed' \in Seq(Nat) /\ ToSet(unprocessed') = ToSet(kept) \cup ToSet(back)
  BY <1>5, <1>6
<1>9. QED
  BY <1>4, <1>7, <1>8, done \in SUBSET ToSet(request)

LEMMA FailsKeeps ==
    ASSUME NEW request \in Seq(Nat), Fails(request)
    PROVE  applied \subseteq applied' /\ applied' \subseteq applied \cup ToSet(request)
BY DEF Fails, Apply

\* A flush, of the buffers or of those with a write added.
LEMMA FlushKeeps ==
    ASSUME NEW puts \in Seq(Nat), NEW deletes \in Seq(Nat), unprocessed \in Seq(Nat),
           FlushOf(puts, deletes)
    PROVE  /\ to_put' \in Seq(Nat) /\ to_delete' \in Seq(Nat) /\ unprocessed' \in Seq(Nat)
           /\ (applied \cup Pending)' = Known(puts, deletes, unprocessed)
           /\ block # "flush" => block' = block
           /\ block = "flush" => \/ block' = "raised"
                                 \/ block' = "resend" /\ to_put' = <<>> /\ to_delete' = <<>>
<1> DEFINE request == puts \o deletes
<1>1. request \in Seq(Nat) /\ ToSet(request) = ToSet(puts) \cup ToSet(deletes)
  BY ToSetConcat
<1>2. \/ /\ Processed(request, unprocessed)
         /\ to_put' = <<>>
         /\ to_delete' = <<>>
         /\ block' = IF block = "flush" THEN "resend" ELSE block
      \/ /\ Fails(request)
         /\ to_put' = puts
         /\ to_delete' = deletes
         /\ block' = IF block = "flush" THEN "raised" ELSE block
         /\ UNCHANGED unprocessed
  BY DEF FlushOf
<1> HIDE DEF request
<1>3. CASE /\ Processed(request, unprocessed)
           /\ to_put' = <<>>
           /\ to_delete' = <<>>
           /\ block' = IF block = "flush" THEN "resend" ELSE block
  <2>1. /\ unprocessed' \in Seq(Nat)
        /\ applied' \cup ToSet(unprocessed')
              = applied \cup ToSet(unprocessed) \cup ToSet(request)
    BY <1>1, <1>3, ProcessedKeeps
  <2>2. ToSet(to_put') = {} /\ ToSet(to_delete') = {}
    BY <1>3, ToSetEmpty
  <2>3. (applied \cup Pending)'
           = applied' \cup (ToSet(to_put') \cup ToSet(to_delete') \cup ToSet(unprocessed'))
    BY DEF Pending
  <2>4. (applied \cup Pending)' = Known(puts, deletes, unprocessed)
    BY <1>1, <2>1, <2>2, <2>3 DEF Known
  <2>5. to_put' \in Seq(Nat) /\ to_delete' \in Seq(Nat)
    BY <1>3
  <2>6. QED
    BY <1>3, <2>1, <2>4, <2>5
<1>4. CASE /\ Fails(request)
           /\ to_put' = puts
           /\ to_delete' = deletes
           /\ block' = IF block = "flush" THEN "raised" ELSE block
           /\ UNCHANGED unprocessed
  <2>1. applied \subseteq applied' /\ applied' \subseteq applied \cup ToSet(request)
    BY <1>1, <1>4, FailsKeeps
  <2>2. (applied \cup Pending)'
           = applied' \cup (ToSet(puts) \cup ToSet(deletes) \cup ToSet(unprocessed))
    BY <1>4 DEF Pending
  <2>3. (applied \cup Pending)' = Known(puts, deletes, unprocessed)
    BY <1>1, <2>1, <2>2 DEF Known
  <2>4. QED
    BY <1>4, <2>3
<1>5. QED
  BY <1>2, <1>3, <1>4

LEMMA BufferKeeps ==
    ASSUME NEW puts \in Seq(Nat), NEW deletes \in Seq(Nat), unprocessed \in Seq(Nat),
           block = "open", Buffer(puts, deletes)
    PROVE  /\ to_put' \in Seq(Nat) /\ to_delete' \in Seq(Nat) /\ unprocessed' \in Seq(Nat)
           /\ (applied \cup Pending)' = Known(puts, deletes, unprocessed)
           /\ block' = "open"
<1>1. CASE Len(puts) + Len(deletes) = MaxBatch
  <2>1. FlushOf(puts, deletes)
    BY <1>1 DEF Buffer
  <2>2. QED
    BY <2>1, FlushKeeps
<1>2. CASE Len(puts) + Len(deletes) # MaxBatch
  <2>1. to_put' = puts /\ to_delete' = deletes /\ unprocessed' = unprocessed
        /\ applied' = applied /\ block' = block
    BY <1>2 DEF Buffer
  <2>2. QED
    BY <2>1 DEF Pending, Known
<1>3. QED
  BY <1>1, <1>2

LEMMA IssueKeeps ==
    ASSUME BatchInv, NEW kind \in {"put", "delete"}, Issue(kind)
    PROVE  /\ issued' \in Seq(Write)
           /\ Len(issued) \in Nat
           /\ Issued' = Issued \cup {Len(issued) + 1}
<1>1. issued \in Seq(Write) /\ Len(issued) \in Nat
  BY DEF BatchInv, BuffersOK
<1>2. PICK k \in Key : issued' = Append(issued, [kind |-> kind, key |-> k])
  BY DEF Issue
<1>3. [kind |-> kind, key |-> k] \in Write
  BY DEF Write
<1>4. issued' \in Seq(Write) /\ Len(issued') = Len(issued) + 1
  BY <1>1, <1>2, <1>3, AppendProperties
<1>5. QED
  BY <1>1, <1>4 DEF Issued

\* A write that is buffered is pending, and nothing else has changed.
LEMMA WriteStep ==
    ASSUME BatchInv,
           NEW kind \in {"put", "delete"}, Issue(kind),
           NEW puts \in Seq(Nat), NEW deletes \in Seq(Nat), Buffer(puts, deletes),
           ToSet(puts) \cup ToSet(deletes)
              = ToSet(to_put) \cup ToSet(to_delete) \cup {Len(issued) + 1}
    PROVE  BatchInv'
<1>1. block = "open" /\ unprocessed \in Seq(Nat)
  BY DEF Issue, BatchInv, BuffersOK
<1>2. /\ to_put' \in Seq(Nat) /\ to_delete' \in Seq(Nat) /\ unprocessed' \in Seq(Nat)
      /\ (applied \cup Pending)' = Known(puts, deletes, unprocessed)
      /\ block' = "open"
  BY <1>1, BufferKeeps
<1>3. issued' \in Seq(Write) /\ Issued' = Issued \cup {Len(issued) + 1}
  BY IssueKeeps
<1>4. Known(puts, deletes, unprocessed) = (applied \cup Pending) \cup {Len(issued) + 1}
  BY DEF Known, Pending
<1>5. applied \cup Pending \subseteq Issued /\ Issued \subseteq applied \cup Pending
  BY <1>1 DEF BatchInv, BuffersOK, NothingIsDropped
<1>6. (applied \cup Pending)' = Issued'
  BY <1>2, <1>3, <1>4, <1>5
<1>7. BuffersOK'
  BY <1>2, <1>3, <1>6 DEF BuffersOK
<1>8. NothingIsDropped'
  BY <1>6 DEF NothingIsDropped
<1>9. LeftIsEmpty'
  BY <1>2 DEF LeftIsEmpty
<1>10. QED
  BY <1>7, <1>8, <1>9 DEF BatchInv

LEMMA PutStep == BatchInv /\ PutItem => BatchInv'
<1> SUFFICES ASSUME BatchInv, PutItem
             PROVE  BatchInv'
  OBVIOUS
<1>1. /\ to_put \in Seq(Nat) /\ to_delete \in Seq(Nat) /\ Len(issued) + 1 \in Nat
  BY DEF BatchInv, BuffersOK
<1>2. Append(to_put, Len(issued) + 1) \in Seq(Nat)
  BY <1>1, AppendProperties
<1>3. ToSet(Append(to_put, Len(issued) + 1)) = ToSet(to_put) \cup {Len(issued) + 1}
  BY <1>1, ToSetAppend
<1>4. Issue("put") /\ Buffer(Append(to_put, Len(issued) + 1), to_delete)
  BY DEF PutItem
<1>5. ToSet(Append(to_put, Len(issued) + 1)) \cup ToSet(to_delete)
         = ToSet(to_put) \cup ToSet(to_delete) \cup {Len(issued) + 1}
  BY <1>3
<1>6. QED
  BY <1>1, <1>2, <1>4, <1>5, WriteStep

LEMMA DeleteStep == BatchInv /\ DeleteItem => BatchInv'
<1> SUFFICES ASSUME BatchInv, DeleteItem
             PROVE  BatchInv'
  OBVIOUS
<1>1. /\ to_put \in Seq(Nat) /\ to_delete \in Seq(Nat) /\ Len(issued) + 1 \in Nat
  BY DEF BatchInv, BuffersOK
<1>2. Append(to_delete, Len(issued) + 1) \in Seq(Nat)
  BY <1>1, AppendProperties
<1>3. ToSet(Append(to_delete, Len(issued) + 1)) = ToSet(to_delete) \cup {Len(issued) + 1}
  BY <1>1, ToSetAppend
<1>4. Issue("delete") /\ Buffer(to_put, Append(to_delete, Len(issued) + 1))
  BY DEF DeleteItem
<1>5. ToSet(to_put) \cup ToSet(Append(to_delete, Len(issued) + 1))
         = ToSet(to_put) \cup ToSet(to_delete) \cup {Len(issued) + 1}
  BY <1>3
<1>6. QED
  BY <1>1, <1>2, <1>4, <1>5, WriteStep

LEMMA ExitStep == BatchInv /\ Exit => BatchInv'
BY DEF BatchInv, BuffersOK, NothingIsDropped, LeftIsEmpty, Exit, Pending, Issued, bufferVars,
       historyVars

LEMMA FlushRestStep == BatchInv /\ FlushRest => BatchInv'
<1> SUFFICES ASSUME BatchInv, FlushRest
             PROVE  BatchInv'
  OBVIOUS
<1>1. /\ to_put \in Seq(Nat) /\ to_delete \in Seq(Nat) /\ unprocessed \in Seq(Nat)
      /\ block = "flush" /\ FlushOf(to_put, to_delete) /\ issued' = issued
  BY DEF BatchInv, BuffersOK, FlushRest
<1>2. /\ to_put' \in Seq(Nat) /\ to_delete' \in Seq(Nat) /\ unprocessed' \in Seq(Nat)
      /\ (applied \cup Pending)' = Known(to_put, to_delete, unprocessed)
      /\ \/ block' = "raised"
         \/ block' = "resend" /\ to_put' = <<>> /\ to_delete' = <<>>
  BY <1>1, FlushKeeps
<1>3. (applied \cup Pending)' = applied \cup Pending
  BY <1>2 DEF Known, Pending
<1>4. issued' \in Seq(Write) /\ Issued' = Issued
  BY <1>1 DEF Issued, BatchInv, BuffersOK
<1>5. applied \cup Pending \subseteq Issued /\ Issued \subseteq applied \cup Pending
  BY <1>1 DEF BatchInv, BuffersOK, NothingIsDropped
<1>6. BuffersOK'
  BY <1>2, <1>3, <1>4, <1>5 DEF BuffersOK
<1>7. NothingIsDropped'
  BY <1>3, <1>4, <1>5 DEF NothingIsDropped
<1>8. LeftIsEmpty'
  BY <1>2 DEF LeftIsEmpty
<1>9. QED
  BY <1>6, <1>7, <1>8 DEF BatchInv

LEMMA ResendStep == BatchInv /\ ResendUnprocessed => BatchInv'
<1> SUFFICES ASSUME BatchInv, ResendUnprocessed
             PROVE  BatchInv'
  OBVIOUS
<1>1. /\ unprocessed \in Seq(Nat) /\ block = "resend"
      /\ to_put = <<>> /\ to_delete = <<>>
      /\ to_put' = to_put /\ to_delete' = to_delete /\ issued' = issued
  BY DEF BatchInv, BuffersOK, LeftIsEmpty, ResendUnprocessed, bufferVars
<1> DEFINE n == IF Len(unprocessed) < MaxBatch THEN Len(unprocessed) ELSE MaxBatch
<1> DEFINE request == SubSeq(unprocessed, 1, n)
<1> DEFINE kept == SubSeq(unprocessed, n + 1, Len(unprocessed))
<1>2. \/ Processed(request, kept) /\ block' = block
      \/ Fails(request) /\ block' = "raised" /\ unprocessed' = kept
  BY DEF ResendUnprocessed
<1>3. n \in 0..Len(unprocessed)
  BY <1>1, BatchTableAssumption
<1> HIDE DEF n
<1>4. /\ request \in Seq(Nat) /\ kept \in Seq(Nat)
      /\ ToSet(request) \cup ToSet(kept) = ToSet(unprocessed)
  BY <1>1, <1>3, ToSetSplit
<1> HIDE DEF request, kept
<1>5. ToSet(to_put) = {} /\ ToSet(to_delete) = {} /\ ToSet(to_put') = {} /\ ToSet(to_delete') = {}
  BY <1>1, ToSetEmpty
<1>6. applied \cup Pending \subseteq Issued /\ Issued \subseteq applied \cup Pending
  BY <1>1 DEF BatchInv, BuffersOK, NothingIsDropped
<1>7. applied \cup Pending = applied \cup ToSet(unprocessed)
  BY <1>5 DEF Pending
<1>8. (applied \cup Pending)' = applied' \cup ToSet(unprocessed')
  BY <1>5 DEF Pending
<1>9. issued' \in Seq(Write) /\ Issued' = Issued
  BY <1>1 DEF Issued, BatchInv, BuffersOK
<1>10. to_put' \in Seq(Nat) /\ to_delete' \in Seq(Nat)
  BY <1>1 DEF BatchInv, BuffersOK
<1>11. CASE Processed(request, kept) /\ block' = block
  <2>1. /\ unprocessed' \in Seq(Nat)
        /\ applied' \cup ToSet(unprocessed') = applied \cup ToSet(kept) \cup ToSet(request)
    BY <1>4, <1>11, ProcessedKeeps
  <2>2. (applied \cup Pending)' = applied \cup Pending
    BY <1>4, <1>7, <1>8, <2>1
  <2>3. BuffersOK'
    BY <1>6, <1>9, <1>10, <2>1, <2>2 DEF BuffersOK
  <2>4. NothingIsDropped'
    BY <1>6, <1>9, <2>2 DEF NothingIsDropped
  <2>5. LeftIsEmpty'
    BY <1>1, <1>11 DEF LeftIsEmpty
  <2>6. QED
    BY <2>3, <2>4, <2>5 DEF BatchInv
<1>12. CASE Fails(request) /\ block' = "raised" /\ unprocessed' = kept
  <2>1. applied' \subseteq applied \cup ToSet(request)
    BY <1>4, <1>12, FailsKeeps
  <2>2. (applied \cup Pending)' \subseteq applied \cup Pending
    BY <1>4, <1>7, <1>8, <1>12, <2>1
  <2>3. unprocessed' \in Seq(Nat)
    BY <1>4, <1>12
  <2>4. BuffersOK'
    BY <1>6, <1>9, <1>10, <2>2, <2>3 DEF BuffersOK
  <2>5. NothingIsDropped' /\ LeftIsEmpty'
    BY <1>12 DEF NothingIsDropped, LeftIsEmpty
  <2>6. QED
    BY <2>4, <2>5 DEF BatchInv
<1>13. QED
  BY <1>2, <1>11, <1>12

LEMMA ExitReturnsStep == BatchInv /\ ExitReturns => BatchInv'
BY DEF BatchInv, BuffersOK, NothingIsDropped, LeftIsEmpty, ExitReturns, Pending, Issued,
       bufferVars, historyVars

LEMMA StartReadStep == StartRead => BatchInv'
<1> SUFFICES ASSUME StartRead
             PROVE  BatchInv'
  OBVIOUS
<1>1. /\ block' = "over" /\ to_put' = <<>> /\ to_delete' = <<>> /\ unprocessed' = <<>>
      /\ issued' = <<>> /\ applied' = {}
  BY DEF StartRead
<1>2. (applied \cup Pending)' = {}
  BY <1>1, ToSetEmpty DEF Pending
<1>3. BuffersOK'
  BY <1>1, <1>2 DEF BuffersOK
<1>4. NothingIsDropped' /\ LeftIsEmpty'
  BY <1>1 DEF NothingIsDropped, LeftIsEmpty
<1>5. QED
  BY <1>3, <1>4 DEF BatchInv

LEMMA BatchInvInit == Init => BatchInv
<1> SUFFICES ASSUME Init
             PROVE  BatchInv
  OBVIOUS
<1>1. /\ block = "open" /\ to_put = <<>> /\ to_delete = <<>> /\ unprocessed = <<>>
      /\ issued = <<>> /\ applied = {}
  BY DEF Init, BatchInit
<1>2. applied \cup Pending = {} /\ Issued = {}
  BY <1>1, ToSetEmpty DEF Pending, Issued
<1>3. QED
  BY <1>1, <1>2 DEF BatchInv, BuffersOK, NothingIsDropped, LeftIsEmpty

LEMMA BatchInvStep == BatchInv /\ [Next]_vars => BatchInv'
<1> SUFFICES ASSUME BatchInv, [Next]_vars
             PROVE  BatchInv'
  OBVIOUS
<1>1. CASE BatchWrite
  BY <1>1, PutStep, DeleteStep, ExitStep, FlushRestStep, ResendStep, ExitReturnsStep
     DEF BatchWrite, BatchNext
<1>2. CASE StartRead
  BY <1>2, StartReadStep
<1>3. CASE UNCHANGED batchVars
  BY <1>3 DEF batchVars, bufferVars, historyVars, BatchInv, BuffersOK, NothingIsDropped,
              LeftIsEmpty, Pending, Issued
<1>4. QED
  BY <1>1, <1>2, <1>3 DEF Next, Read, vars

\* The buffers, what is unprocessed and what is written stay as the block
\* keeps them (table.py:1609-1723).
THEOREM BatchBuffersHold == Spec => []BatchInv
<1>1. QED
  BY BatchInvInit, BatchInvStep, PTL DEF Spec

\* A block that is left without an exception has written everything it was
\* asked to, whatever came back unprocessed, in whatever order and however
\* often, and whichever flush raised before (table.py:1609-1723).
THEOREM BatchLosesNothing == Spec => []NothingIsLost
<1>1. BatchInv => NothingIsLost
  <2>1. ASSUME BatchInv, block = "exited"
        PROVE  applied = Issued
    <3>1. to_put = <<>> /\ to_delete = <<>> /\ unprocessed = <<>>
      BY <2>1 DEF BatchInv, LeftIsEmpty
    <3>2. Pending = {}
      BY <3>1, ToSetEmpty DEF Pending
    <3>3. QED
      BY <2>1, <3>2 DEF BatchInv, BuffersOK, NothingIsDropped
  <2>2. QED
    BY <2>1 DEF NothingIsLost
<1>2. QED
  BY <1>1, BatchBuffersHold, PTL

-----------------------------------------------------------------------------
(* The order of the writes of a key.                                       *)

SameKey(u, w) == issued[u].key = issued[w].key

Value(w) == IF issued[w].kind = "put" THEN w ELSE Absent

Buffered == ToSet(to_put) \cup ToSet(to_delete)

\* What is unprocessed has been sent back.
SentBackAgain == sent_back \subseteq Issued /\ ToSet(unprocessed) \subseteq sent_back

\* The buffers hold the last writes, whatever a flush that raised has done
\* with them.
BufferedLast == \A u \in Buffered : \A w \in Issued : w >= u => w \in Buffered

\* Two of them of one key make every request be refused, so the later one
\* has not been applied.
BufferedApart == \A u, w \in Buffered : u < w /\ SameKey(u, w) => w \notin applied

\* The last write of a key that was applied is in the table, or one before
\* it had been sent back.
LastIsInTable ==
    \A w \in applied :
       \/ table[issued[w].key] = Value(w)
       \/ \E v \in applied : v > w /\ SameKey(v, w)
       \/ \E u \in sent_back : u < w /\ SameKey(u, w)

OrderInv == SentBackAgain /\ BufferedLast /\ BufferedApart /\ LastIsInTable

\* A request changes the table by some of its writes, or not at all.
Sends(request) ==
    \/ \E done \in SUBSET ToSet(request) : ~Refused(request) /\ Apply(done)
    \/ UNCHANGED <<table, applied>>

LEMMA NoTwoOfAKey ==
    ASSUME NEW request \in Seq(Nat), ~Refused(request),
           NEW u \in ToSet(request), NEW w \in ToSet(request), SameKey(u, w)'
    PROVE  u = w
<1>1. DOMAIN request = 1..Len(request)
  OBVIOUS
<1>2. PICK m \in 1..Len(request) : request[m] = u
  BY <1>1 DEF ToSet
<1>3. PICK n \in 1..Len(request) : request[n] = w
  BY <1>1 DEF ToSet
<1>4. m = n
  BY <1>2, <1>3 DEF Refused, KeyOf, SameKey
<1> QED
  BY <1>2, <1>3, <1>4

LEMMA ApplyIs ==
    ASSUME NEW request \in Seq(Nat), ~Refused(request),
           NEW done \in SUBSET ToSet(request), Apply(done)
    PROVE  /\ applied' = applied \cup done
           /\ \A u \in done : issued'[u].key \in Key => table'[issued'[u].key] = Value(u)'
           /\ \A k \in Key : (\A u \in done : issued'[u].key # k) => table'[k] = table[k]
<1>1. /\ applied' = applied \cup done
      /\ \A k \in Key : table'[k] = IF \E w \in done : KeyOf(w) = k
                                    THEN LET w == CHOOSE v \in done : KeyOf(v) = k
                                         IN  IF issued'[w].kind = "put" THEN w ELSE Absent
                                    ELSE table[k]
  BY DEF Apply
<1>2. ASSUME NEW u \in done, issued'[u].key \in Key
      PROVE  table'[issued'[u].key] = Value(u)'
  <2>1. PICK k \in Key : k = issued'[u].key
    BY <1>2
  <2>2. PICK w : w = CHOOSE v \in done : KeyOf(v) = k
    OBVIOUS
  <2>3. \E v \in done : KeyOf(v) = k
    BY <2>1 DEF KeyOf
  <2>4. w \in done /\ KeyOf(w) = k
    BY <2>2, <2>3
  <2>5. w = u
    BY <2>1, <2>4, NoTwoOfAKey DEF KeyOf, SameKey
  <2>6. table'[k] = IF issued'[w].kind = "put" THEN w ELSE Absent
    BY <1>1, <2>2, <2>3
  <2> QED
    BY <2>1, <2>5, <2>6 DEF Value
<1>3. ASSUME NEW k \in Key, \A u \in done : issued'[u].key # k
      PROVE  table'[k] = table[k]
  BY <1>1, <1>3 DEF KeyOf
<1> QED
  BY <1>1, <1>2, <1>3

\* A request that holds a write from before another that was applied changes
\* the table to an older item, and only if the write had been sent back.
LEMMA SendKeepsTable ==
    ASSUME BatchInv, SentBackAgain, LastIsInTable,
           NEW request \in Seq(Nat), Sends(request),
           issued' \in Seq(Write), ToSet(request) \subseteq Issued', Issued \subseteq Issued',
           \A w \in Issued : issued'[w] = issued[w],
           sent_back \subseteq sent_back',
           \A u \in ToSet(request), w \in applied : u < w /\ SameKey(u, w)' => u \in sent_back'
    PROVE  LastIsInTable'
<1>1. /\ applied \subseteq Issued
      /\ Issued \subseteq Nat /\ Issued' \subseteq Nat
      /\ sent_back \subseteq Issued
  BY DEF BatchInv, BuffersOK, Issued, SentBackAgain
<1>2. \A w \in Issued : issued[w].key = issued'[w].key /\ Value(w) = Value(w)'
  BY DEF Value
<1>3. \A w \in Issued' : issued'[w].key \in Key
  <2>1. \A w \in 1..Len(issued') : issued'[w] \in Write
    BY ElementOfSeq
  <2>2. \A x \in Write : x.key \in Key
    BY DEF Write
  <2> QED
    BY <2>1, <2>2 DEF Issued
<1>4. \A u, w \in Issued : SameKey(u, w) => SameKey(u, w)'
  BY <1>2 DEF SameKey
<1>5. CASE UNCHANGED <<table, applied>>
  <2> SUFFICES ASSUME NEW w \in applied
               PROVE  \/ table'[issued'[w].key] = Value(w)'
                      \/ \E v \in applied' : v > w /\ SameKey(v, w)'
                      \/ \E u \in sent_back' : u < w /\ SameKey(u, w)'
    BY <1>5 DEF LastIsInTable
  <2>1. CASE table[issued[w].key] = Value(w)
    BY <1>1, <1>2, <1>5, <2>1
  <2>2. CASE \E v \in applied : v > w /\ SameKey(v, w)
    BY <1>1, <1>4, <1>5, <2>2
  <2>3. CASE \E u \in sent_back : u < w /\ SameKey(u, w)
    BY <1>1, <1>4, <2>3
  <2> QED
    BY <2>1, <2>2, <2>3 DEF LastIsInTable
<1>6. ASSUME NEW done \in SUBSET ToSet(request), ~Refused(request), Apply(done)
      PROVE  LastIsInTable'
  <2>1. /\ applied' = applied \cup done
        /\ \A u \in done : issued'[u].key \in Key => table'[issued'[u].key] = Value(u)'
        /\ \A k \in Key : (\A u \in done : issued'[u].key # k) => table'[k] = table[k]
    BY <1>6, ApplyIs
  <2> SUFFICES ASSUME NEW w \in applied'
               PROVE  \/ table'[issued'[w].key] = Value(w)'
                      \/ \E v \in applied' : v > w /\ SameKey(v, w)'
                      \/ \E u \in sent_back' : u < w /\ SameKey(u, w)'
    BY DEF LastIsInTable
  <2>2. w \in Issued' /\ w \in Nat /\ issued'[w].key \in Key
    BY <1>1, <1>3, <2>1
  <2>3. CASE w \in done
    BY <2>1, <2>2, <2>3
  <2>4. CASE w \notin done /\ \E u \in done : SameKey(u, w)'
    <3>1. PICK u \in done : SameKey(u, w)'
      BY <2>4
    <3>2. u \in Nat /\ u # w /\ w \in applied /\ u \in applied' /\ u \in ToSet(request)
      BY <1>1, <2>1, <2>4
    <3>3. CASE u > w
      BY <3>1, <3>2, <3>3
    <3>4. CASE u < w
      BY <3>1, <3>2, <3>4
    <3> QED
      BY <2>2, <3>2, <3>3, <3>4
  <2>5. CASE w \notin done /\ ~\E u \in done : SameKey(u, w)'
    <3>1. w \in applied /\ w \in Issued
      BY <1>1, <2>1, <2>5
    <3>2. table'[issued'[w].key] = table[issued'[w].key]
      BY <2>1, <2>2, <2>5 DEF SameKey
    <3>3. CASE table[issued[w].key] = Value(w)
      BY <1>2, <3>1, <3>2, <3>3
    <3>4. CASE \E v \in applied : v > w /\ SameKey(v, w)
      BY <1>1, <1>4, <2>1, <3>1, <3>4
    <3>5. CASE \E u \in sent_back : u < w /\ SameKey(u, w)
      BY <1>1, <1>4, <3>1, <3>5
    <3> QED
      BY <3>1, <3>3, <3>4, <3>5 DEF LastIsInTable
  <2> QED
    BY <2>3, <2>4, <2>5
<1> QED
  BY <1>5, <1>6 DEF Sends

LEMMA SentIs ==
    ASSUME NEW request \in Seq(Nat), NEW kept \in Seq(Nat), Processed(request, kept)
    PROVE  /\ Sends(request)
           /\ sent_back \subseteq sent_back'
           /\ sent_back' \subseteq sent_back \cup ToSet(request)
           /\ ToSet(unprocessed') \subseteq ToSet(kept) \cup sent_back'
<1>1. PICK done \in SUBSET ToSet(request) :
         /\ Apply(done)
         /\ \E back \in Orders(ToSet(request) \ done) : HandleUnprocessed(kept, back, request)
         /\ sent_back' = sent_back \cup (ToSet(request) \ done)
  BY DEF Processed
<1>2. PICK back \in Orders(ToSet(request) \ done) : HandleUnprocessed(kept, back, request)
  BY <1>1
<1>3. ToSet(request) \ done \in SUBSET Nat /\ IsFiniteSet(ToSet(request) \ done)
  <2>1. ToSet(request) \subseteq Nat /\ IsFiniteSet(ToSet(request))
    BY ToSetNumbers
  <2>2. ToSet(request) \ done \in SUBSET ToSet(request)
    OBVIOUS
  <2> QED
    BY <2>1, <2>2, FS_Subset
<1>4. back \in Seq(Nat) /\ ToSet(back) = ToSet(request) \ done
  BY <1>2, <1>3, OrdersAreOfAll
<1>5. ToSet(unprocessed') = ToSet(kept) \cup ToSet(back)
  BY <1>2, <1>4, ToSetConcat DEF HandleUnprocessed
<1>6. Sends(request)
  BY <1>1 DEF Processed, Sends
<1> QED
  BY <1>1, <1>4, <1>5, <1>6

\* A flush sends the last writes of all, and no two of one key.
LEMMA FlushOrder ==
    ASSUME BatchInv, OrderInv,
           NEW puts \in Seq(Nat), NEW deletes \in Seq(Nat), FlushOf(puts, deletes),
           issued' \in Seq(Write), Issued \subseteq Issued',
           \A w \in Issued : issued'[w] = issued[w],
           NEW R, R = ToSet(puts) \cup ToSet(deletes), R \subseteq Issued',
           \A u \in R : \A w \in Issued' : w >= u => w \in R,
           \A u, w \in R : u < w /\ SameKey(u, w)' => w \notin applied
    PROVE  OrderInv'
<1> DEFINE request == puts \o deletes
<1>1. request \in Seq(Nat) /\ ToSet(request) = R
  BY ToSetConcat
<1>2. /\ applied \subseteq Issued /\ unprocessed \in Seq(Nat)
      /\ SentBackAgain /\ LastIsInTable
      /\ Issued \subseteq Nat /\ Issued' \subseteq Nat
  BY DEF BatchInv, BuffersOK, OrderInv, Issued
<1>3. \A u \in R, w \in applied : ~(u < w /\ SameKey(u, w)')
  <2> SUFFICES ASSUME NEW u \in R, NEW w \in applied, u < w, SameKey(u, w)'
               PROVE  FALSE
    OBVIOUS
  <2>1. w \in Issued' /\ w \in Nat /\ u \in Nat
    BY <1>2
  <2>2. w \in R
    BY <2>1
  <2> QED
    BY <2>2
<1>4. \/ /\ Processed(request, unprocessed)
         /\ to_put' = <<>>
         /\ to_delete' = <<>>
      \/ /\ Fails(request)
         /\ to_put' = puts
         /\ to_delete' = deletes
         /\ UNCHANGED unprocessed
  BY DEF FlushOf
<1> HIDE DEF request
<1>5. CASE Processed(request, unprocessed) /\ to_put' = <<>> /\ to_delete' = <<>>
  <2>1. /\ Sends(request)
        /\ sent_back \subseteq sent_back' /\ sent_back' \subseteq sent_back \cup R
        /\ ToSet(unprocessed') \subseteq ToSet(unprocessed) \cup sent_back'
    BY <1>1, <1>2, <1>5, SentIs
  <2>2. SentBackAgain'
    BY <1>2, <2>1 DEF SentBackAgain
  <2>3. LastIsInTable'
    BY <1>1, <1>2, <1>3, <2>1, SendKeepsTable
  <2>4. Buffered' = {}
    BY <1>5, ToSetEmpty DEF Buffered
  <2> QED
    BY <2>2, <2>3, <2>4 DEF OrderInv, BufferedLast, BufferedApart
<1>6. CASE Fails(request) /\ to_put' = puts /\ to_delete' = deletes /\ UNCHANGED unprocessed
  <2>1. Sends(request) /\ sent_back' = sent_back
    BY <1>6 DEF Fails, Sends
  <2>2. SentBackAgain'
    BY <1>2, <1>6, <2>1 DEF SentBackAgain
  <2>3. LastIsInTable'
    BY <1>1, <1>2, <1>3, <2>1, SendKeepsTable
  <2>4. Buffered' = R
    BY <1>6 DEF Buffered
  <2>5. BufferedLast'
    BY <2>4 DEF BufferedLast
  <2>6. BufferedApart'
    <3> SUFFICES ASSUME NEW u \in R, NEW w \in R, u < w, SameKey(u, w)', w \in applied'
                 PROVE  FALSE
      BY <2>4 DEF BufferedApart
    <3>1. w \notin applied /\ u # w
      BY <1>2
    <3>2. PICK done \in SUBSET ToSet(request) : ~Refused(request) /\ Apply(done)
      BY <2>1, <3>1 DEF Sends
    <3> QED
      BY <1>1, <3>1, <3>2, NoTwoOfAKey
  <2> QED
    BY <2>2, <2>3, <2>5, <2>6 DEF OrderInv
<1> QED
  BY <1>4, <1>5, <1>6

\* A new write is the last of the buffered ones.
LEMMA WriteOrder ==
    ASSUME BatchInv, OrderInv,
           NEW kind \in {"put", "delete"}, Issue(kind),
           NEW puts \in Seq(Nat), NEW deletes \in Seq(Nat), Buffer(puts, deletes),
           ToSet(puts) \cup ToSet(deletes) = Buffered \cup {Len(issued) + 1}
    PROVE  OrderInv'
<1> DEFINE R == Buffered \cup {Len(issued) + 1}
<1>1. /\ issued \in Seq(Write) /\ Len(issued) \in Nat
      /\ applied \subseteq Issued /\ Buffered \subseteq Issued
      /\ Issued = 1..Len(issued)
  BY DEF BatchInv, BuffersOK, Pending, Buffered, Issued
<1>2. /\ issued' \in Seq(Write)
      /\ Issued' = Issued \cup {Len(issued) + 1}
      /\ \A w \in Issued : issued'[w] = issued[w]
  <2>1. issued' \in Seq(Write) /\ Issued' = Issued \cup {Len(issued) + 1}
    BY IssueKeeps
  <2>2. PICK k \in Key : issued' = Append(issued, [kind |-> kind, key |-> k])
    BY DEF Issue
  <2>3. [kind |-> kind, key |-> k] \in Write
    BY DEF Write
  <2>4. \A w \in 1..Len(issued) : issued'[w] = issued[w]
    BY <1>1, <2>2, <2>3, AppendProperties
  <2> QED
    BY <1>1, <2>1, <2>4
<1>3. R \subseteq Issued'
  BY <1>1, <1>2
<1>4. ASSUME NEW u \in R, NEW w \in Issued', w >= u
      PROVE  w \in R
  BY <1>1, <1>2, <1>4 DEF OrderInv, BufferedLast
<1>5. ASSUME NEW u \in R, NEW w \in R, u < w, SameKey(u, w)'
      PROVE  w \notin applied
  <2>1. CASE w = Len(issued) + 1
    BY <1>1, <2>1
  <2>2. CASE w # Len(issued) + 1
    <3>1. w \in Buffered /\ u \in Buffered /\ w \in Issued /\ u \in Issued
      BY <1>1, <1>5, <2>2
    <3>2. SameKey(u, w)
      BY <1>2, <1>5, <3>1 DEF SameKey
    <3> QED
      BY <1>5, <3>1, <3>2 DEF OrderInv, BufferedApart
  <2> QED
    BY <2>1, <2>2
<1>6. CASE Len(puts) + Len(deletes) = MaxBatch
  <2>1. FlushOf(puts, deletes)
    BY <1>6 DEF Buffer
  <2> HIDE DEF R
  <2>2. R = ToSet(puts) \cup ToSet(deletes)
    BY DEF R
  <2> QED
    BY <1>2, <1>3, <1>4, <1>5, <2>1, <2>2, FlushOrder
<1>7. CASE Len(puts) + Len(deletes) # MaxBatch
  <2>1. /\ to_put' = puts /\ to_delete' = deletes
        /\ UNCHANGED <<table, unprocessed, applied, sent_back>>
    BY <1>7 DEF Buffer
  <2>2. Buffered' = R
    BY <2>1 DEF Buffered
  <2> HIDE DEF R
  <2>3. BufferedLast'
    BY <1>4, <2>2 DEF BufferedLast
  <2>4. BufferedApart'
    BY <1>5, <2>1, <2>2 DEF BufferedApart
  <2>5. SentBackAgain'
    BY <1>2, <2>1 DEF OrderInv, SentBackAgain
  <2>6. LastIsInTable'
    <3>1. <<>> \in Seq(Nat) /\ ToSet(<<>>) = {}
      BY ToSetEmpty
    <3>2. Sends(<<>>)
      BY <2>1 DEF Sends
    <3> QED
      BY <1>2, <2>1, <3>1, <3>2, SendKeepsTable DEF OrderInv
  <2> QED
    BY <2>3, <2>4, <2>5, <2>6 DEF OrderInv
<1> QED
  BY <1>6, <1>7

LEMMA OrderStep == BatchInv /\ OrderInv /\ BatchNext => OrderInv'
<1> SUFFICES ASSUME BatchInv, OrderInv, BatchNext
             PROVE  OrderInv'
  OBVIOUS
<1>1. /\ to_put \in Seq(Nat) /\ to_delete \in Seq(Nat) /\ unprocessed \in Seq(Nat)
      /\ Len(issued) + 1 \in Nat /\ issued \in Seq(Write)
      /\ applied \cup Pending \subseteq Issued /\ Issued \subseteq Nat
      /\ Buffered \subseteq Issued
  BY DEF BatchInv, BuffersOK, Pending, Buffered, Issued
<1>2. CASE PutItem
  <2>1. Issue("put") /\ Buffer(Append(to_put, Len(issued) + 1), to_delete)
    BY <1>2 DEF PutItem
  <2>2. /\ Append(to_put, Len(issued) + 1) \in Seq(Nat)
        /\ ToSet(Append(to_put, Len(issued) + 1)) = ToSet(to_put) \cup {Len(issued) + 1}
    BY <1>1, AppendProperties, ToSetAppend
  <2>3. ToSet(Append(to_put, Len(issued) + 1)) \cup ToSet(to_delete)
          = Buffered \cup {Len(issued) + 1}
    BY <2>2 DEF Buffered
  <2> QED
    BY <1>1, <2>1, <2>2, <2>3, WriteOrder
<1>3. CASE DeleteItem
  <2>1. Issue("delete") /\ Buffer(to_put, Append(to_delete, Len(issued) + 1))
    BY <1>3 DEF DeleteItem
  <2>2. /\ Append(to_delete, Len(issued) + 1) \in Seq(Nat)
        /\ ToSet(Append(to_delete, Len(issued) + 1)) = ToSet(to_delete) \cup {Len(issued) + 1}
    BY <1>1, AppendProperties, ToSetAppend
  <2>3. ToSet(to_put) \cup ToSet(Append(to_delete, Len(issued) + 1))
          = Buffered \cup {Len(issued) + 1}
    BY <2>2 DEF Buffered
  <2> QED
    BY <1>1, <2>1, <2>2, <2>3, WriteOrder
<1>4. CASE FlushRest
  <2>1. FlushOf(to_put, to_delete) /\ issued' = issued
    BY <1>4 DEF FlushRest
  <2>2. Issued' = Issued /\ \A u, w : SameKey(u, w)' = SameKey(u, w)
    BY <2>1 DEF Issued, SameKey
  <2>3. \A u \in Buffered : \A w \in Issued' : w >= u => w \in Buffered
    BY <2>2 DEF OrderInv, BufferedLast
  <2>4. \A u, w \in Buffered : u < w /\ SameKey(u, w)' => w \notin applied
    BY <2>2 DEF OrderInv, BufferedApart
  <2>5. Buffered = ToSet(to_put) \cup ToSet(to_delete)
    BY DEF Buffered
  <2> QED
    BY <1>1, <2>1, <2>2, <2>3, <2>4, <2>5, FlushOrder
<1>5. CASE ResendUnprocessed
  <2> DEFINE n == IF Len(unprocessed) < MaxBatch THEN Len(unprocessed) ELSE MaxBatch
             request == SubSeq(unprocessed, 1, n)
             kept == SubSeq(unprocessed, n + 1, Len(unprocessed))
  <2>1. \/ Processed(request, kept)
        \/ Fails(request) /\ unprocessed' = kept
    BY <1>5 DEF ResendUnprocessed
  <2>2. issued' = issued /\ to_put' = to_put /\ to_delete' = to_delete /\ block = "resend"
    BY <1>5 DEF ResendUnprocessed, bufferVars
  <2>3. n \in 0..Len(unprocessed)
    BY <1>1, BatchTableAssumption DEF BatchTableAssumption
  <2> HIDE DEF n
  <2>4. /\ request \in Seq(Nat) /\ kept \in Seq(Nat)
        /\ ToSet(request) \cup ToSet(kept) = ToSet(unprocessed)
    BY <1>1, <2>3, ToSetSplit
  <2> HIDE DEF request, kept
  <2>5. ToSet(unprocessed) \subseteq sent_back /\ sent_back \subseteq Issued
    BY DEF OrderInv, SentBackAgain
  <2>6. /\ Sends(request)
        /\ sent_back' = sent_back
        /\ ToSet(unprocessed') \subseteq sent_back
    <3>1. CASE Processed(request, kept)
      BY <2>4, <2>5, <3>1, SentIs
    <3>2. CASE Fails(request) /\ unprocessed' = kept
      BY <2>4, <2>5, <3>2 DEF Fails, Sends
    <3> QED
      BY <2>1, <3>1, <3>2
  <2>7. issued' \in Seq(Write) /\ Issued' = Issued /\ ToSet(request) \subseteq Issued
    BY <1>1, <2>2, <2>4, <2>5 DEF Issued
  <2>8. LastIsInTable'
    BY <2>2, <2>4, <2>5, <2>6, <2>7, SendKeepsTable DEF OrderInv
  <2>9. SentBackAgain'
    BY <2>5, <2>6, <2>7 DEF SentBackAgain
  <2>10. Buffered = {} /\ Buffered' = {}
    BY <2>2, ToSetEmpty DEF Buffered, BatchInv, LeftIsEmpty
  <2> QED
    BY <2>8, <2>9, <2>10 DEF OrderInv, BufferedLast, BufferedApart
<1>6. CASE Exit \/ ExitReturns
  <2>1. UNCHANGED <<table, to_put, to_delete, unprocessed, issued, applied, sent_back>>
    BY <1>6 DEF Exit, ExitReturns, bufferVars, historyVars
  <2> QED
    BY <2>1 DEF OrderInv, SentBackAgain, BufferedLast, BufferedApart, LastIsInTable,
                Buffered, Issued, SameKey, Value
<1> QED
  BY <1>2, <1>3, <1>4, <1>5, <1>6 DEF BatchNext

LEMMA NextOrderInv == BatchInv /\ OrderInv /\ [Next]_vars => OrderInv'
<1> SUFFICES ASSUME BatchInv, OrderInv, [Next]_vars
             PROVE  OrderInv'
  OBVIOUS
<1>1. CASE BatchWrite
  BY <1>1, OrderStep DEF BatchWrite
<1>2. CASE StartRead
  <2>1. /\ to_put' = <<>> /\ to_delete' = <<>> /\ unprocessed' = <<>>
        /\ applied' = {} /\ sent_back' = {}
    BY <1>2 DEF StartRead
  <2>2. Buffered' = {} /\ ToSet(unprocessed') = {}
    BY <2>1, ToSetEmpty DEF Buffered
  <2> QED
    BY <2>1, <2>2 DEF OrderInv, SentBackAgain, BufferedLast, BufferedApart, LastIsInTable
<1>3. CASE UNCHANGED <<table, batchVars>>
  BY <1>3 DEF batchVars, bufferVars, historyVars, OrderInv, SentBackAgain, BufferedLast,
              BufferedApart, LastIsInTable, Buffered, Issued, SameKey, Value
<1>4. Read => UNCHANGED <<table, batchVars>>
  BY DEF Read, NextCalled, CallStep, FetchMore, FetchRaises, FetchMoreKeys, Yield, CountPage
<1> QED
  BY <1>1, <1>2, <1>3, <1>4 DEF Next, vars

\* When a block has been left, the item of a key is that of the last write to
\* it, or of one the service had sent back before (table.py:1691-1723): the
\* deletes that go after the puts of a batch, and flushes that raised, change
\* nothing about it.
THEOREM BatchStaleOnlyIfSentBack == Spec => []StaleOnlyIfSentBack
<1>1. Init => OrderInv
  <2> SUFFICES ASSUME Init
               PROVE  OrderInv
    OBVIOUS
  <2>1. /\ to_put = <<>> /\ to_delete = <<>> /\ unprocessed = <<>>
        /\ applied = {} /\ sent_back = {}
    BY DEF Init, BatchInit
  <2>2. Buffered = {} /\ ToSet(unprocessed) = {}
    BY <2>1, ToSetEmpty DEF Buffered
  <2> QED
    BY <2>1, <2>2 DEF OrderInv, SentBackAgain, BufferedLast, BufferedApart, LastIsInTable
<1>2. NothingIsLost /\ BatchInv /\ OrderInv => StaleOnlyIfSentBack
  <2> SUFFICES ASSUME NothingIsLost, BatchInv, OrderInv, block = "exited", NEW w \in Issued,
                      \A u \in Issued : issued[u].key = issued[w].key => u <= w
               PROVE  \/ table[issued[w].key] = Value(w)
                      \/ \E u \in sent_back : u < w /\ issued[u].key = issued[w].key
    BY DEF StaleOnlyIfSentBack, Value
  <2>1. applied = Issued /\ Issued \subseteq Nat
    BY DEF NothingIsLost, BatchInv, BuffersOK, Issued
  <2>2. ~\E v \in applied : v > w /\ SameKey(v, w)
    BY <2>1 DEF SameKey
  <2> QED
    BY <2>1, <2>2 DEF OrderInv, LastIsInTable, SameKey
<1>3. BatchInv /\ OrderInv /\ [Next]_vars => OrderInv'
  BY NextOrderInv
<1> QED
  BY <1>1, <1>2, <1>3, BatchBuffersHold, BatchLosesNothing, PTL DEF Spec

-----------------------------------------------------------------------------
(* Keys in their order.                                                    *)

Increasing(s) == \A m, n \in DOMAIN s : m < n => s[m] < s[n]

LEMMA LeastOf ==
    ASSUME NEW S \in SUBSET Nat, S # {}
    PROVE  \E x \in S : \A y \in S : x <= y
<1> DEFINE R == OpToRel(<, Nat)
<1>1. \A m, n \in Nat : m < n => <<m, n>> \in R
  BY DEF R, OpToRel
<1>2. IsWellFoundedOn(R, Nat)
  BY NatLessThanWellFounded
<1> HIDE DEF R
<1>3. PICK x \in S : \A y \in S : ~(<<y, x>> \in R)
  BY <1>2, WFMin
<1>4. ASSUME NEW y \in S
      PROVE  x <= y
  <2>1. x \in Nat /\ y \in Nat /\ ~(y < x)
    BY <1>1, <1>3
  <2> QED
    BY <2>1
<1> QED
  BY <1>4

\* A set of n keys without an order, for the least n, has a least key; the
\* others have an order.
LEMMA OrderExists ==
    ASSUME NEW S \in SUBSET Nat, IsFiniteSet(S)
    PROVE  \E s \in [1..Cardinality(S) -> S] : Increasing(s)
<1> DEFINE Unordered(T) == /\ IsFiniteSet(T)
                           /\ ~\E s \in [1..Cardinality(T) -> T] : Increasing(s)
           Sizes == {n \in Nat : \E T \in SUBSET Nat : Cardinality(T) = n /\ Unordered(T)}
<1>1. SUFFICES ASSUME Sizes # {} PROVE FALSE
  <2>1. Cardinality(S) \in Nat
    BY FS_CardinalityType
  <2> QED
    BY <1>1, <2>1
<1>2. PICK n \in Sizes : \A k \in Sizes : n <= k
  BY <1>1, LeastOf
<1>3. PICK T \in SUBSET Nat : Cardinality(T) = n /\ Unordered(T)
  BY <1>2
<1>4. n \in Nat
  BY <1>2
<1>5. T # {}
  <2> SUFFICES ASSUME T = {} PROVE FALSE
    OBVIOUS
  <2>1. n = 0
    BY <1>3, FS_EmptySet
  <2>2. <<>> \in [1..0 -> T] /\ Increasing(<<>>)
    BY DEF Increasing
  <2> QED
    BY <1>3, <2>1, <2>2
<1>6. PICK x \in T : \A y \in T : x <= y
  BY <1>5, LeastOf
<1> DEFINE U == T \ {x}
<1>7. IsFiniteSet(U) /\ Cardinality(U) = n - 1 /\ U \in SUBSET Nat
  BY <1>3, <1>6, FS_RemoveElement
<1>8. n - 1 \in Nat
  BY <1>7, FS_CardinalityType
<1>9. PICK u \in [1..(n - 1) -> U] : Increasing(u)
  <2>1. n - 1 \notin Sizes
    BY <1>2, <1>4
  <2> QED
    BY <1>7, <1>8, <2>1
<1> DEFINE t == [i \in 1..n |-> IF i = 1 THEN x ELSE u[i - 1]]
<1>10. \A i \in 2..n : i - 1 \in 1..(n - 1) /\ u[i - 1] \in U
  BY <1>4, <1>9
<1>11. t \in [1..n -> T]
  BY <1>4, <1>6, <1>10
<1>12. ASSUME NEW i \in 1..n, NEW j \in 1..n, i < j
       PROVE  t[i] < t[j]
  <2>1. j \in 2..n /\ t[j] = u[j - 1] /\ u[j - 1] \in U
    BY <1>4, <1>10, <1>12
  <2>2. CASE i = 1
    <3>1. t[i] = x /\ x \in Nat /\ u[j - 1] \in Nat /\ u[j - 1] # x /\ x <= u[j - 1]
      BY <1>3, <1>6, <2>1, <2>2
    <3> HIDE DEF t
    <3> QED
      BY <2>1, <3>1
  <2>3. CASE i # 1
    <3>1. i \in 2..n /\ t[i] = u[i - 1]
      BY <1>4, <2>3
    <3>2. i - 1 \in 1..(n - 1) /\ j - 1 \in 1..(n - 1) /\ i - 1 < j - 1
      BY <1>4, <1>10, <1>12, <2>1, <3>1
    <3> QED
      BY <1>9, <2>1, <3>1, <3>2 DEF Increasing
  <2> QED
    BY <2>2, <2>3
<1>13. Increasing(t)
  BY <1>12 DEF Increasing
<1> QED
  BY <1>3, <1>11, <1>13

\* An increasing sequence has an element for each position.
LEMMA IncreasingIs ==
    ASSUME NEW s \in Seq(Nat), Increasing(s)
    PROVE  /\ IsFiniteSet(ToSet(s)) /\ ToSet(s) \subseteq Nat
           /\ Cardinality(ToSet(s)) = Len(s)
           /\ \A i, j \in 1..Len(s) : s[i] = s[j] => i = j
           /\ \A i, j \in 1..Len(s) : s[i] < s[j] => i < j
<1>1. Len(s) \in Nat /\ DOMAIN s = 1..Len(s) /\ \A i \in 1..Len(s) : s[i] \in Nat
  OBVIOUS
<1>2. \A i, j \in 1..Len(s) : i < j => s[i] < s[j]
  BY <1>1 DEF Increasing
<1>3. ASSUME NEW i \in 1..Len(s), NEW j \in 1..Len(s)
      PROVE  (s[i] = s[j] => i = j) /\ (s[i] < s[j] => i < j)
  <2>1. i < j \/ i = j \/ j < i
    BY <1>1
  <2> QED
    BY <1>1, <1>2, <2>1
<1>4. s \in [1..Len(s) -> ToSet(s)] /\ \A x \in ToSet(s) : \E i \in 1..Len(s) : s[i] = x
  BY <1>1 DEF ToSet
<1>5. s \in Bijection(1..Len(s), ToSet(s))
  <2>1. s \in Injection(1..Len(s), ToSet(s))
    BY <1>3, <1>4 DEF Injection, IsInjective
  <2>2. s \in Surjection(1..Len(s), ToSet(s))
    BY <1>4 DEF Surjection
  <2> QED
    BY <2>1, <2>2 DEF Bijection
<1>6. IsFiniteSet(1..Len(s)) /\ Cardinality(1..Len(s)) = Len(s)
  BY <1>1, FS_Interval
<1>7. IsFiniteSet(ToSet(s)) /\ Cardinality(ToSet(s)) = Len(s)
  BY <1>5, <1>6, FS_Bijection DEF ExistsBijection
<1> QED
  BY <1>3, <1>7, ToSetNumbers

LEMMA OrderedIs ==
    ASSUME NEW S \in SUBSET Nat, IsFiniteSet(S)
    PROVE  /\ Ordered(S) \in Seq(Nat)
           /\ Increasing(Ordered(S))
           /\ ToSet(Ordered(S)) = S
           /\ Len(Ordered(S)) = Cardinality(S)
<1>1. PICK c : c = Cardinality(S) /\ c \in Nat
  BY FS_CardinalityType
<1>2. PICK s : s = Ordered(S)
  OBVIOUS
<1>3. s \in [1..c -> S] /\ Increasing(s)
  <2>1. s = CHOOSE t \in [1..c -> S] : Increasing(t)
    BY <1>1, <1>2, Zenon DEF Ordered, Increasing
  <2>2. \E t \in [1..c -> S] : Increasing(t)
    BY <1>1, OrderExists
  <2> QED
    BY <2>1, <2>2, Zenon
<1>4. s \in Seq(Nat) /\ Len(s) = c
  <2>1. s \in [1..c -> Nat]
    BY <1>3
  <2> QED
    BY <1>1, <2>1
<1>5. IsFiniteSet(ToSet(s)) /\ Cardinality(ToSet(s)) = c
  BY <1>3, <1>4, IncreasingIs
<1>6. ToSet(s) \in SUBSET S
  BY <1>3 DEF ToSet
<1>7. ToSet(s) = S
  BY <1>1, <1>5, <1>6, FS_Subset
<1> QED
  BY <1>1, <1>2, <1>3, <1>4, <1>7

\* What holds the first of a set's keys, in their order, is a prefix of all.
LEMMA PrefixIs ==
    ASSUME NEW S \in SUBSET Nat, IsFiniteSet(S),
           NEW s \in Seq(Nat), Increasing(s), ToSet(s) \subseteq S,
           \A x \in S, y \in ToSet(s) : x <= y => x \in ToSet(s)
    PROVE  /\ IsPrefix(s, Ordered(S))
           /\ Len(s) <= Len(Ordered(S))
           /\ ToSet(s) = S => Len(s) = Len(Ordered(S))
<1>1. PICK a : a = Ordered(S)
  OBVIOUS
<1>2. a \in Seq(Nat) /\ Increasing(a) /\ ToSet(a) = S /\ Len(a) = Cardinality(S)
  BY <1>1, OrderedIs
<1>3. Cardinality(ToSet(s)) = Len(s) /\ Len(s) \in Nat /\ Len(a) \in Nat
  BY <1>2, IncreasingIs
<1>4. Len(s) <= Len(a)
  BY <1>2, <1>3, FS_Subset
<1>5. \A i \in 1..Len(s) : s[i] = a[i]
  <2> DEFINE Differ == {i \in 1..Len(s) : s[i] # a[i]}
  <2>1. SUFFICES ASSUME Differ # {} PROVE FALSE
    OBVIOUS
  <2>2. Differ \in SUBSET Nat
    OBVIOUS
  <2>3. PICK i \in Differ : \A j \in Differ : i <= j
    BY <2>1, <2>2, LeastOf
  <2>4. i \in 1..Len(s) /\ i \in 1..Len(a) /\ s[i] # a[i] /\ s[i] \in Nat /\ a[i] \in Nat
    BY <1>2, <1>3, <1>4, <2>3
  <2>5. \A j \in 1..Len(s) : j < i => s[j] = a[j]
    BY <1>3, <2>3, <2>4
  <2>6. CASE s[i] < a[i]
    <3>1. s[i] \in ToSet(a)
      <4>1. s[i] \in ToSet(s)
        BY <2>4 DEF ToSet
      <4> QED
        BY <1>2, <4>1
    <3>2. PICK j \in 1..Len(a) : a[j] = s[i]
      BY <1>2, <3>1 DEF ToSet
    <3>3. j < i
      BY <1>2, <2>4, <2>6, <3>2, IncreasingIs
    <3>4. j \in 1..Len(s) /\ s[j] = s[i]
      BY <1>3, <2>4, <2>5, <3>2, <3>3
    <3> QED
      BY <2>4, <3>3, <3>4, IncreasingIs
  <2>7. CASE a[i] < s[i]
    <3>1. a[i] \in ToSet(s)
      <4>1. a[i] \in S
        BY <1>2, <2>4 DEF ToSet
      <4>2. s[i] \in ToSet(s)
        BY <2>4 DEF ToSet
      <4> QED
        BY <2>4, <2>7, <4>1, <4>2
    <3>2. PICK j \in 1..Len(s) : s[j] = a[i]
      BY <3>1 DEF ToSet
    <3>3. j < i
      BY <2>4, <2>7, <3>2, IncreasingIs
    <3>4. j \in 1..Len(a) /\ a[j] = a[i]
      BY <1>3, <1>4, <2>4, <2>5, <3>2, <3>3
    <3>5. \A m, k \in 1..Len(a) : a[m] = a[k] => m = k
      BY <1>2, IncreasingIs
    <3>6. j = i
      BY <2>4, <3>4, <3>5
    <3> QED
      BY <2>4, <3>3, <3>6
  <2> QED
    BY <2>4, <2>6, <2>7
<1>6. SubSeq(s, 1, Len(s)) = SubSeq(a, 1, Len(s))
  BY <1>2, <1>3, <1>4, <1>5
<1> QED
  BY <1>1, <1>2, <1>3, <1>4, <1>6 DEF IsPrefix

-----------------------------------------------------------------------------
(* What a read has given, and what of its page is left.                    *)

Matches == Present \cap Matching

\* How many results of the page the user has had.
Taken == IF call = "yield" THEN offset ELSE offset + 1

Rest == {results[i] : i \in {j \in 1..Len(results) : j > Taken}}

\* The items the pages so far have evaluated.
Covered == {k \in Present : IF last_key_seen = NoKey THEN ~results_left ELSE k <= last_key_seen}

Distinct(s) == \A m, n \in DOMAIN s : m # n => s[m] # s[n]

\* The types, and where a call is: a page is fetched when the one before has
\* been given.
ReadType ==
    /\ query \in {"none", "scan", "batch_get", "count"}
    /\ call \in {"idle", "fetch", "yield", "count", "stopped"}
    /\ results \in Seq(Nat) /\ Increasing(results)
    /\ returned \in Seq(Nat)
    /\ offset \in Int /\ offset >= -1
    /\ results_left \in BOOLEAN
    /\ last_key_seen \in Key \cup {NoKey}
    /\ query # "none" => block = "over"
    /\ query = "none" => ResultInit
    /\ call \in {"fetch", "yield"} => query \in {"scan", "batch_get"}
    /\ call = "count" => query = "count"
    /\ query = "count" => call \in {"count", "stopped"}
    /\ call = "fetch" => results_left /\ Len(results) <= offset
    /\ call = "yield" => offset \in 0..(Len(results) - 1)

\* The limit has counted the results that were returned.
LimitCounts ==
    IF asked = None THEN limit = None
    ELSE asked \in Nat /\ limit \in Nat /\ limit + Len(returned) = asked

\* What was returned and what is left of the page are the matching items
\* evaluated so far, in order; a scan without another page has covered all,
\* or the limit ends within the page.
ScanGoesOn ==
    /\ ToSet(returned) \cup Rest = Covered \cap Matching
    /\ \A x \in ToSet(returned), y \in Rest : x < y
    /\ ~results_left => \/ last_key_seen = NoKey
                        \/ limit # None /\ limit <= Cardinality(Rest)

ScanInv ==
    query = "scan" =>
        /\ Increasing(returned)
        /\ ToSet(returned) \subseteq Matches
        /\ \A x \in Matches, y \in ToSet(returned) : x <= y => x \in ToSet(returned)
        /\ LimitCounts
        /\ call # "stopped" => ScanGoesOn
        /\ call = "stopped" => ToSet(returned) = Matches \/ limit = 0

\* Every key asked for is returned, left in the page, left to be asked for,
\* or dropped or raised: in one of these places only.
BatchGetInv ==
    query = "batch_get" =>
        /\ limit = None
        /\ Distinct(returned)
        /\ keys_left \in Seq(Nat) /\ Distinct(keys_left)
        /\ asked \cap Present = ToSet(returned) \cup Rest
                                  \cup ((ToSet(keys_left) \cup dropped \cup raised) \cap Present)
        /\ ToSet(returned) \cap Rest = {}
        /\ (ToSet(returned) \cup Rest) \cap (ToSet(keys_left) \cup dropped \cup raised) = {}
        /\ ToSet(keys_left) \cap (dropped \cup raised) = {}
        /\ ToSet(keys_left) \subseteq Key
        /\ ~results_left => keys_left = <<>>
        /\ call = "stopped" => Rest = {} /\ keys_left = <<>>

CountedSoFar == {k \in Matches : last_key_seen # NoKey /\ k <= last_key_seen}

CountInv ==
    query = "count" =>
        /\ call = "count" => count_buffer = Cardinality(CountedSoFar)
        /\ call = "stopped" => count_buffer \in {0, Cardinality(Matches)}

ReadInv == ReadType /\ ScanInv /\ BatchGetInv /\ CountInv

LEMMA PresentIs ==
    /\ Present \subseteq Key /\ Key \subseteq Nat
    /\ \A S \in SUBSET Key : S \in SUBSET Nat /\ IsFiniteSet(S)
BY DynamoTableAssumption, FS_Subset DEF Present, DynamoTableAssumption

LEMMA RestAfterFetch ==
    ASSUME offset' = 0, results' \in Seq(Nat), call' = AfterFetch(results', results_left')
    PROVE  Rest' = ToSet(results')
<1>1. DOMAIN results' = 1..Len(results') /\ Len(results') \in Nat
  OBVIOUS
<1>2. CASE results' = <<>>
  BY <1>2, ToSetEmpty DEF Rest
<1>3. CASE results' # <<>>
  <2>1. Taken' = 0
    BY <1>3 DEF AfterFetch, Taken
  <2>2. {j \in 1..Len(results') : j > 0} = DOMAIN results'
    BY <1>1
  <2> QED
    BY <2>1, <2>2 DEF Rest, ToSet
<1> QED
  BY <1>2, <1>3

LEMMA RestAfterNext ==
    ASSUME ReadType, NextCalled
    PROVE  Rest' = Rest /\ (call' # "yield" => Rest = {})
<1>1. /\ results' = results /\ Len(results) \in Nat /\ offset \in Int
      /\ call = "idle" /\ offset' = offset + 1
      /\ call' = IF offset' < Len(results) THEN "yield"
                 ELSE IF results_left THEN "fetch" ELSE "stopped"
  BY DEF ReadType, NextCalled
<1>2. Taken = offset + 1
  BY <1>1 DEF Taken
<1>3. CASE offset' < Len(results)
  <2>1. call' = "yield" /\ Taken' = Taken
    BY <1>1, <1>2, <1>3 DEF Taken
  <2> QED
    BY <1>1, <2>1 DEF Rest
<1>4. CASE ~(offset' < Len(results))
  <2>1. Taken' = offset + 2
    BY <1>1, <1>4 DEF Taken
  <2>2. \A j \in 1..Len(results) : ~(j > offset + 1) /\ ~(j > offset + 2)
    BY <1>1, <1>4
  <2> QED
    BY <1>1, <1>2, <2>1, <2>2 DEF Rest
<1> QED
  BY <1>3, <1>4

LEMMA RestAfterYield ==
    ASSUME ReadType, call = "yield", call' = "idle", UNCHANGED <<results, offset>>,
           NEW x, x = results[offset + 1]
    PROVE  /\ x \in Nat /\ x \in Rest /\ Rest' = Rest \ {x}
           /\ \A y \in Rest : y \in Nat /\ x <= y
           /\ IsFiniteSet(Rest) /\ Cardinality(Rest) \in Nat
           /\ Cardinality(Rest') = Cardinality(Rest) - 1
<1>1. /\ results \in Seq(Nat) /\ Len(results) \in Nat /\ offset \in 0..(Len(results) - 1)
      /\ DOMAIN results = 1..Len(results)
      /\ \A i \in 1..Len(results) : results[i] \in Nat
      /\ \A i, j \in 1..Len(results) : i < j => results[i] < results[j]
  BY DEF ReadType, Increasing
<1>2. Taken = offset /\ Taken' = offset + 1
  BY DEF Taken
<1>3. offset + 1 \in 1..Len(results) /\ offset + 1 > offset
  BY <1>1
<1>4. x \in Nat /\ x \in Rest
  BY <1>1, <1>2, <1>3 DEF Rest
<1>5. ASSUME NEW y \in Rest
      PROVE  y \in Nat /\ x <= y
  <2>1. PICK i \in 1..Len(results) : i > offset /\ y = results[i]
    BY <1>2 DEF Rest
  <2>2. CASE i = offset + 1
    BY <1>1, <2>1, <2>2
  <2>3. CASE i # offset + 1
    <3>1. offset + 1 < i
      BY <1>1, <2>1, <2>3
    <3>2. results[offset + 1] < results[i]
      BY <1>1, <1>3, <3>1
    <3> QED
      BY <1>1, <1>4, <2>1, <3>2
  <2> QED
    BY <2>2, <2>3
<1>6. Rest' = Rest \ {x}
  <2>1. Rest' = {results[i] : i \in {j \in 1..Len(results) : j > offset + 1}}
    BY <1>2 DEF Rest
  <2>2. ASSUME NEW y \in Rest'
        PROVE  y \in Rest \ {x}
    <3>1. PICK i \in 1..Len(results) : i > offset + 1 /\ y = results[i]
      BY <2>1
    <3>2. x < y /\ i > offset
      BY <1>1, <1>3, <3>1
    <3>3. y \in Rest
      BY <1>2, <3>1, <3>2 DEF Rest
    <3> QED
      BY <1>4, <1>5, <3>2, <3>3
  <2>3. ASSUME NEW y \in Rest \ {x}
        PROVE  y \in Rest'
    <3>1. PICK i \in 1..Len(results) : i > offset /\ y = results[i]
      BY <1>2 DEF Rest
    <3>2. i > offset + 1
      BY <1>1, <3>1
    <3> QED
      BY <2>1, <3>1, <3>2
  <2> QED
    BY <2>2, <2>3
<1>7. IsFiniteSet(Rest)
  <2>1. Rest \subseteq ToSet(results)
    BY <1>1 DEF Rest, ToSet
  <2>2. IsFiniteSet(ToSet(results))
    BY <1>1, ToSetNumbers
  <2> QED
    BY <2>1, <2>2, FS_Subset
<1>8. Cardinality(Rest \ {x}) = Cardinality(Rest) - 1 /\ Cardinality(Rest) \in Nat
  BY <1>4, <1>7, FS_RemoveElement, FS_CardinalityType
<1> QED
  BY <1>4, <1>5, <1>6, <1>7, <1>8

LEMMA PageIs ==
    ASSUME last_key_seen \in Key \cup {NoKey}, NEW most, NEW page \in Pages(most)
    PROVE  LET E == Evaluated(page.last_key)
           IN  /\ page.last_key \in Key \cup {NoKey}
               /\ E \subseteq Present
               /\ page.results \in Seq(Nat) /\ Increasing(page.results)
               /\ ToSet(page.results) = E \cap Matching
               /\ Len(page.results) = Cardinality(E \cap Matching)
               /\ page.last_key # NoKey /\ last_key_seen # NoKey => page.last_key > last_key_seen
<1>1. PICK last \in NotEvaluated \cup {NoKey} :
         page = [results |-> Ordered(Evaluated(last) \cap Matching), last_key |-> last]
  BY DEF Pages
<1>2. NotEvaluated \subseteq Present /\ Evaluated(last) \subseteq Present
  BY DEF NotEvaluated, Evaluated
<1>3. Evaluated(last) \cap Matching \in SUBSET Nat /\ IsFiniteSet(Evaluated(last) \cap Matching)
  <2>1. Evaluated(last) \cap Matching \in SUBSET Key
    BY <1>2, PresentIs
  <2> QED
    BY <2>1, PresentIs
<1>4. last # NoKey /\ last_key_seen # NoKey => last > last_key_seen
  BY DEF NotEvaluated
<1>5. page.results = Ordered(Evaluated(last) \cap Matching) /\ page.last_key = last
  BY <1>1
<1> QED
  BY <1>2, <1>3, <1>4, <1>5, OrderedIs, PresentIs

\* The items evaluated by a page come after those of the pages before.
LEMMA PageFollows ==
    ASSUME last_key_seen \in Key \cup {NoKey}, NEW most, NEW page \in Pages(most)
    PROVE  LET E == Evaluated(page.last_key)
               Before == {k \in Present : last_key_seen # NoKey /\ k <= last_key_seen}
           IN  /\ {k \in Present : page.last_key = NoKey \/ k <= page.last_key} = Before \cup E
               /\ \A x \in Before, y \in E : x < y
<1> DEFINE Before == {k \in Present : last_key_seen # NoKey /\ k <= last_key_seen}
<1>1. PICK last : last = page.last_key
  OBVIOUS
<1>2. /\ last \in Key \cup {NoKey}
      /\ last # NoKey /\ last_key_seen # NoKey => last > last_key_seen
  BY <1>1, PageIs
<1>3. Present \subseteq Nat /\ Key \subseteq Nat
  BY PresentIs
<1>4. Evaluated(last) = {k \in Present : /\ last_key_seen = NoKey \/ k > last_key_seen
                                         /\ last = NoKey \/ k <= last}
  BY DEF Evaluated, NotEvaluated
<1>5. CASE last_key_seen = NoKey
  BY <1>1, <1>4, <1>5
<1>6. CASE last_key_seen # NoKey
  <2>1. PICK l \in Nat : l = last_key_seen
    BY <1>3, <1>6
  <2>2. \A k \in Nat : k <= l \/ k > l
    OBVIOUS
  <2>3. last # NoKey => last \in Nat /\ \A k \in Nat : k <= l => k <= last
    BY <1>2, <1>3, <1>6, <2>1
  <2>4. {k \in Present : last = NoKey \/ k <= last} = Before \cup Evaluated(last)
    BY <1>3, <1>4, <1>6, <2>1, <2>2, <2>3
  <2>5. ASSUME NEW x \in Before, NEW y \in Evaluated(last)
        PROVE  x < y
    <3>1. x \in Nat /\ x <= l
      BY <1>3, <2>1
    <3>2. y \in Nat /\ y > l
      BY <1>3, <1>4, <1>6, <2>1
    <3> QED
      BY <2>1, <3>1, <3>2
  <2> QED
    BY <1>1, <2>4, <2>5
<1> QED
  BY <1>5, <1>6

LEMMA CoveredGrows ==
    ASSUME last_key_seen \in Key \cup {NoKey}, results_left,
           NEW most, NEW page \in Pages(most),
           last_key_seen' = page.last_key, table' = table,
           results_left' => page.last_key # NoKey
    PROVE  /\ Covered' = Covered \cup Evaluated(page.last_key)
           /\ \A x \in Covered, y \in Evaluated(page.last_key) : x < y
<1>1. Covered = {k \in Present : last_key_seen # NoKey /\ k <= last_key_seen}
  BY DEF Covered
<1>2. Covered' = {k \in Present : page.last_key = NoKey \/ k <= page.last_key}
  BY DEF Covered, Present
<1> QED
  BY <1>1, <1>2, PageFollows

\* The page that a fetch leaves, and what the call does with it.
LEMMA PageType ==
    ASSUME ReadType, query \in {"scan", "batch_get"}, UNCHANGED <<query, returned, block>>,
           offset' = 0, results' \in Seq(Nat), Increasing(results'), results_left' \in BOOLEAN,
           last_key_seen' \in Key \cup {NoKey},
           call' = AfterFetch(results', results_left')
    PROVE  ReadType'
<1>1. Increasing(results)'
  BY DEF Increasing
<1>2. CASE results' = <<>>
  <2>1. call' \in {"fetch", "stopped"} /\ (call' = "fetch" => results_left') /\ Len(results') = 0
    BY <1>2 DEF AfterFetch
  <2> QED
    BY <1>1, <2>1 DEF ReadType
<1>3. CASE results' # <<>>
  <2>1. call' = "yield" /\ Len(results') \in Nat \ {0}
    BY <1>3, EmptySeq DEF AfterFetch
  <2> QED
    BY <1>1, <2>1 DEF ReadType
<1> QED
  BY <1>2, <1>3

LEMMA NothingLeftToFetch ==
    ASSUME ReadType, call = "fetch"
    PROVE  Rest = {} /\ results_left
BY DEF ReadType, Rest, Taken

LEMMA FetchMoreStep ==
    ASSUME ReadInv, FetchMore, UNCHANGED batchVars
    PROVE  ReadInv'
<1>1. /\ query = "scan" /\ call = "fetch" /\ offset' = 0
      /\ UNCHANGED <<table, query, limit, asked, returned, block>>
  BY DEF FetchMore, batchVars
<1>2. Rest = {} /\ results_left
  BY <1>1, NothingLeftToFetch DEF ReadInv
<1>3. PICK most : \E page \in Pages(most) :
          /\ results' = page.results
          /\ last_key_seen' = page.last_key
          /\ results_left' = /\ results_left
                             /\ limit # None => limit > Len(page.results)
                             /\ last_key_seen' # NoKey
          /\ call' = AfterFetch(results', results_left')
  BY DEF FetchMore
<1>4. PICK page \in Pages(most) :
          /\ results' = page.results
          /\ last_key_seen' = page.last_key
          /\ results_left' = /\ results_left
                             /\ limit # None => limit > Len(page.results)
                             /\ last_key_seen' # NoKey
          /\ call' = AfterFetch(results', results_left')
  BY <1>3
<1>5. last_key_seen \in Key \cup {NoKey}
  BY DEF ReadInv, ReadType
<1>6. PICK E : E = Evaluated(page.last_key)
  OBVIOUS
<1>7. /\ last_key_seen' \in Key \cup {NoKey}
      /\ E \subseteq Present
      /\ results' \in Seq(Nat) /\ Increasing(results')
      /\ ToSet(results') = E \cap Matching
  BY <1>4, <1>5, <1>6, PageIs
<1>8. Covered' = Covered \cup E /\ \A x \in Covered, y \in E : x < y
  BY <1>1, <1>2, <1>4, <1>5, <1>6, CoveredGrows
<1>9. Rest' = E \cap Matching
  BY <1>1, <1>4, <1>7, RestAfterFetch
<1>10. Matches' = Matches /\ Present' = Present
  BY <1>1 DEF Matches, Present
<1>11. results_left' \in BOOLEAN
  BY <1>4
<1>12. ReadType'
  BY <1>1, <1>4, <1>7, <1>11, PageType DEF ReadInv
<1>13. ScanGoesOn'
  <2>1. ToSet(returned) = Covered \cap Matching
    BY <1>1, <1>2 DEF ReadInv, ScanInv, ScanGoesOn
  <2>2. ToSet(returned') \cup Rest' = Covered' \cap Matching
    BY <1>1, <1>8, <1>9, <2>1
  <2>3. \A x \in ToSet(returned'), y \in Rest' : x < y
    BY <1>1, <1>8, <1>9, <2>1
  <2>4. ASSUME ~results_left'
        PROVE  last_key_seen' = NoKey \/ (limit' # None /\ limit' <= Cardinality(Rest'))
    <3>1. Len(results') = Cardinality(Rest')
      BY <1>4, <1>5, <1>6, <1>9, PageIs
    <3>2. CASE last_key_seen' # NoKey
      <4>1. limit # None /\ ~(limit > Len(page.results))
        BY <1>2, <1>4, <2>4, <3>2
      <4>2. limit \in Nat
        BY <1>1, <4>1 DEF ReadInv, ScanInv, LimitCounts
      <4>3. Len(results') \in Nat
        BY <1>7
      <4> QED
        BY <1>1, <1>4, <3>1, <4>1, <4>2, <4>3
    <3> QED
      BY <3>2
  <2> QED
    BY <2>2, <2>3, <2>4 DEF ScanGoesOn
<1>14. ScanInv'
  <2>1. /\ Increasing(returned') /\ ToSet(returned') \subseteq Matches'
        /\ \A x \in Matches', y \in ToSet(returned') : x <= y => x \in ToSet(returned')
        /\ LimitCounts'
    BY <1>1, <1>10 DEF ReadInv, ScanInv, LimitCounts
  <2>2. ASSUME call' = "stopped"
        PROVE  ToSet(returned') = Matches' \/ limit' = 0
    <3>1. results' = <<>> /\ ~results_left'
      BY <1>4, <2>2 DEF AfterFetch
    <3>2. Rest' = {}
      BY <1>7, <1>9, <3>1, ToSetEmpty
    <3>3. CASE last_key_seen' = NoKey
      <4>1. Covered' = Present
        BY <1>10, <3>1, <3>3 DEF Covered
      <4> QED
        BY <1>10, <1>13, <3>2, <4>1 DEF ScanGoesOn, Matches
    <3>4. CASE limit' # None /\ limit' <= Cardinality(Rest')
      <4>1. Cardinality(Rest') = 0
        BY <3>2, FS_EmptySet
      <4>2. limit' \in Nat
        BY <1>1, <3>4 DEF ReadInv, ScanInv, LimitCounts
      <4> QED
        BY <3>4, <4>1, <4>2
    <3> QED
      BY <1>13, <3>1, <3>3, <3>4 DEF ScanGoesOn
  <2> QED
    BY <1>13, <2>1, <2>2 DEF ScanInv, Increasing
<1> QED
  BY <1>1, <1>12, <1>14 DEF ReadInv, BatchGetInv, CountInv

\* Another fetch is a try from the same page on.
LEMMA FetchRaisesStep ==
    ASSUME ReadInv, FetchRaises, UNCHANGED batchVars
    PROVE  ReadInv'
<1>1. /\ query = "scan" /\ call = "fetch" /\ call' = "idle" /\ offset' = 0 /\ results' = <<>>
      /\ UNCHANGED <<table, query, results_left, last_key_seen, limit, asked, returned, block>>
  BY DEF FetchRaises, batchVars
<1>2. Rest = {} /\ results_left
  BY <1>1, NothingLeftToFetch DEF ReadInv
<1>3. Len(results') = 0 /\ results' \in Seq(Nat) /\ Increasing(results)'
  BY <1>1 DEF Increasing
<1>4. Rest' = {}
  BY <1>1, <1>3 DEF Rest
<1>5. ReadType'
  BY <1>1, <1>2, <1>3 DEF ReadInv, ReadType
<1>6. UNCHANGED <<Matches, Covered>>
  BY <1>1 DEF Matches, Covered, Present
<1>7. ScanGoesOn'
  BY <1>1, <1>2, <1>4, <1>6 DEF ReadInv, ScanInv, ScanGoesOn
<1>8. ScanInv'
  BY <1>1, <1>6, <1>7 DEF ReadInv, ScanInv, LimitCounts, Increasing
<1> QED
  BY <1>1, <1>5, <1>8 DEF ReadInv, BatchGetInv, CountInv

LEMMA NextCalledStep ==
    ASSUME ReadInv, NextCalled, UNCHANGED batchVars
    PROVE  ReadInv'
<1>1. /\ query \in {"scan", "batch_get"} /\ call = "idle" /\ offset' = offset + 1
      /\ call' = IF offset' < Len(results) THEN "yield"
                 ELSE IF results_left THEN "fetch" ELSE "stopped"
      /\ UNCHANGED <<table, query, results, results_left, last_key_seen, limit,
                     keys_left, asked, returned, dropped, raised, block>>
  BY DEF NextCalled, batchVars
<1>2. Rest' = Rest /\ (call' # "yield" => Rest = {})
  BY RestAfterNext DEF ReadInv
<1>3. offset \in Int /\ offset >= -1 /\ Len(results) \in Nat
  BY DEF ReadInv, ReadType
<1>4. /\ call' \in {"yield", "fetch", "stopped"}
      /\ call' = "fetch" => results_left /\ Len(results) <= offset'
      /\ call' = "yield" => offset' \in 0..(Len(results) - 1)
      /\ call' = "stopped" => ~results_left
      /\ offset' \in Int /\ offset' >= -1
  <2>1. CASE offset' < Len(results)
    BY <1>1, <1>3, <2>1
  <2>2. CASE ~(offset' < Len(results))
    BY <1>1, <1>3, <2>2 DEF ReadInv, ReadType
  <2> QED
    BY <2>1, <2>2
<1>5. ReadType'
  BY <1>1, <1>4 DEF ReadInv, ReadType, Increasing
<1>6. UNCHANGED <<Matches, Covered, Present>>
  BY <1>1 DEF Matches, Covered, Present
<1>7. ASSUME query = "scan"
      PROVE  ScanGoesOn /\ ScanGoesOn'
  <2>1. ScanGoesOn
    BY <1>1, <1>7 DEF ReadInv, ScanInv
  <2> QED
    BY <1>1, <1>2, <1>6, <2>1 DEF ScanGoesOn
<1>8. ASSUME query = "scan", call' = "stopped"
      PROVE  ToSet(returned) = Matches \/ limit = 0
  <2>1. Rest = {} /\ ~results_left
    BY <1>2, <1>4, <1>8
  <2>2. CASE last_key_seen = NoKey
    <3>1. Covered = Present
      BY <2>1, <2>2 DEF Covered
    <3> QED
      BY <1>7, <1>8, <2>1, <3>1 DEF ScanGoesOn, Matches
  <2>3. CASE limit # None /\ limit <= Cardinality(Rest)
    <3>1. Cardinality(Rest) = 0
      BY <2>1, FS_EmptySet
    <3>2. limit \in Nat
      BY <1>8, <2>3 DEF ReadInv, ScanInv, LimitCounts
    <3> QED
      BY <2>3, <3>1, <3>2
  <2> QED
    BY <1>7, <1>8, <2>1, <2>2, <2>3 DEF ScanGoesOn
<1>9. ScanInv'
  BY <1>1, <1>6, <1>7, <1>8 DEF ReadInv, ScanInv, LimitCounts, Increasing
<1>10. BatchGetInv'
  <2> SUFFICES ASSUME query = "batch_get" PROVE BatchGetInv'
    BY <1>1 DEF BatchGetInv
  <2>1. BatchGetInv
    BY DEF ReadInv
  <2>2. call' = "stopped" => Rest' = {} /\ keys_left' = <<>>
    BY <1>1, <1>2, <1>4, <2>1 DEF BatchGetInv
  <2> QED
    BY <1>1, <1>2, <1>6, <2>1, <2>2 DEF BatchGetInv, Distinct
<1> QED
  BY <1>1, <1>5, <1>9, <1>10 DEF ReadInv, CountInv

LEMMA YieldStep ==
    ASSUME ReadInv, Yield, UNCHANGED batchVars
    PROVE  ReadInv'
<1>1. /\ call = "yield"
      /\ UNCHANGED <<table, query, results, offset, results_left, last_key_seen,
                     keys_left, asked, dropped, raised, block>>
  BY DEF Yield, pageVars, batchVars
<1>2. query \in {"scan", "batch_get"}
  BY <1>1 DEF ReadInv, ReadType
<1>3. UNCHANGED <<Matches, Covered, Present>>
  BY <1>1 DEF Matches, Covered, Present
<1>4. CASE limit = 0
  <2>1. call' = "stopped" /\ limit' = limit /\ returned' = returned
    BY <1>4 DEF Yield
  <2>2. ReadType'
    BY <1>1, <1>2, <2>1 DEF ReadInv, ReadType, Increasing
  <2>3. ScanInv'
    BY <1>1, <1>3, <1>4, <2>1 DEF ReadInv, ScanInv, LimitCounts, Increasing
  <2>4. query # "batch_get"
    BY <1>4, ResultSetAssumption DEF ReadInv, BatchGetInv
  <2> QED
    BY <1>1, <1>2, <2>2, <2>3, <2>4 DEF ReadInv, BatchGetInv, CountInv
<1>5. CASE limit # 0
  <2>1. PICK x : x = results[offset + 1]
    OBVIOUS
  <2>2. /\ call' = "idle" /\ limit' = IF limit = None THEN None ELSE limit - 1
        /\ returned' = Append(returned, x)
    BY <1>5, <2>1 DEF Yield
  <2>3. /\ x \in Nat /\ x \in Rest /\ Rest' = Rest \ {x}
        /\ \A y \in Rest : y \in Nat /\ x <= y
        /\ IsFiniteSet(Rest) /\ Cardinality(Rest) \in Nat
        /\ Cardinality(Rest') = Cardinality(Rest) - 1
    BY <1>1, <2>1, <2>2, RestAfterYield DEF ReadInv
  <2>4. returned \in Seq(Nat)
    BY DEF ReadInv, ReadType
  <2>5. /\ returned' \in Seq(Nat) /\ Len(returned') = Len(returned) + 1
        /\ \A i \in 1..Len(returned) : returned'[i] = returned[i]
        /\ returned'[Len(returned) + 1] = x
    BY <2>2, <2>3, <2>4, AppendProperties
  <2>6. ToSet(returned') = ToSet(returned) \cup {x}
    BY <2>2, <2>3, <2>4, ToSetAppend
  <2>7. DOMAIN returned = 1..Len(returned) /\ DOMAIN returned' = 1..(Len(returned) + 1)
        /\ Len(returned) \in Nat /\ \A i \in 1..Len(returned) : returned[i] \in ToSet(returned)
    BY <2>4, <2>5 DEF ToSet
  <2>8. ReadType'
    BY <1>1, <1>2, <2>2, <2>5 DEF ReadInv, ReadType, Increasing
  <2>9. ScanInv'
    <3> SUFFICES ASSUME query = "scan" PROVE ScanInv'
      BY <1>1 DEF ScanInv
    <3>1. /\ ScanGoesOn /\ Increasing(returned) /\ LimitCounts
          /\ ToSet(returned) \subseteq Matches
          /\ \A y \in Matches, z \in ToSet(returned) : y <= z => y \in ToSet(returned)
      BY <1>1 DEF ReadInv, ScanInv
    <3>2. x \in Matches /\ \A y \in ToSet(returned) : y < x
      BY <2>3, <3>1 DEF ScanGoesOn, Matches, Covered
    <3>3. Increasing(returned)'
      <4> SUFFICES ASSUME NEW m \in DOMAIN returned', NEW n \in DOMAIN returned', m < n
                   PROVE  returned'[m] < returned'[n]
        BY DEF Increasing
      <4>1. m \in 1..Len(returned)
        BY <2>7
      <4>2. CASE n \in 1..Len(returned)
        BY <2>5, <2>7, <3>1, <4>1, <4>2 DEF Increasing
      <4>3. CASE n = Len(returned) + 1
        BY <2>5, <2>7, <3>2, <4>1, <4>3
      <4> QED
        BY <2>7, <4>2, <4>3
    <3>4. \A y \in Matches, z \in ToSet(returned') : y <= z => y \in ToSet(returned')
      <4> SUFFICES ASSUME NEW y \in Matches, NEW z \in ToSet(returned'), y <= z
                   PROVE  y \in ToSet(returned')
        OBVIOUS
      <4>1. CASE z \in ToSet(returned)
        BY <2>6, <3>1, <4>1
      <4>2. CASE z = x
        <5>1. y \in Nat
          BY PresentIs DEF Matches
        <5>2. y \in Covered \cap Matching
          <6>1. x \in Covered /\ x \in Present /\ y \in Present /\ y \in Matching
            BY <2>3, <3>1 DEF ScanGoesOn, Matches, Covered
          <6>2. CASE last_key_seen = NoKey
            BY <6>1, <6>2 DEF Covered
          <6>3. CASE last_key_seen # NoKey
            <7>1. last_key_seen \in Nat /\ x <= last_key_seen
              BY <6>1, <6>3, PresentIs DEF Covered, ReadInv, ReadType
            <7>2. y <= last_key_seen
              BY <2>3, <4>2, <5>1, <7>1
            <7> QED
              BY <6>1, <6>3, <7>2 DEF Covered
          <6> QED
            BY <6>2, <6>3
        <5>3. y \in ToSet(returned) \/ y \in Rest
          BY <3>1, <5>2 DEF ScanGoesOn
        <5>4. y \in Rest => y = x
          BY <2>3, <4>2, <5>1
        <5> QED
          BY <2>6, <5>3, <5>4
      <4> QED
        BY <2>6, <4>1, <4>2
    <3>5. LimitCounts'
      <4>1. CASE asked = None
        BY <1>1, <2>2, <3>1, <4>1 DEF LimitCounts
      <4>2. CASE asked # None
        <5>1. limit \in Nat /\ limit # None /\ asked \in Nat /\ limit + Len(returned) = asked
          BY <3>1, <4>2, ResultSetAssumption DEF LimitCounts
        <5>2. limit' = limit - 1 /\ limit' \in Nat
          BY <1>5, <2>2, <5>1
        <5> QED
          BY <1>1, <2>5, <2>7, <4>2, <5>1, <5>2 DEF LimitCounts
      <4> QED
        BY <4>1, <4>2
    <3>6. ScanGoesOn'
      <4>1. ToSet(returned') \cup Rest' = Covered' \cap Matching
        BY <1>3, <2>3, <2>6, <3>1 DEF ScanGoesOn
      <4>2. \A y \in ToSet(returned'), z \in Rest' : y < z
        <5> SUFFICES ASSUME NEW y \in ToSet(returned'), NEW z \in Rest' PROVE y < z
          OBVIOUS
        <5>1. CASE y \in ToSet(returned)
          BY <2>3, <3>1, <5>1 DEF ScanGoesOn
        <5>2. CASE y = x
          BY <2>3, <5>2
        <5> QED
          BY <2>6, <5>1, <5>2
      <4>3. ASSUME limit # None, limit <= Cardinality(Rest)
            PROVE  limit' # None /\ limit' <= Cardinality(Rest')
        <5>1. limit \in Nat
          BY <3>1, <4>3 DEF LimitCounts
        <5>2. limit' = limit - 1 /\ limit' \in Nat
          BY <1>5, <2>2, <4>3, <5>1
        <5> QED
          BY <2>3, <4>3, <5>1, <5>2, ResultSetAssumption
      <4> QED
        BY <1>1, <3>1, <4>1, <4>2, <4>3 DEF ScanGoesOn
    <3> QED
      BY <1>3, <2>2, <2>6, <3>1, <3>2, <3>3, <3>4, <3>5, <3>6 DEF ScanInv
  <2>10. BatchGetInv'
    <3> SUFFICES ASSUME query = "batch_get" PROVE BatchGetInv'
      BY <1>1 DEF BatchGetInv
    <3>1. BatchGetInv
      BY DEF ReadInv
    <3>2. limit' = None
      BY <2>2, <3>1 DEF BatchGetInv
    <3>3. x \notin ToSet(returned)
      BY <2>3, <3>1 DEF BatchGetInv
    <3>4. Distinct(returned)'
      <4> SUFFICES ASSUME NEW m \in DOMAIN returned', NEW n \in DOMAIN returned', m # n
                   PROVE  returned'[m] # returned'[n]
        BY DEF Distinct
      <4>1. CASE m = Len(returned) + 1
        BY <2>5, <2>7, <3>3, <4>1
      <4>2. CASE n = Len(returned) + 1
        BY <2>5, <2>7, <3>3, <4>2
      <4>3. CASE m \in 1..Len(returned) /\ n \in 1..Len(returned)
        BY <2>5, <2>7, <3>1, <4>3 DEF BatchGetInv, Distinct
      <4> QED
        BY <2>7, <4>1, <4>2, <4>3
    <3>5. ToSet(returned') \cup Rest' = ToSet(returned) \cup Rest
      BY <2>3, <2>6
    <3>6. ToSet(returned') \cap Rest' = {}
      BY <2>3, <2>6, <3>1 DEF BatchGetInv
    <3> QED
      BY <1>1, <1>3, <2>2, <3>1, <3>2, <3>4, <3>5, <3>6 DEF BatchGetInv, Distinct
  <2> QED
    BY <1>1, <1>2, <2>8, <2>9, <2>10 DEF ReadInv, CountInv
<1> QED
  BY <1>4, <1>5

LEMMA DistinctSplit ==
    ASSUME NEW s \in Seq(Nat), Distinct(s), NEW n \in 0..Len(s)
    PROVE  LET a == SubSeq(s, 1, n)
               b == SubSeq(s, n + 1, Len(s))
           IN  Distinct(b) /\ ToSet(a) \cap ToSet(b) = {}
<1>1. PICK a : a = SubSeq(s, 1, n)
  OBVIOUS
<1>2. PICK b : b = SubSeq(s, n + 1, Len(s))
  OBVIOUS
<1>3. /\ a \in Seq(Nat) /\ Len(a) = n /\ \A i \in 1..n : a[i] = s[i]
      /\ b \in Seq(Nat) /\ Len(b) = Len(s) - n /\ \A i \in 1..(Len(s) - n) : b[i] = s[n + i]
  BY <1>1, <1>2, SplitIs
<1>4. /\ DOMAIN a = 1..n /\ DOMAIN b = 1..(Len(s) - n) /\ DOMAIN s = 1..Len(s)
      /\ Len(s) \in Nat /\ n \in Nat /\ n <= Len(s)
  BY <1>3
<1>5. ASSUME NEW i \in DOMAIN b
      PROVE  n + i \in DOMAIN s /\ b[i] = s[n + i] /\ i \in Nat
  <2>1. i \in 1..(Len(s) - n)
    BY <1>4
  <2>2. b[i] = s[n + i]
    BY <1>3, <2>1
  <2> QED
    BY <1>4, <2>1, <2>2
<1>6. \A i \in DOMAIN a : i \in DOMAIN s /\ a[i] = s[i] /\ i \in Nat /\ i <= n
  BY <1>3, <1>4
<1>7. Distinct(b)
  BY <1>4, <1>5 DEF Distinct
<1>8. ASSUME NEW i \in DOMAIN a, NEW j \in DOMAIN b
      PROVE  a[i] # b[j]
  <2>1. i # n + j
    BY <1>4, <1>6
  <2> QED
    BY <1>5, <1>6, <2>1 DEF Distinct
<1>9. ToSet(a) \cap ToSet(b) = {}
  BY <1>8 DEF ToSet
<1> QED
  BY <1>1, <1>2, <1>7, <1>9

LEMMA DistinctConcat ==
    ASSUME NEW s \in Seq(Nat), NEW t \in Seq(Nat), Distinct(s), Distinct(t),
           ToSet(s) \cap ToSet(t) = {}
    PROVE  Distinct(s \o t)
<1>1. PICK c : c = s \o t
  OBVIOUS
<1>2. /\ c \in Seq(Nat) /\ Len(c) = Len(s) + Len(t)
      /\ \A i \in 1..(Len(s) + Len(t)) : c[i] = IF i <= Len(s) THEN s[i] ELSE t[i - Len(s)]
  BY <1>1, ConcatProperties
<1>3. /\ DOMAIN c = 1..(Len(s) + Len(t)) /\ DOMAIN s = 1..Len(s) /\ DOMAIN t = 1..Len(t)
      /\ Len(s) \in Nat /\ Len(t) \in Nat
  BY <1>2
<1>4. \A i \in DOMAIN s, j \in DOMAIN t : s[i] # t[j]
  BY DEF ToSet
<1> SUFFICES ASSUME NEW m \in DOMAIN c, NEW n \in DOMAIN c, m # n
             PROVE  c[m] # c[n]
  BY <1>1 DEF Distinct
<1>5. ASSUME NEW i \in DOMAIN c
      PROVE  \/ i \in DOMAIN s /\ c[i] = s[i]
             \/ i - Len(s) \in DOMAIN t /\ c[i] = t[i - Len(s)]
  <2>1. CASE i <= Len(s)
    BY <1>2, <1>3, <2>1
  <2>2. CASE ~(i <= Len(s))
    BY <1>2, <1>3, <2>2
  <2> QED
    BY <2>1, <2>2
<1>6. m - Len(s) # n - Len(s)
  BY <1>3
<1> QED
  BY <1>4, <1>5, <1>6 DEF Distinct

LEMMA OrderedKeys ==
    ASSUME NEW S \in SUBSET Key
    PROVE  /\ Ordered(S) \in Seq(Nat) /\ Increasing(Ordered(S)) /\ Distinct(Ordered(S))
           /\ ToSet(Ordered(S)) = S
<1>1. S \in SUBSET Nat /\ IsFiniteSet(S)
  BY PresentIs
<1>2. PICK s : s = Ordered(S)
  OBVIOUS
<1>3. s \in Seq(Nat) /\ Increasing(s) /\ ToSet(s) = S
  BY <1>1, <1>2, OrderedIs
<1>4. \A i, j \in 1..Len(s) : s[i] = s[j] => i = j
  BY <1>3, IncreasingIs
<1>5. DOMAIN s = 1..Len(s)
  BY <1>3
<1> QED
  BY <1>2, <1>3, <1>4, <1>5 DEF Distinct

\* The keys of a request leave the list: their items are in the page, or
\* they are in the list again, dropped or raised.
LEMMA FetchMoreKeysStep ==
    ASSUME ReadInv, FetchMoreKeys, UNCHANGED batchVars
    PROVE  ReadInv'
<1>1. /\ query = "batch_get" /\ call = "fetch" /\ offset' = 0
      /\ UNCHANGED <<table, query, last_key_seen, limit, asked, returned, block>>
  BY DEF FetchMoreKeys, batchVars
<1>2. Rest = {}
  BY <1>1, NothingLeftToFetch DEF ReadInv
<1>3. /\ keys_left \in Seq(Nat) /\ Distinct(keys_left) /\ ToSet(keys_left) \subseteq Key
      /\ BatchGetInv
  BY <1>1 DEF ReadInv, BatchGetInv
<1>4. PICK n : n = IF Len(keys_left) < MaxBatchGet THEN Len(keys_left) ELSE MaxBatchGet
  OBVIOUS
<1>5. n \in 0..Len(keys_left)
  BY <1>3, <1>4, ResultSetAssumption
<1>6. PICK keys : keys = SubSeq(keys_left, 1, n)
  OBVIOUS
<1>7. PICK rest : rest = SubSeq(keys_left, n + 1, Len(keys_left))
  OBVIOUS
<1>8. PICK K : K = ToSet(keys)
  OBVIOUS
<1>9. PICK R : R = ToSet(rest)
  OBVIOUS
<1>10. ToSet(keys_left) = K \cup R /\ K \cap R = {} /\ rest \in Seq(Nat) /\ Distinct(rest)
  BY <1>3, <1>5, <1>6, <1>7, <1>8, <1>9, ToSetSplit, DistinctSplit
<1>11. K \subseteq Key /\ R \subseteq Key
  BY <1>3, <1>10
<1>12. Present' = Present
  BY <1>1 DEF Present
<1>13. /\ limit' = None /\ Distinct(returned)'
       /\ asked \cap Present = ToSet(returned) \cup ((K \cup R \cup dropped \cup raised) \cap Present)
       /\ ToSet(returned) \cap (K \cup R \cup dropped \cup raised) = {}
       /\ (K \cup R) \cap (dropped \cup raised) = {}
  BY <1>1, <1>2, <1>3, <1>10 DEF BatchGetInv, Distinct
<1>14. last_key_seen' \in Key \cup {NoKey}
  BY <1>1 DEF ReadInv, ReadType
<1>15. \/ \E done \in SUBSET K :
             /\ results' = Ordered(done \cap Present)
             /\ keys_left' = IF results' = <<>> THEN rest ELSE Ordered(K \ done) \o rest
             /\ results_left' = (keys_left' # <<>>)
             /\ dropped' = IF results' = <<>> THEN dropped \cup ToSet(Ordered(K \ done)) ELSE dropped
             /\ raised' = raised
             /\ call' = AfterFetch(results', results_left')
       \/ /\ results' = <<>>
          /\ keys_left' = rest
          /\ results_left' = (rest # <<>>)
          /\ raised' = raised \cup K
          /\ dropped' = dropped
          /\ call' = "idle"
  BY <1>4, <1>6, <1>7, <1>8, Zenon DEF FetchMoreKeys, PutBack
<1>16. ASSUME NEW done \in SUBSET K,
              results' = Ordered(done \cap Present),
              keys_left' = IF results' = <<>> THEN rest ELSE Ordered(K \ done) \o rest,
              results_left' = (keys_left' # <<>>),
              dropped' = IF results' = <<>> THEN dropped \cup ToSet(Ordered(K \ done)) ELSE dropped,
              raised' = raised,
              call' = AfterFetch(results', results_left')
       PROVE  ReadType' /\ BatchGetInv'
  <2>1. /\ results' \in Seq(Nat) /\ Increasing(results')
        /\ ToSet(results') = done \cap Present
    <3>1. done \cap Present \in SUBSET Key
      BY <1>11, <1>16
    <3> QED
      BY <1>16, <3>1, OrderedKeys
  <2>2. PICK back : back = Ordered(K \ done)
    OBVIOUS
  <2>3. back \in Seq(Nat) /\ Distinct(back) /\ ToSet(back) = K \ done
    <3>1. K \ done \in SUBSET Key
      BY <1>11, <1>16
    <3> QED
      BY <2>2, <3>1, OrderedKeys
  <2>4. Rest' = done \cap Present
    BY <1>1, <1>16, <2>1, RestAfterFetch
  <2>5. ReadType'
    BY <1>1, <1>14, <1>16, <2>1, PageType DEF ReadInv
  <2>6. call' = "stopped" => results' = <<>> /\ keys_left' = <<>>
    BY <1>16 DEF AfterFetch
  <2>7. CASE results' = <<>>
    <3>1. keys_left' = rest /\ dropped' = dropped \cup (K \ done)
      BY <1>16, <2>2, <2>3, <2>7
    <3>2. done \cap Present = {}
      BY <2>1, <2>7, ToSetEmpty
    <3>3. keys_left' \in Seq(Nat) /\ ToSet(keys_left') = R /\ Distinct(keys_left)'
      BY <1>9, <1>10, <3>1 DEF Distinct
    <3>4. asked' \cap Present' = ToSet(returned') \cup Rest'
                                   \cup ((ToSet(keys_left') \cup dropped' \cup raised') \cap Present')
      BY <1>1, <1>12, <1>13, <1>16, <2>4, <3>1, <3>2, <3>3
    <3>5. /\ ToSet(returned') \cap Rest' = {}
          /\ (ToSet(returned') \cup Rest') \cap (ToSet(keys_left') \cup dropped' \cup raised') = {}
          /\ ToSet(keys_left') \cap (dropped' \cup raised') = {}
      BY <1>1, <1>10, <1>13, <1>16, <2>4, <3>1, <3>2, <3>3
    <3> QED
      BY <1>11, <1>13, <1>16, <2>4, <2>5, <2>6, <3>2, <3>3, <3>4, <3>5 DEF BatchGetInv
  <2>8. CASE results' # <<>>
    <3>1. keys_left' = back \o rest /\ dropped' = dropped
      BY <1>16, <2>2, <2>8
    <3>2. /\ keys_left' \in Seq(Nat) /\ ToSet(keys_left') = (K \ done) \cup R
          /\ Distinct(keys_left')
      <4>1. ToSet(back) \cap ToSet(rest) = {}
        BY <1>9, <1>10, <2>3
      <4> QED
        BY <1>9, <1>10, <2>3, <3>1, <4>1, ToSetConcat, DistinctConcat
    <3>3. Distinct(keys_left)'
      BY <3>2 DEF Distinct
    <3>4. asked' \cap Present' = ToSet(returned') \cup Rest'
                                   \cup ((ToSet(keys_left') \cup dropped' \cup raised') \cap Present')
      BY <1>1, <1>12, <1>13, <1>16, <2>4, <3>1, <3>2
    <3>5. /\ ToSet(returned') \cap Rest' = {}
          /\ (ToSet(returned') \cup Rest') \cap (ToSet(keys_left') \cup dropped' \cup raised') = {}
          /\ ToSet(keys_left') \cap (dropped' \cup raised') = {}
      BY <1>1, <1>10, <1>13, <1>16, <2>4, <3>1, <3>2
    <3>6. ToSet(keys_left') \subseteq Key
      BY <1>11, <3>2
    <3> QED
      BY <1>13, <1>16, <2>5, <2>6, <2>8, <3>2, <3>3, <3>4, <3>5, <3>6 DEF BatchGetInv
  <2> QED
    BY <2>7, <2>8
<1>17. ASSUME results' = <<>>, keys_left' = rest, results_left' = (rest # <<>>),
              raised' = raised \cup K, dropped' = dropped, call' = "idle"
       PROVE  ReadType' /\ BatchGetInv'
  <2>1. Len(results') = 0 /\ results' \in Seq(Nat) /\ Increasing(results)' /\ results_left' \in BOOLEAN
    BY <1>17 DEF Increasing
  <2>2. Rest' = {}
    BY <1>17, <2>1 DEF Rest
  <2>3. ReadType'
    BY <1>1, <1>14, <1>17, <2>1 DEF ReadInv, ReadType
  <2>4. keys_left' \in Seq(Nat) /\ ToSet(keys_left') = R /\ Distinct(keys_left)'
    BY <1>9, <1>10, <1>17 DEF Distinct
  <2>5. asked' \cap Present' = ToSet(returned') \cup Rest'
                                 \cup ((ToSet(keys_left') \cup dropped' \cup raised') \cap Present')
    BY <1>1, <1>12, <1>13, <1>17, <2>2, <2>4
  <2>6. /\ ToSet(returned') \cap Rest' = {}
        /\ (ToSet(returned') \cup Rest') \cap (ToSet(keys_left') \cup dropped' \cup raised') = {}
        /\ ToSet(keys_left') \cap (dropped' \cup raised') = {}
    BY <1>1, <1>10, <1>13, <1>17, <2>2, <2>4
  <2> QED
    BY <1>11, <1>13, <1>17, <2>2, <2>3, <2>4, <2>5, <2>6 DEF BatchGetInv
<1>18. ReadType' /\ BatchGetInv'
  BY <1>15, <1>16, <1>17
<1>19. ScanInv' /\ CountInv'
  BY <1>1 DEF ScanInv, CountInv
<1> QED
  BY <1>18, <1>19 DEF ReadInv

\* A page of a count adds the matching items after those counted so far.
LEMMA CountPageStep ==
    ASSUME ReadInv, CountPage, UNCHANGED batchVars
    PROVE  ReadInv'
<1>1. /\ call = "count" /\ query = "count"
      /\ UNCHANGED <<table, query, results, offset, results_left, limit, keys_left,
                     asked, returned, dropped, raised, block>>
  BY DEF CountPage, ReadInv, ReadType, batchVars
<1>2. PICK page \in Pages(None) :
         /\ count_buffer' = count_buffer + Len(page.results)
         /\ last_key_seen' = page.last_key
         /\ call' = IF LastPage(page) THEN "stopped" ELSE "count"
  BY DEF CountPage
<1>3. last_key_seen \in Key \cup {NoKey} /\ count_buffer = Cardinality(CountedSoFar)
  BY <1>1 DEF ReadInv, ReadType, CountInv
<1>4. PICK E : E = Evaluated(page.last_key) \cap Matching
  OBVIOUS
<1>5. last_key_seen' \in Key \cup {NoKey} /\ E \subseteq Present /\ Len(page.results) = Cardinality(E)
  BY <1>2, <1>3, <1>4, PageIs
<1>6. UNCHANGED <<Matches, Present>>
  BY <1>1 DEF Matches, Present
<1>7. {k \in Matches : page.last_key = NoKey \/ k <= page.last_key} = CountedSoFar \cup E
  <2> DEFINE Before == {k \in Present : last_key_seen # NoKey /\ k <= last_key_seen}
             Until == {k \in Present : page.last_key = NoKey \/ k <= page.last_key}
  <2>1. Until = Before \cup Evaluated(page.last_key)
    BY <1>3, PageFollows
  <2>2. CountedSoFar = Before \cap Matching
    BY DEF CountedSoFar, Matches
  <2>3. {k \in Matches : page.last_key = NoKey \/ k <= page.last_key} = Until \cap Matching
    BY DEF Matches
  <2> HIDE DEF Before, Until
  <2> QED
    BY <1>4, <2>1, <2>2, <2>3
<1>8. CountedSoFar \cap E = {}
  <2>1. \A x \in CountedSoFar, y \in E : x < y /\ x \in Nat
    BY <1>3, <1>4, PageFollows, PresentIs DEF CountedSoFar, Matches
  <2> QED
    BY <2>1
<1>9. /\ IsFiniteSet(CountedSoFar) /\ IsFiniteSet(E)
      /\ Cardinality(CountedSoFar) \in Nat /\ Cardinality(E) \in Nat
      /\ Cardinality(CountedSoFar \cup E) = Cardinality(CountedSoFar) + Cardinality(E)
  <2>1. CountedSoFar \in SUBSET Key /\ E \in SUBSET Key
    BY <1>5, PresentIs DEF CountedSoFar, Matches
  <2>2. IsFiniteSet(CountedSoFar) /\ IsFiniteSet(E)
    BY <2>1, PresentIs
  <2>3. Cardinality(CountedSoFar \cap E) = 0
    BY <1>8, FS_EmptySet
  <2>4. Cardinality(CountedSoFar) \in Nat /\ Cardinality(E) \in Nat
    BY <2>2, FS_CardinalityType
  <2>5. Cardinality(CountedSoFar \cup E)
          = Cardinality(CountedSoFar) + Cardinality(E) - Cardinality(CountedSoFar \cap E)
    BY <2>2, FS_Union
  <2> QED
    BY <2>2, <2>3, <2>4, <2>5
<1>10. count_buffer' = Cardinality(CountedSoFar \cup E)
  BY <1>2, <1>3, <1>5, <1>9
<1>11. ReadType'
  <2>1. call' \in {"count", "stopped"}
    BY <1>2
  <2> QED
    BY <1>1, <1>5, <2>1 DEF ReadInv, ReadType, Increasing
<1>12. CASE page.last_key = NoKey
  <2>1. CountedSoFar \cup E = Matches /\ call' = "stopped"
    BY <1>2, <1>7, <1>12 DEF LastPage
  <2> QED
    BY <1>1, <1>6, <1>10, <1>11, <2>1 DEF ReadInv, ScanInv, BatchGetInv, CountInv
<1>13. CASE page.last_key # NoKey
  <2>1. CountedSoFar' = CountedSoFar \cup E
    BY <1>2, <1>6, <1>7, <1>13 DEF CountedSoFar
  <2>2. call' = "stopped" => count_buffer' = 0
    BY <1>2, <1>13 DEF LastPage
  <2> QED
    BY <1>1, <1>10, <1>11, <2>1, <2>2 DEF ReadInv, ScanInv, BatchGetInv, CountInv
<1> QED
  BY <1>12, <1>13

\* Before a read.
LEMMA NothingRead ==
    ASSUME ReadType, query = "none"
    PROVE  /\ call = "idle" /\ results = <<>> /\ offset = -1 /\ results_left
           /\ last_key_seen = NoKey /\ limit = None /\ keys_left = <<>>
           /\ count_buffer = 0 /\ returned = <<>> /\ dropped = {} /\ raised = {}
           /\ Rest = {} /\ Covered = {} /\ CountedSoFar = {}
<1>1. ResultInit
  BY DEF ReadType
<1>2. Len(results) = 0
  BY <1>1 DEF ResultInit
<1> QED
  BY <1>1, <1>2 DEF ResultInit, Rest, Covered, CountedSoFar

LEMMA StartReadKeeps ==
    ASSUME ReadInv, StartRead
    PROVE  ReadInv'
<1>1. block' = "over" /\ query = "none" /\ table' = table
  BY DEF StartRead, Start, StartScan, StartBatchGet, StartCount
<1>2. /\ call = "idle" /\ results = <<>> /\ offset = -1 /\ results_left
      /\ last_key_seen = NoKey /\ limit = None /\ keys_left = <<>>
      /\ count_buffer = 0 /\ returned = <<>> /\ dropped = {} /\ raised = {}
      /\ Rest = {} /\ Covered = {} /\ CountedSoFar = {}
  BY <1>1, NothingRead DEF ReadInv
<1>3. UNCHANGED <<Present, Matches>>
  BY <1>1 DEF Present, Matches
<1>4. <<>> \in Seq(Nat) /\ Increasing(<<>>) /\ Distinct(<<>>) /\ Len(<<>>) = 0 /\ ToSet(<<>>) = {}
  BY ToSetEmpty DEF Increasing, Distinct
<1>5. CASE StartScan
  <2>1. /\ query' = "scan" /\ asked' = limit' /\ limit' \in Limits \cup {None}
        /\ UNCHANGED <<table, call, results, offset, results_left, last_key_seen, returned>>
    BY <1>5 DEF StartScan
  <2>2. ReadType'
    BY <1>1, <1>2, <1>4, <2>1 DEF ReadInv, ReadType, Increasing
  <2>3. LimitCounts'
    <3>1. Len(returned') = 0 /\ asked' = limit' /\ (limit' # None => limit' \in Nat)
      BY <1>2, <1>4, <2>1, ResultSetAssumption
    <3> QED
      BY <3>1 DEF LimitCounts
  <2>4. Rest' = {} /\ Covered' = {}
    BY <1>2, <1>3, <2>1 DEF Rest, Taken, Covered
  <2>5. ScanGoesOn'
    BY <1>2, <1>4, <2>1, <2>4 DEF ScanGoesOn
  <2>6. ScanInv'
    BY <1>2, <1>4, <2>1, <2>3, <2>5 DEF ScanInv, Increasing
  <2> QED
    BY <2>1, <2>2, <2>6 DEF ReadInv, BatchGetInv, CountInv
<1>6. CASE StartBatchGet
  <2>1. /\ query' = "batch_get"
        /\ UNCHANGED <<table, call, results, offset, results_left, last_key_seen, limit,
                       returned, dropped, raised>>
    BY <1>6 DEF StartBatchGet
  <2>2. PICK keys \in SUBSET Key : asked' = keys /\ keys_left' = Ordered(keys)
    BY <1>6 DEF StartBatchGet
  <2>3. /\ keys_left' \in Seq(Nat) /\ Distinct(keys_left') /\ ToSet(keys_left') = keys
    BY <2>2, OrderedKeys
  <2>4. ReadType'
    BY <1>1, <1>2, <1>4, <2>1 DEF ReadInv, ReadType, Increasing
  <2>5. Rest' = {}
    BY <1>2, <2>1 DEF Rest, Taken
  <2>6. Distinct(returned)' /\ Distinct(keys_left)' /\ ToSet(returned') = {}
    BY <1>2, <1>4, <2>1, <2>3 DEF Distinct
  <2>7. asked' \cap Present' = ToSet(returned') \cup Rest'
                                 \cup ((ToSet(keys_left') \cup dropped' \cup raised') \cap Present')
    BY <1>2, <2>1, <2>2, <2>3, <2>5, <2>6
  <2>8. BatchGetInv'
    BY <1>2, <2>1, <2>3, <2>5, <2>6, <2>7 DEF BatchGetInv
  <2> QED
    BY <2>1, <2>4, <2>8 DEF ReadInv, ScanInv, CountInv
<1>7. CASE StartCount
  <2>1. /\ query' = "count" /\ call' = "count"
        /\ UNCHANGED <<table, pageVars, limit, count_buffer, asked, returned>>
    BY <1>7 DEF StartCount
  <2>2. ReadType'
    BY <1>1, <1>2, <1>4, <2>1 DEF ReadInv, ReadType, Increasing, pageVars
  <2>3. CountedSoFar' = {} /\ Cardinality({}) = 0
    BY <1>2, <1>3, <2>1, FS_EmptySet DEF CountedSoFar, pageVars
  <2> QED
    BY <1>2, <2>1, <2>2, <2>3 DEF ReadInv, ScanInv, BatchGetInv, CountInv
<1> QED
  BY <1>5, <1>6, <1>7 DEF StartRead, Start

\* While the block is open nothing is read.
LEMMA BatchWriteKeeps ==
    ASSUME ReadInv, BatchWrite
    PROVE  ReadInv'
<1>1. block # "over" /\ UNCHANGED resultVars
  BY DEF BatchWrite, BatchNext, PutItem, DeleteItem, Issue, Exit, FlushRest,
         ResendUnprocessed, ExitReturns
<1>2. query = "none" /\ ReadType
  BY <1>1 DEF ReadInv, ReadType
<1>3. ResultInit'
  BY <1>1, <1>2 DEF ReadType, ResultInit, resultVars, pageVars
<1>4. ReadType'
  <2>1. results' \in Seq(Nat) /\ Increasing(results)' /\ returned' \in Seq(Nat)
    BY <1>3 DEF ResultInit, Increasing
  <2> QED
    BY <1>3, <2>1 DEF ReadType, ResultInit
<1> QED
  BY <1>3, <1>4 DEF ReadInv, ResultInit, ScanInv, BatchGetInv, CountInv

LEMMA ReadInvUnchanged ==
    ASSUME ReadInv, UNCHANGED vars
    PROVE  ReadInv'
<1>1. UNCHANGED <<table, query, call, results, offset, results_left, last_key_seen, limit,
                  keys_left, count_buffer, asked, returned, dropped, raised, block>>
  BY DEF vars, batchVars, resultVars, pageVars
<1>2. UNCHANGED <<Present, Matches, Covered, Rest, CountedSoFar>>
  BY <1>1 DEF Present, Matches, Covered, Rest, Taken, CountedSoFar
<1>3. ReadType'
  <2>1. max_page_size' = max_page_size
    BY DEF vars, resultVars, pageVars
  <2> QED
    BY <1>1, <2>1 DEF ReadInv, ReadType, ResultInit, Increasing
<1>4. ScanInv'
  BY <1>1, <1>2 DEF ReadInv, ScanInv, ScanGoesOn, LimitCounts, Increasing
<1>5. BatchGetInv'
  BY <1>1, <1>2 DEF ReadInv, BatchGetInv, Distinct
<1>6. CountInv'
  BY <1>1, <1>2 DEF ReadInv, CountInv
<1> QED
  BY <1>3, <1>4, <1>5, <1>6 DEF ReadInv

LEMMA ReadInvInit == Init => ReadInv
<1> SUFFICES ASSUME Init PROVE ReadInv
  OBVIOUS
<1>1. ResultInit
  BY DEF Init
<1>2. results \in Seq(Nat) /\ Increasing(results) /\ returned \in Seq(Nat)
  BY <1>1 DEF ResultInit, Increasing
<1> QED
  BY <1>1, <1>2 DEF ReadInv, ReadType, ResultInit, ScanInv, BatchGetInv, CountInv

LEMMA NextReadInv == ReadInv /\ [Next]_vars => ReadInv'
<1> SUFFICES ASSUME ReadInv, [Next]_vars PROVE ReadInv'
  OBVIOUS
<1>1. CASE BatchWrite
  BY <1>1, BatchWriteKeeps
<1>2. CASE StartRead
  BY <1>2, StartReadKeeps
<1>3. CASE Read
  <2>1. UNCHANGED batchVars
    BY <1>3 DEF Read
  <2>2. CASE NextCalled
    BY <2>1, <2>2, NextCalledStep
  <2>3. CASE FetchMore
    BY <2>1, <2>3, FetchMoreStep
  <2>4. CASE FetchRaises
    BY <2>1, <2>4, FetchRaisesStep
  <2>5. CASE FetchMoreKeys
    BY <2>1, <2>5, FetchMoreKeysStep
  <2>6. CASE Yield
    BY <2>1, <2>6, YieldStep
  <2>7. CASE CountPage
    BY <2>1, <2>7, CountPageStep
  <2> QED
    BY <1>3, <2>2, <2>3, <2>4, <2>5, <2>6, <2>7 DEF Read, CallStep
<1>4. CASE UNCHANGED vars
  BY <1>4, ReadInvUnchanged
<1> QED
  BY <1>1, <1>2, <1>3, <1>4 DEF Next

\* The inductive invariant of the reads, for any table, any pages of the
\* service and any requests that raise.
THEOREM ReadInvariant == Spec => []ReadInv
BY ReadInvInit, NextReadInv, PTL DEF Spec

\* A scan gives the matching items in order, each once, up to its limit,
\* for any keys and any limit (results.py:47-140).
THEOREM ScanGivesFirst == Spec => []ScanReturnsFirst
<1>1. ReadInv => ScanReturnsFirst
  <2> SUFFICES ASSUME ReadInv, query = "scan" PROVE ScanReturnsFirst
    BY DEF ScanReturnsFirst
  <2>1. PICK all : all = Ordered(Matches)
    OBVIOUS
  <2>2. Matches \in SUBSET Nat /\ IsFiniteSet(Matches)
    <3>1. Matches \in SUBSET Key
      BY PresentIs DEF Matches
    <3> QED
      BY <3>1, PresentIs
  <2>3. /\ returned \in Seq(Nat) /\ Increasing(returned) /\ ToSet(returned) \subseteq Matches
        /\ \A x \in Matches, y \in ToSet(returned) : x <= y => x \in ToSet(returned)
        /\ LimitCounts
        /\ call = "stopped" => ToSet(returned) = Matches \/ limit = 0
    BY DEF ReadInv, ReadType, ScanInv
  <2>4. /\ IsPrefix(returned, all) /\ Len(returned) <= Len(all)
        /\ ToSet(returned) = Matches => Len(returned) = Len(all)
    BY <2>1, <2>2, <2>3, PrefixIs
  <2>5. Len(all) \in Nat /\ Len(returned) \in Nat
    BY <2>1, <2>2, <2>3, OrderedIs
  <2>6. ASSUME call = "stopped"
        PROVE  Len(returned) = IF asked # None /\ asked < Len(all) THEN asked ELSE Len(all)
    <3>1. CASE asked = None
      BY <2>3, <2>4, <2>6, <3>1, ResultSetAssumption DEF LimitCounts
    <3>2. CASE asked # None
      <4>1. asked \in Nat /\ limit \in Nat /\ limit + Len(returned) = asked
        BY <2>3, <3>2 DEF LimitCounts
      <4>2. Len(returned) = Len(all) \/ Len(returned) = asked
        BY <2>3, <2>4, <2>5, <2>6, <4>1
      <4> QED
        BY <2>4, <2>5, <3>2, <4>1, <4>2
    <3> QED
      BY <3>1, <3>2
  <2> QED
    BY <2>1, <2>4, <2>6 DEF ScanReturnsFirst, Matches
<1> QED
  BY <1>1, ReadInvariant, PTL

\* A batch_get gives the item of every key once, but for keys it has dropped
\* and those of calls that raised, for any keys and any size of a request
\* (results.py:164-204).
THEOREM BatchGivesRest == Spec => []BatchReturnsRest
<1>1. ReadInv => BatchReturnsRest
  <2> SUFFICES ASSUME ReadInv, query = "batch_get" PROVE BatchReturnsRest
    BY DEF BatchReturnsRest
  <2>1. BatchGetInv /\ returned \in Seq(Nat)
    BY DEF ReadInv, ReadType
  <2>2. \A m, n \in 1..Len(returned) : m # n => returned[m] # returned[n]
    <3>1. DOMAIN returned = 1..Len(returned)
      BY <2>1
    <3> QED
      BY <2>1, <3>1 DEF BatchGetInv, Distinct
  <2>3. ASSUME call = "stopped"
        PROVE  ToSet(returned) = (asked \cap Present) \ (dropped \cup raised)
    <3>1. Rest = {} /\ ToSet(keys_left) = {}
      BY <2>1, <2>3, ToSetEmpty DEF BatchGetInv
    <3> QED
      BY <2>1, <3>1 DEF BatchGetInv
  <2> QED
    BY <2>2, <2>3 DEF BatchReturnsRest
<1> QED
  BY <1>1, ReadInvariant, PTL

\* query_count is exact when it has found anything, however its pages fall
\* (table.py:1287-1309).
THEOREM CountIsExact == Spec => []CountIsExactOrZero
<1>1. ReadInv => CountIsExactOrZero
  BY DEF ReadInv, CountInv, CountIsExactOrZero, Matches
<1> QED
  BY <1>1, ReadInvariant, PTL
=============================================================================
