----------------------------- MODULE MexeProofs -----------------------------
(***************************************************************************)
(* Proofs about the connection pool and the request loop, for any number   *)
(* of threads, connections and hosts and any durations.  The queue lemmas  *)
(* say what cleaning and getting do to a queue position by position; the   *)
(* invariant of the specification follows from them.                       *)
(***************************************************************************)
EXTENDS IdleTimeout, TLAPS, SequenceTheorems, WellFoundedInduction

-----------------------------------------------------------------------------
(* Queues.                                                                 *)

\* A set of positions that is not empty has a first one, and First is it: the
\* loops of HostConnectionPool stop where the code says (connection.py:152-157).
LEMMA FirstIsLeast ==
  ASSUME NEW S \in SUBSET Nat, S # {}
  PROVE  First(S) \in S /\ \A j \in S : First(S) <= j
<1> DEFINE R == OpToRel(<, Nat)
<1>1. IsWellFoundedOn(R, Nat)
  BY NatLessThanWellFounded
<1>2. \A x, y \in Nat : y < x => <<y, x>> \in R
  BY DEF R, OpToRel
<1> HIDE DEF R
<1>3. PICK x \in S : \A y \in S : ~(<<y, x>> \in R)
  BY <1>1, WFMin
<1>4. ASSUME NEW y \in S
      PROVE  x <= y
  <2>1. x \in Nat /\ y \in Nat
    OBVIOUS
  <2>2. ~(y < x)
    BY <1>2, <1>3, <2>1
  <2> QED
    BY <2>1, <2>2
<1> QED
  BY <1>3, <1>4 DEF First

\* Cleaning drops a prefix, and what is then in front is not stale
\* (connection.py:183-190).
LEMMA HostCleanShape ==
  ASSUME NEW queue \in Seq(Pair)
  PROVE  \E k \in 0..Len(queue) :
           /\ HostClean(queue) \in Seq(Pair)
           /\ Len(HostClean(queue)) = Len(queue) - k
           /\ \A m \in 1..(Len(queue) - k) : HostClean(queue)[m] = queue[m + k]
           /\ k < Len(queue) => ~PairStale(queue[k + 1])
<1> DEFINE fresh == {p \in 1..Len(queue) : ~PairStale(queue[p])}
<1>1. Len(queue) \in Nat /\ fresh \in SUBSET Nat
  OBVIOUS
<1>2. CASE fresh = {}
  <2>1. HostClean(queue) = <<>>
    BY <1>2 DEF HostClean
  <2> QED
    BY <1>1, <2>1, EmptySeq
<1>3. CASE fresh # {}
  <2>1. First(fresh) \in fresh
    BY <1>1, <1>3, FirstIsLeast
  <2>2. PICK f : f = First(fresh)
    OBVIOUS
  <2>3. HostClean(queue) = SubSeq(queue, f, Len(queue))
    BY <1>3, <2>2 DEF HostClean
  <2>4. f \in 1..Len(queue) /\ ~PairStale(queue[f])
    BY <2>1, <2>2
  <2>5. \A p \in f..Len(queue) : queue[p] \in Pair
    BY <1>1, <2>4, ElementOfSeq
  <2>6. /\ SubSeq(queue, f, Len(queue)) \in Seq(Pair)
        /\ Len(SubSeq(queue, f, Len(queue))) = Len(queue) - f + 1
        /\ \A p \in 1..(Len(queue) - f + 1) : SubSeq(queue, f, Len(queue))[p] = queue[f + p - 1]
    BY <1>1, <2>4, <2>5, SubSeqProperties
  <2>7. f - 1 \in 0..Len(queue) /\ Len(queue) - (f - 1) = Len(queue) - f + 1 /\ (f - 1) + 1 = f
    BY <1>1, <2>4
  <2>8. \A m \in 1..(Len(queue) - (f - 1)) : f + m - 1 = m + (f - 1)
    BY <1>1, <2>4
  <2>9. \A m \in 1..(Len(queue) - (f - 1)) : HostClean(queue)[m] = queue[m + (f - 1)]
    BY <2>3, <2>6, <2>7, <2>8
  <2> QED
    BY <2>3, <2>4, <2>6, <2>7, <2>9
<1> QED
  BY <1>2, <1>3

\* Restamping changes the times only.
LEMMA RestampShape ==
  ASSUME NEW queue \in Seq(Pair), now \in Nat
  PROVE  /\ Restamp(queue) \in Seq(Pair)
         /\ Len(Restamp(queue)) = Len(queue)
         /\ \A m \in 1..Len(queue) : Restamp(queue)[m] = [conn |-> queue[m].conn, time |-> now]
<1>1. \A m \in 1..Len(queue) : queue[m] \in Pair
  BY ElementOfSeq
<1>2. \A m \in 1..Len(queue) : [conn |-> queue[m].conn, time |-> now] \in Pair
  BY <1>1 DEF Pair
<1> QED
  BY <1>2 DEF Restamp

\* get() on a cleaned queue with a ready pair: the pairs behind it keep their
\* times and come first, the pairs before it follow with the current time
\* (connection.py:152-157).
LEMMA HostGetShape ==
  ASSUME NEW queue \in Seq(Pair), Ready(queue) # {}, now \in Nat
  PROVE  \E r \in 1..Len(queue) :
           /\ r = First(Ready(queue))
           /\ ConnReady(queue[r].conn)
           /\ HostAfterGet(queue) \in Seq(Pair)
           /\ Len(HostAfterGet(queue)) = Len(queue) - 1
           /\ \A m \in 1..(Len(queue) - r) : HostAfterGet(queue)[m] = queue[m + r]
           /\ \A m \in (Len(queue) - r + 1)..(Len(queue) - 1) :
                HostAfterGet(queue)[m] =
                  [conn |-> queue[m - (Len(queue) - r)].conn, time |-> now]
<1>1. Len(queue) \in Nat /\ Ready(queue) \in SUBSET Nat
  BY DEF Ready
<1>2. First(Ready(queue)) \in Ready(queue)
  BY <1>1, FirstIsLeast
<1>3. PICK r : r = First(Ready(queue))
  OBVIOUS
<1>4. r \in 1..Len(queue) /\ ConnReady(queue[r].conn)
  BY <1>2, <1>3 DEF Ready
<1>5. \A p \in 1..Len(queue) : queue[p] \in Pair
  BY ElementOfSeq
<1> DEFINE behind == SubSeq(queue, r + 1, Len(queue))
           before == SubSeq(queue, 1, r - 1)
<1>6. /\ behind \in Seq(Pair)
      /\ Len(behind) = Len(queue) - r
      /\ \A m \in 1..(Len(queue) - r) : behind[m] = queue[m + r]
  <2> DEFINE a == r + 1
  <2>1. a \in 1..(Len(queue) + 1) /\ \A p \in a..Len(queue) : queue[p] \in Pair
    BY <1>1, <1>4, <1>5
  <2> HIDE DEF a
  <2>a. /\ SubSeq(queue, a, Len(queue)) \in Seq(Pair)
        /\ Len(SubSeq(queue, a, Len(queue))) = IF a <= Len(queue) THEN Len(queue) - a + 1 ELSE 0
        /\ \A p \in 1..(Len(queue) - a + 1) : SubSeq(queue, a, Len(queue))[p] = queue[a + p - 1]
    BY <1>1, <2>1, SubSeqProperties
  <2>2. /\ behind \in Seq(Pair)
        /\ Len(behind) = IF r + 1 <= Len(queue) THEN Len(queue) - (r + 1) + 1 ELSE 0
        /\ \A p \in 1..(Len(queue) - (r + 1) + 1) : behind[p] = queue[(r + 1) + p - 1]
    BY <2>a, Zenon DEF a
  <2>3. \A m \in 1..(Len(queue) - r) : (r + 1) + m - 1 = m + r
    BY <1>1, <1>4
  <2>4. Len(queue) - (r + 1) + 1 = Len(queue) - r
    BY <1>1, <1>4
  <2> HIDE DEF behind
  <2>5. Len(behind) = Len(queue) - r
    BY <1>1, <1>4, <2>2
  <2> QED
    BY <2>2, <2>3, <2>4, <2>5
<1>7. /\ before \in Seq(Pair)
      /\ Len(before) = r - 1
      /\ \A m \in 1..(r - 1) : before[m] = queue[m]
  <2>1. \A p \in 1..(r - 1) : queue[p] \in Pair
    BY <1>1, <1>4, <1>5
  <2>2. /\ before \in Seq(Pair)
        /\ Len(before) = IF 1 <= r - 1 THEN r - 1 - 1 + 1 ELSE 0
        /\ \A p \in 1..(r - 1 - 1 + 1) : before[p] = queue[1 + p - 1]
    BY <1>1, <1>4, <2>1, SubSeqProperties
  <2>3. \A m \in 1..(r - 1) : 1 + m - 1 = m
    BY <1>4
  <2>4. r - 1 - 1 + 1 = r - 1
    BY <1>4
  <2> HIDE DEF before
  <2>5. Len(before) = r - 1
    BY <1>4, <2>2
  <2> QED
    BY <2>2, <2>3, <2>4, <2>5
<1>8. HostAfterGet(queue) = behind \o Restamp(before)
  BY <1>3 DEF HostAfterGet
<1> HIDE DEF behind, before
<1>9. /\ Restamp(before) \in Seq(Pair)
      /\ Len(Restamp(before)) = r - 1
      /\ \A m \in 1..(r - 1) : Restamp(before)[m] = [conn |-> queue[m].conn, time |-> now]
  BY <1>7, RestampShape
<1>10. /\ HostAfterGet(queue) \in Seq(Pair)
       /\ Len(HostAfterGet(queue)) = (Len(queue) - r) + (r - 1)
       /\ \A m \in 1..((Len(queue) - r) + (r - 1)) :
            HostAfterGet(queue)[m] = IF m <= Len(queue) - r THEN behind[m]
                                     ELSE Restamp(before)[m - (Len(queue) - r)]
  <2> DEFINE turned == Restamp(before)
  <2>1. turned \in Seq(Pair) /\ Len(turned) = r - 1
    BY <1>9
  <2> HIDE DEF turned
  <2>2. /\ behind \o turned \in Seq(Pair)
        /\ Len(behind \o turned) = Len(behind) + Len(turned)
        /\ \A m \in 1..(Len(behind) + Len(turned)) :
             (behind \o turned)[m] = IF m <= Len(behind) THEN behind[m]
                                     ELSE turned[m - Len(behind)]
    BY <1>6, <2>1, ConcatProperties, Zenon
  <2>3. HostAfterGet(queue) = behind \o turned
    BY <1>8 DEF turned
  <2>4. Len(behind) = Len(queue) - r
    BY <1>6
  <2>5. /\ HostAfterGet(queue) \in Seq(Pair)
        /\ Len(HostAfterGet(queue)) = (Len(queue) - r) + (r - 1)
        /\ \A m \in 1..((Len(queue) - r) + (r - 1)) :
             HostAfterGet(queue)[m] = IF m <= Len(queue) - r THEN behind[m]
                                      ELSE turned[m - (Len(queue) - r)]
    BY <2>1, <2>2, <2>3, <2>4, Zenon
  <2> QED
    BY <2>5 DEF turned
<1>11. (Len(queue) - r) + (r - 1) = Len(queue) - 1
  BY <1>1, <1>4
<1>12. ASSUME NEW m \in 1..(Len(queue) - r)
       PROVE  HostAfterGet(queue)[m] = queue[m + r]
  <2>1. m \in 1..((Len(queue) - r) + (r - 1)) /\ m <= Len(queue) - r
    BY <1>1, <1>4
  <2>2. HostAfterGet(queue)[m] = behind[m]
    BY <1>10, <2>1
  <2> QED
    BY <1>6, <2>2
<1>13. ASSUME NEW m \in (Len(queue) - r + 1)..(Len(queue) - 1)
       PROVE  HostAfterGet(queue)[m] =
                [conn |-> queue[m - (Len(queue) - r)].conn, time |-> now]
  <2>1. m \in 1..((Len(queue) - r) + (r - 1)) /\ ~(m <= Len(queue) - r)
    BY <1>1, <1>4
  <2>2. m - (Len(queue) - r) \in 1..(r - 1)
    BY <1>1, <1>4
  <2> QED
    BY <1>9, <1>10, <2>1, <2>2
<1> QED
  BY <1>3, <1>4, <1>10, <1>11, <1>12, <1>13

-----------------------------------------------------------------------------
(* What the operations do to the connections and times of one queue.       *)

ConnsOf(queue) == {queue[m].conn : m \in 1..Len(queue)}

Distinct(queue) == \A m, n \in 1..Len(queue) : queue[m].conn = queue[n].conn => m = n

InOrder(queue) ==
    \A m, n \in 1..Len(queue) :
       /\ queue[m].time <= now
       /\ m <= n => queue[m].time <= queue[n].time

\* `after' is a queue made from `before' without adding a connection.
Narrower(after, before) ==
    /\ after \in Seq(Pair)
    /\ ConnsOf(after) \subseteq ConnsOf(before)
    /\ Distinct(before) => Distinct(after)
    /\ InOrder(before) => InOrder(after)

\* Cleaning keeps a queue free of duplicates and in order, and adds nothing
\* (connection.py:183-190).
LEMMA HostCleanKeeps ==
  ASSUME NEW queue \in Seq(Pair)
  PROVE  Narrower(HostClean(queue), queue)
<1>1. PICK k \in 0..Len(queue) :
        /\ HostClean(queue) \in Seq(Pair)
        /\ Len(HostClean(queue)) = Len(queue) - k
        /\ \A m \in 1..(Len(queue) - k) : HostClean(queue)[m] = queue[m + k]
  BY HostCleanShape
<1> DEFINE cleaned == HostClean(queue)
<1>2. cleaned \in Seq(Pair) /\ Len(cleaned) = Len(queue) - k /\ Len(queue) \in Nat
  BY <1>1
<1>3. \A m \in 1..Len(cleaned) : m + k \in 1..Len(queue) /\ cleaned[m] = queue[m + k]
  BY <1>1, <1>2
<1> HIDE DEF cleaned
<1>4. \A m \in 1..Len(cleaned) : m \in Int
  OBVIOUS
<1>5. ConnsOf(cleaned) \subseteq ConnsOf(queue)
  BY <1>3 DEF ConnsOf
<1>6. ASSUME Distinct(queue)
      PROVE  Distinct(cleaned)
  <2> SUFFICES ASSUME NEW m \in 1..Len(cleaned), NEW n \in 1..Len(cleaned),
                      cleaned[m].conn = cleaned[n].conn
               PROVE  m = n
    BY DEF Distinct
  <2>1. /\ m + k \in 1..Len(queue) /\ cleaned[m] = queue[m + k]
        /\ n + k \in 1..Len(queue) /\ cleaned[n] = queue[n + k]
    BY <1>3
  <2>2. m + k = n + k
    BY <1>6, <2>1 DEF Distinct
  <2> QED
    BY <2>2
<1>7. ASSUME InOrder(queue)
      PROVE  InOrder(cleaned)
  <2> SUFFICES ASSUME NEW m \in 1..Len(cleaned), NEW n \in 1..Len(cleaned)
               PROVE  /\ cleaned[m].time <= now
                      /\ m <= n => cleaned[m].time <= cleaned[n].time
    BY DEF InOrder
  <2>1. m <= n => m + k <= n + k
    OBVIOUS
  <2>2. /\ m + k \in 1..Len(queue) /\ cleaned[m] = queue[m + k]
        /\ n + k \in 1..Len(queue) /\ cleaned[n] = queue[n + k]
    BY <1>3
  <2>3. /\ queue[m + k].time <= now
        /\ m + k <= n + k => queue[m + k].time <= queue[n + k].time
    BY <1>7, <2>2 DEF InOrder
  <2> QED
    BY <2>1, <2>2, <2>3
<1> QED
  BY <1>2, <1>5, <1>6, <1>7 DEF cleaned, Narrower

\* A queue in order has no stale pair left after cleaning, wherever it stands:
\* the reason why cleaning from the front is enough (connection.py:183-190).
LEMMA HostCleanFresh ==
  ASSUME NEW queue \in Seq(Pair), InOrder(queue), now \in Nat
  PROVE  \A m \in 1..Len(HostClean(queue)) : ~PairStale(HostClean(queue)[m])
<1>1. PICK k \in 0..Len(queue) :
        /\ HostClean(queue) \in Seq(Pair)
        /\ Len(HostClean(queue)) = Len(queue) - k
        /\ \A m \in 1..(Len(queue) - k) : HostClean(queue)[m] = queue[m + k]
        /\ k < Len(queue) => ~PairStale(queue[k + 1])
  BY HostCleanShape
<1> SUFFICES ASSUME NEW m \in 1..Len(HostClean(queue))
             PROVE  ~PairStale(HostClean(queue)[m])
  OBVIOUS
<1>2. /\ m + k \in 1..Len(queue) /\ k + 1 \in 1..Len(queue) /\ k + 1 <= m + k
      /\ HostClean(queue)[m] = queue[m + k]
      /\ k < Len(queue)
  BY <1>1
<1>3. queue[k + 1] \in Pair /\ queue[m + k] \in Pair
  BY <1>2, ElementOfSeq
<1>4. queue[k + 1].time <= queue[m + k].time
  BY <1>2 DEF InOrder
<1>5. queue[k + 1].time \in Nat /\ queue[m + k].time \in Nat
  BY <1>3 DEF Pair
<1>6. ~(queue[k + 1].time + STALE_DURATION < now)
  BY <1>1, <1>2 DEF PairStale
<1>7. \A a, b, d, e \in Nat : a <= b /\ ~(a + d < e) => ~(b + d < e)
  OBVIOUS
<1>8. ~(queue[m + k].time + STALE_DURATION < now)
  BY <1>4, <1>5, <1>6, <1>7, PoolAssumption, Zenon DEF PoolAssumption
<1> QED
  BY <1>2, <1>8 DEF PairStale

\* get() with no ready pair turns the queue: the connections stay
\* (connection.py:152-158).
LEMMA HostGetMissKeeps ==
  ASSUME NEW queue \in Seq(Pair), Ready(queue) = {}, now \in Nat
  PROVE  Narrower(HostAfterGet(queue), queue)
<1> DEFINE turned == HostAfterGet(queue)
<1>1. turned = Restamp(queue)
  BY DEF HostAfterGet
<1>2. /\ turned \in Seq(Pair)
      /\ Len(turned) = Len(queue)
      /\ \A m \in 1..Len(queue) : turned[m] = [conn |-> queue[m].conn, time |-> now]
  BY <1>1, RestampShape
<1> HIDE DEF turned
<1>3. ASSUME NEW m \in 1..Len(turned)
      PROVE  turned[m].conn = queue[m].conn /\ turned[m].time = now
  <2>1. turned[m] = [conn |-> queue[m].conn, time |-> now]
    BY <1>2
  <2> QED
    BY <2>1
<1>4. ConnsOf(turned) \subseteq ConnsOf(queue)
  BY <1>2, <1>3 DEF ConnsOf
<1>5. Distinct(queue) => Distinct(turned)
  BY <1>2, <1>3 DEF Distinct
<1>6. InOrder(turned)
  BY <1>3 DEF InOrder
<1> QED
  BY <1>2, <1>4, <1>5, <1>6 DEF turned, Narrower

\* get() with a ready pair takes exactly that connection out of the queue
\* (connection.py:152-157).
LEMMA HostGetHitKeeps ==
  ASSUME NEW queue \in Seq(Pair), Ready(queue) # {}, now \in Nat,
         NEW c, c = queue[First(Ready(queue))].conn
  PROVE  /\ Narrower(HostAfterGet(queue), queue)
         /\ First(Ready(queue)) \in 1..Len(queue)
         /\ ConnReady(c)
         /\ Distinct(queue) => c \notin ConnsOf(HostAfterGet(queue))
<1>1. PICK r \in 1..Len(queue) :
        /\ r = First(Ready(queue))
        /\ ConnReady(queue[r].conn)
        /\ HostAfterGet(queue) \in Seq(Pair)
        /\ Len(HostAfterGet(queue)) = Len(queue) - 1
        /\ \A m \in 1..(Len(queue) - r) : HostAfterGet(queue)[m] = queue[m + r]
        /\ \A m \in (Len(queue) - r + 1)..(Len(queue) - 1) :
             HostAfterGet(queue)[m] =
               [conn |-> queue[m - (Len(queue) - r)].conn, time |-> now]
  BY HostGetShape
<1> DEFINE left == HostAfterGet(queue)
           from(m) == IF m <= Len(queue) - r THEN m + r ELSE m - (Len(queue) - r)
<1>2. Len(queue) \in Nat /\ Len(left) = Len(queue) - 1 /\ left \in Seq(Pair)
  BY <1>1
<1>3. \A m \in 1..Len(left) :
        /\ m <= Len(queue) - r => left[m] = queue[m + r]
        /\ ~(m <= Len(queue) - r) =>
             left[m] = [conn |-> queue[m - (Len(queue) - r)].conn, time |-> now]
  BY <1>1, <1>2
<1> HIDE DEF left
<1>4. ASSUME NEW m \in 1..Len(left)
      PROVE  /\ from(m) \in 1..Len(queue)
             /\ from(m) # r
             /\ left[m].conn = queue[from(m)].conn
  <2>1. CASE m <= Len(queue) - r
    <3>1. from(m) = m + r /\ left[m] = queue[m + r]
      BY <1>3, <2>1
    <3>2. m + r \in 1..Len(queue) /\ m + r # r
      BY <1>2, <2>1
    <3> QED
      BY <3>1, <3>2
  <2>2. CASE ~(m <= Len(queue) - r)
    <3>1. left[m] = [conn |-> queue[m - (Len(queue) - r)].conn, time |-> now]
      BY <1>3, <2>2
    <3>2. left[m].conn = queue[m - (Len(queue) - r)].conn
      BY <3>1
    <3>3. from(m) = m - (Len(queue) - r)
      BY <2>2
    <3>4. m - (Len(queue) - r) \in 1..Len(queue) /\ m - (Len(queue) - r) # r
      BY <1>2, <2>2
    <3> QED
      BY <3>2, <3>3, <3>4
  <2> QED
    BY <2>1, <2>2
<1>5. \A m, n \in 1..Len(left) : from(m) = from(n) => m = n
  BY <1>2
<1>6. \A m, n \in 1..Len(left) : m <= n /\ n <= Len(queue) - r => from(m) <= from(n)
  BY <1>2
<1>7. /\ ConnsOf(left) \subseteq ConnsOf(queue)
      /\ Distinct(queue) => c \notin ConnsOf(left)
  <2> HIDE DEF from
  <2>1. c = queue[r].conn
    BY <1>1
  <2>2. ConnsOf(left) \subseteq ConnsOf(queue)
    BY <1>4 DEF ConnsOf
  <2>3. ASSUME Distinct(queue), NEW m \in 1..Len(left)
        PROVE  left[m].conn # c
    BY <1>4, <2>1, <2>3 DEF Distinct
  <2> QED
    BY <2>2, <2>3 DEF ConnsOf
<1>8. Distinct(queue) => Distinct(left)
  <2> HIDE DEF from
  <2> QED
    BY <1>4, <1>5 DEF Distinct
<1>9. ASSUME InOrder(queue)
      PROVE  InOrder(left)
  <2>1. \A m \in 1..Len(left) : m <= Len(queue) - r => left[m].time = queue[from(m)].time
    BY <1>3
  <2>2. ASSUME NEW m \in 1..Len(left), ~(m <= Len(queue) - r)
        PROVE  left[m].time = now
    <3>1. left[m] = [conn |-> queue[m - (Len(queue) - r)].conn, time |-> now]
      BY <1>3, <2>2
    <3> QED
      BY <3>1
  <2>3. \A m, n \in 1..Len(left) : m <= n => (n <= Len(queue) - r => m <= Len(queue) - r)
    BY <1>2
  <2> HIDE DEF from
  <2>4. ASSUME NEW m \in 1..Len(left)
        PROVE  left[m].time <= now
    <3>1. CASE m <= Len(queue) - r
      BY <1>4, <1>9, <2>1, <3>1 DEF InOrder
    <3>2. CASE ~(m <= Len(queue) - r)
      BY <2>2, <3>2
    <3> QED
      BY <3>1, <3>2
  <2>5. ASSUME NEW m \in 1..Len(left), NEW n \in 1..Len(left), m <= n
        PROVE  left[m].time <= left[n].time
    <3>1. CASE n <= Len(queue) - r
      BY <1>4, <1>6, <1>9, <2>1, <2>3, <2>5, <3>1 DEF InOrder
    <3>2. CASE ~(n <= Len(queue) - r)
      BY <2>2, <2>4, <3>2
    <3> QED
      BY <3>1, <3>2
  <2> QED
    BY <2>4, <2>5 DEF InOrder
<1> QED
  BY <1>1, <1>2, <1>7, <1>8, <1>9 DEF left, Narrower

\* put() adds the connection at the end with the current time
\* (connection.py:133-138).
LEMMA HostPutKeeps ==
  ASSUME NEW queue \in Seq(Pair), NEW c \in Conn, now \in Nat
  PROVE  /\ HostPut(queue, c) \in Seq(Pair)
         /\ ConnsOf(HostPut(queue, c)) \subseteq ConnsOf(queue) \cup {c}
         /\ Distinct(queue) /\ c \notin ConnsOf(queue) => Distinct(HostPut(queue, c))
         /\ InOrder(queue) => InOrder(HostPut(queue, c))
<1> DEFINE pair == [conn |-> c, time |-> now]
           longer == Append(queue, pair)
<1>1. pair \in Pair
  BY DEF Pair
<1>2. /\ longer \in Seq(Pair)
      /\ Len(longer) = Len(queue) + 1
      /\ \A m \in 1..Len(queue) : longer[m] = queue[m]
      /\ longer[Len(queue) + 1] = pair
  BY <1>1, AppendProperties
<1>3. Len(queue) \in Nat
  OBVIOUS
<1> HIDE DEF longer
<1>4. \A m \in 1..Len(longer) :
         \/ m \in 1..Len(queue) /\ longer[m] = queue[m]
         \/ m = Len(queue) + 1 /\ longer[m].conn = c /\ longer[m].time = now
  BY <1>2, <1>3
<1>5. ConnsOf(longer) \subseteq ConnsOf(queue) \cup {c}
  BY <1>4 DEF ConnsOf
<1>6. Distinct(queue) /\ c \notin ConnsOf(queue) => Distinct(longer)
  BY <1>4 DEF ConnsOf, Distinct
<1>7. InOrder(queue) => InOrder(longer)
  BY <1>2, <1>3, <1>4 DEF InOrder
<1> QED
  BY <1>2, <1>5, <1>6, <1>7 DEF longer, HostPut

-----------------------------------------------------------------------------
(* What the operations do to the pool.                                     *)

PoolDistinct ==
    /\ \A key \in DOMAIN host_to_pool : Distinct(host_to_pool[key])
    /\ \A k, l \in DOMAIN host_to_pool :
          k # l => ConnsOf(host_to_pool[k]) \cap ConnsOf(host_to_pool[l]) = {}

PoolInOrder == \A key \in DOMAIN host_to_pool : InOrder(host_to_pool[key])

\* A connection is pooled if some queue has it.
LEMMA PooledIs ==
  Pooled = {c \in Conn : \E key \in DOMAIN host_to_pool : c \in ConnsOf(host_to_pool[key])}
BY DEF Pooled, ConnsOf

\* An operation that narrows the queues keeps the pool's invariants.
LEMMA PoolNarrows ==
  ASSUME PoolTypeOK,
         DOMAIN host_to_pool' \subseteq DOMAIN host_to_pool,
         \A key \in DOMAIN host_to_pool' : Narrower(host_to_pool'[key], host_to_pool[key]),
         now' = now
  PROVE  /\ DOMAIN host_to_pool' \subseteq Remote
         /\ \A key \in DOMAIN host_to_pool' : host_to_pool'[key] \in Seq(Pair)
         /\ Pooled' \subseteq Pooled
         /\ PoolDistinct => PoolDistinct'
         /\ PoolInOrder => PoolInOrder'
<1>1. /\ DOMAIN host_to_pool' \subseteq Remote
      /\ \A key \in DOMAIN host_to_pool' : host_to_pool'[key] \in Seq(Pair)
  BY DEF PoolTypeOK, Narrower
<1>2. Pooled' \subseteq Pooled
  <2>1. Pooled' = {c \in Conn : \E key \in DOMAIN host_to_pool' : c \in ConnsOf(host_to_pool'[key])}
    BY DEF Pooled, ConnsOf
  <2> QED
    BY <2>1, PooledIs DEF Narrower
<1>3. PoolDistinct => PoolDistinct'
  BY DEF PoolDistinct, Narrower
<1>4. ASSUME PoolInOrder
      PROVE  PoolInOrder'
  <2>1. \A key \in DOMAIN host_to_pool' : InOrder(host_to_pool'[key])
    BY <1>4 DEF PoolInOrder, Narrower
  <2> QED
    BY <2>1 DEF PoolInOrder, InOrder
<1> QED
  BY <1>1, <1>2, <1>3, <1>4

\* A queue is narrower than itself, and narrowing composes.
LEMMA NarrowerOrder ==
  /\ \A q \in Seq(Pair) : Narrower(q, q)
  /\ \A p, q, r : Narrower(r, q) /\ Narrower(q, p) => Narrower(r, p)
BY DEF Narrower

\* ConnectionPool.clean (connection.py:282-300).
LEMMA PoolCleanNarrows ==
  ASSUME PoolTypeOK, PoolClean
  PROVE  /\ DOMAIN host_to_pool' \subseteq DOMAIN host_to_pool
         /\ \A key \in DOMAIN host_to_pool' : Narrower(host_to_pool'[key], host_to_pool[key])
         /\ last_clean_time' \in Nat
<1>1. now \in Nat /\ last_clean_time \in Nat
      /\ \A key \in DOMAIN host_to_pool : host_to_pool[key] \in Seq(Pair)
  BY DEF PoolTypeOK
<1>2. CASE last_clean_time + CLEAN_INTERVAL < now
  <2> DEFINE kept == {key \in DOMAIN host_to_pool : HostClean(host_to_pool[key]) # <<>>}
  <2>1. /\ host_to_pool' = [key \in kept |-> HostClean(host_to_pool[key])]
        /\ last_clean_time' = now
    BY <1>2 DEF PoolClean
  <2>2. \A key \in kept : Narrower(HostClean(host_to_pool[key]), host_to_pool[key])
    BY <1>1, HostCleanKeeps
  <2> QED
    BY <1>1, <2>1, <2>2
<1>3. CASE ~(last_clean_time + CLEAN_INTERVAL < now)
  <2>1. UNCHANGED <<host_to_pool, last_clean_time>>
    BY <1>3 DEF PoolClean, poolVars
  <2> QED
    BY <1>1, <2>1, NarrowerOrder
<1> QED
  BY <1>2, <1>3

\* get() that returns None (connection.py:266-269).
LEMMA PoolGetMissNarrows ==
  ASSUME PoolTypeOK, NEW key0, PoolGetMiss(key0)
  PROVE  /\ DOMAIN host_to_pool' \subseteq DOMAIN host_to_pool
         /\ \A key \in DOMAIN host_to_pool' : Narrower(host_to_pool'[key], host_to_pool[key])
         /\ last_clean_time' = last_clean_time
<1>1. now \in Nat /\ \A key \in DOMAIN host_to_pool : host_to_pool[key] \in Seq(Pair)
  BY DEF PoolTypeOK
<1>2. CASE key0 \notin DOMAIN host_to_pool
  BY <1>1, <1>2, NarrowerOrder DEF PoolGetMiss
<1>3. CASE key0 \in DOMAIN host_to_pool
  <2>1. PICK q : q = HostClean(host_to_pool[key0])
    OBVIOUS
  <2>2. /\ Ready(q) = {}
        /\ host_to_pool' = [host_to_pool EXCEPT ![key0] = HostAfterGet(q)]
        /\ last_clean_time' = last_clean_time
    BY <1>3, <2>1 DEF PoolGetMiss
  <2>3. Narrower(q, host_to_pool[key0]) /\ q \in Seq(Pair)
    BY <1>1, <1>3, <2>1, HostCleanKeeps DEF Narrower
  <2>4. Narrower(HostAfterGet(q), q)
    BY <1>1, <2>2, <2>3, HostGetMissKeeps
  <2>5. Narrower(HostAfterGet(q), host_to_pool[key0])
    BY <2>3, <2>4, NarrowerOrder
  <2> QED
    BY <1>1, <1>3, <2>2, <2>5, NarrowerOrder
<1> QED
  BY <1>2, <1>3

\* get() that returns a connection: it was pooled, it is ready, and it is in
\* no queue any more (connection.py:266-269).
LEMMA PoolGetHitNarrows ==
  ASSUME PoolTypeOK, NEW key0, NEW c, PoolGetHit(key0, c)
  PROVE  /\ DOMAIN host_to_pool' \subseteq DOMAIN host_to_pool
         /\ \A key \in DOMAIN host_to_pool' : Narrower(host_to_pool'[key], host_to_pool[key])
         /\ last_clean_time' = last_clean_time
         /\ key0 \in DOMAIN host_to_pool
         /\ c \in ConnsOf(host_to_pool[key0])
         /\ c \in Pooled
         /\ ConnReady(c)
         /\ PoolDistinct => c \notin Pooled'
<1>1. now \in Nat /\ \A key \in DOMAIN host_to_pool : host_to_pool[key] \in Seq(Pair)
  BY DEF PoolTypeOK
<1>2. PICK q : q = HostClean(host_to_pool[key0])
  OBVIOUS
<1>3. /\ key0 \in DOMAIN host_to_pool
      /\ Ready(q) # {}
      /\ c = q[First(Ready(q))].conn
      /\ host_to_pool' = [host_to_pool EXCEPT ![key0] = HostAfterGet(q)]
      /\ last_clean_time' = last_clean_time
  BY <1>2 DEF PoolGetHit
<1>4. Narrower(q, host_to_pool[key0]) /\ q \in Seq(Pair)
  BY <1>1, <1>2, <1>3, HostCleanKeeps DEF Narrower
<1>5. /\ Narrower(HostAfterGet(q), q)
      /\ First(Ready(q)) \in 1..Len(q)
      /\ ConnReady(c)
      /\ Distinct(q) => c \notin ConnsOf(HostAfterGet(q))
  BY <1>1, <1>3, <1>4, HostGetHitKeeps
<1>6. Narrower(HostAfterGet(q), host_to_pool[key0])
  BY <1>4, <1>5, NarrowerOrder
<1>7. \A key \in DOMAIN host_to_pool' : Narrower(host_to_pool'[key], host_to_pool[key])
  BY <1>1, <1>3, <1>6, NarrowerOrder
<1>8. c \in ConnsOf(q) /\ c \in ConnsOf(host_to_pool[key0])
  BY <1>3, <1>4, <1>5 DEF ConnsOf, Narrower
<1>9. c \in Conn
  <2>1. q[First(Ready(q))] \in Pair
    BY <1>4, <1>5, ElementOfSeq
  <2> QED
    BY <1>3, <2>1 DEF Pair
<1>10. c \in Pooled
  BY <1>3, <1>8, <1>9, PooledIs
<1>11. ASSUME PoolDistinct
       PROVE  c \notin Pooled'
  <2>1. Distinct(q)
    BY <1>3, <1>4, <1>11 DEF PoolDistinct, Narrower
  <2>2. \A key \in DOMAIN host_to_pool : key # key0 => c \notin ConnsOf(host_to_pool[key])
    BY <1>3, <1>8, <1>11 DEF PoolDistinct
  <2>3. \A key \in DOMAIN host_to_pool' : c \notin ConnsOf(host_to_pool'[key])
    BY <1>3, <1>5, <2>1, <2>2
  <2> QED
    BY <2>3 DEF Pooled, ConnsOf
<1> QED
  BY <1>3, <1>5, <1>7, <1>8, <1>10, <1>11

\* put() of a connection that is in no queue (connection.py:271-280).
LEMMA PoolPutKeeps ==
  ASSUME PoolTypeOK, NEW key0 \in Remote, NEW c \in Conn, PoolPut(key0, c), now' = now
  PROVE  /\ DOMAIN host_to_pool' \subseteq Remote
         /\ \A key \in DOMAIN host_to_pool' : host_to_pool'[key] \in Seq(Pair)
         /\ last_clean_time' = last_clean_time
         /\ Pooled' \subseteq Pooled \cup {c}
         /\ PoolDistinct /\ c \notin Pooled => PoolDistinct'
         /\ PoolInOrder => PoolInOrder'
         /\ \A key \in DOMAIN host_to_pool' :
              ConnsOf(host_to_pool'[key]) \subseteq
                (IF key \in DOMAIN host_to_pool THEN ConnsOf(host_to_pool[key]) ELSE {})
                  \cup (IF key = key0 THEN {c} ELSE {})
<1>1. /\ now \in Nat
      /\ DOMAIN host_to_pool \subseteq Remote
      /\ \A key \in DOMAIN host_to_pool : host_to_pool[key] \in Seq(Pair)
  BY DEF PoolTypeOK
<1>2. PICK old : old = IF key0 \in DOMAIN host_to_pool THEN host_to_pool[key0] ELSE <<>>
  OBVIOUS
<1>3. /\ DOMAIN host_to_pool' = DOMAIN host_to_pool \cup {key0}
      /\ host_to_pool'[key0] = HostPut(old, c)
      /\ \A key \in DOMAIN host_to_pool : key # key0 => host_to_pool'[key] = host_to_pool[key]
      /\ last_clean_time' = last_clean_time
  BY <1>2 DEF PoolPut
<1>4. old \in Seq(Pair) /\ (key0 \notin DOMAIN host_to_pool => ConnsOf(old) = {} /\ Distinct(old) /\ InOrder(old))
  BY <1>1, <1>2 DEF ConnsOf, Distinct, InOrder
<1>5. /\ HostPut(old, c) \in Seq(Pair)
      /\ ConnsOf(HostPut(old, c)) \subseteq ConnsOf(old) \cup {c}
      /\ Distinct(old) /\ c \notin ConnsOf(old) => Distinct(HostPut(old, c))
      /\ InOrder(old) => InOrder(HostPut(old, c))
  BY <1>1, <1>4, HostPutKeeps
<1>6. key0 \in DOMAIN host_to_pool => old = host_to_pool[key0]
  BY <1>2
<1>7. /\ DOMAIN host_to_pool' \subseteq Remote
      /\ \A key \in DOMAIN host_to_pool' : host_to_pool'[key] \in Seq(Pair)
  BY <1>1, <1>3, <1>5
<1>8. \A key \in DOMAIN host_to_pool' :
        ConnsOf(host_to_pool'[key]) \subseteq
          (IF key \in DOMAIN host_to_pool THEN ConnsOf(host_to_pool[key]) ELSE {})
            \cup (IF key = key0 THEN {c} ELSE {})
  BY <1>3, <1>4, <1>5, <1>6
<1>9. Pooled' \subseteq Pooled \cup {c}
  <2>1. Pooled' = {d \in Conn : \E key \in DOMAIN host_to_pool' : d \in ConnsOf(host_to_pool'[key])}
    BY DEF Pooled, ConnsOf
  <2> QED
    BY <1>8, <2>1, PooledIs
<1>10. ASSUME PoolDistinct, c \notin Pooled
       PROVE  PoolDistinct'
  <2>1. \A key \in DOMAIN host_to_pool : c \notin ConnsOf(host_to_pool[key])
    BY <1>10, PooledIs
  <2>2. Distinct(HostPut(old, c))
    BY <1>4, <1>5, <1>6, <1>10, <2>1 DEF PoolDistinct
  <2>3. \A key \in DOMAIN host_to_pool' : Distinct(host_to_pool'[key])
    BY <1>3, <1>10, <2>2 DEF PoolDistinct
  <2>4. ASSUME NEW k \in DOMAIN host_to_pool', NEW l \in DOMAIN host_to_pool', k # l
        PROVE  ConnsOf(host_to_pool'[k]) \cap ConnsOf(host_to_pool'[l]) = {}
    BY <1>8, <1>10, <2>1, <2>4 DEF PoolDistinct
  <2> QED
    BY <2>3, <2>4 DEF PoolDistinct
<1>11. ASSUME PoolInOrder
       PROVE  PoolInOrder'
  <2>1. \A key \in DOMAIN host_to_pool' : InOrder(host_to_pool'[key])
    BY <1>3, <1>4, <1>5, <1>6, <1>11 DEF PoolInOrder
  <2> QED
    BY <2>1 DEF PoolInOrder, InOrder
<1> QED
  BY <1>3, <1>7, <1>8, <1>9, <1>10, <1>11

-----------------------------------------------------------------------------
(* Types.                                                                  *)

\* The empty pool of a new connection object.
LEMMA InitType == Init => TypeOK
<1> SUFFICES ASSUME Init
             PROVE  TypeOK
  OBVIOUS
<1>1. AnyHost \in Host
  BY MexeAssumption DEF MexeAssumption, AnyHost
<1>2. PoolTypeOK
  BY PoolAssumption DEF Init, PoolInit, PoolTypeOK, PoolAssumption, ResponseState
<1>3. opened \in [Conn -> Remote]
  BY <1>1, MexeAssumption DEF Init, Remote, MexeAssumption
<1> QED
  BY <1>1, <1>2, <1>3, MexeAssumption DEF Init, TypeOK, PC, Outcome, MexeAssumption

\* The values Finish leaves have their types.
LEMMA FinishType ==
  ASSUME TypeOK, NEW t \in Thread, NEW result \in Outcome, Finish(t, result)
  PROVE  /\ pc' \in [Thread -> PC] /\ host' \in [Thread -> Host]
         /\ secure' \in [Thread -> BOOLEAN]
         /\ connection' \in [Thread -> Conn \cup {NoConn}]
         /\ i' \in [Thread -> Nat] /\ hops' \in [Thread -> Nat]
         /\ has_response' \in [Thread -> BOOLEAN] /\ has_ex' \in [Thread -> BOOLEAN]
         /\ outcome' \in [Thread -> Outcome]
<1>1. AnyHost \in Host
  BY MexeAssumption DEF MexeAssumption, AnyHost
<1> QED
  BY <1>1, MexeAssumption DEF TypeOK, Finish, PC, MexeAssumption

\* So do those NextAttempt and NewHttpConnection leave.
LEMMA AttemptType ==
  ASSUME TypeOK, NEW t \in Thread, NEW j \in Nat, NextAttempt(t, j)
  PROVE  i' \in [Thread -> Nat] /\ pc' \in [Thread -> PC]
BY DEF TypeOK, NextAttempt, PC

LEMMA NewConnectionType ==
  ASSUME TypeOK, NEW t \in Thread, NEW key \in Remote, NewHttpConnection(t, key)
  PROVE  /\ connection' \in [Thread -> Conn \cup {NoConn}]
         /\ opened' \in [Conn -> Remote]
         /\ response' \in [Conn -> ResponseState]
BY DEF TypeOK, PoolTypeOK, NewHttpConnection, ResponseState

\* A thread at the loop, after it, or with a response to return has a
\* connection (connection.py:915, 999, 1006, 1019).
HasConnection == \A t \in Thread : pc[t] \in {"send", "put", "end"} => connection[t] \in Conn

\* Every step keeps the types.
LEMMA TypeStep == TypeOK /\ HasConnection /\ [Next]_vars => TypeOK'
<1> SUFFICES ASSUME TypeOK, HasConnection, [Next]_vars
             PROVE  TypeOK'
  OBVIOUS
<1> USE DEF callVars, poolVars
<1>1. PoolTypeOK
  BY DEF TypeOK
<1>2. ASSUME NEW t \in Thread, MakeRequest(t)
      PROVE  TypeOK'
  BY <1>2 DEF TypeOK, PoolTypeOK, MakeRequest, PC, Outcome
<1>3. ASSUME NEW t \in Thread, Clean(t)
      PROVE  TypeOK'
  <2>1. PoolClean /\ now' = now
    BY <1>3 DEF Clean
  <2>2. /\ DOMAIN host_to_pool' \subseteq Remote
        /\ \A key \in DOMAIN host_to_pool' : host_to_pool'[key] \in Seq(Pair)
        /\ last_clean_time' \in Nat
    BY <1>1, <2>1, PoolCleanNarrows, PoolNarrows
  <2>3. PoolTypeOK'
    BY <1>1, <1>3, <2>2 DEF PoolTypeOK, Clean
  <2> QED
    BY <1>3, <2>3 DEF TypeOK, Clean, PC
<1>4. ASSUME NEW t \in Thread, GetHttpConnection(t)
      PROVE  TypeOK'
  <2> DEFINE key0 == [host |-> host[t], is_secure |-> secure[t]]
  <2>1. key0 \in Remote
    BY DEF TypeOK, Remote
  <2> HIDE DEF key0
  <2>2. CASE \E c \in Conn : /\ PoolGetHit(key0, c)
                             /\ connection' = [connection EXCEPT ![t] = c]
                             /\ UNCHANGED <<response, opened>>
    <3>1. PICK c \in Conn : /\ PoolGetHit(key0, c)
                            /\ connection' = [connection EXCEPT ![t] = c]
                            /\ UNCHANGED <<response, opened>>
      BY <2>2
    <3>2. now' = now
      BY <1>4 DEF GetHttpConnection
    <3>3. /\ DOMAIN host_to_pool' \subseteq Remote
          /\ \A key \in DOMAIN host_to_pool' : host_to_pool'[key] \in Seq(Pair)
          /\ last_clean_time' = last_clean_time
      BY <1>1, <3>1, <3>2, PoolGetHitNarrows, PoolNarrows
    <3>4. PoolTypeOK'
      BY <1>1, <3>1, <3>2, <3>3 DEF PoolTypeOK
    <3> QED
      BY <1>4, <3>1, <3>4 DEF TypeOK, GetHttpConnection, PC
  <2>3. CASE PoolGetMiss(key0) /\ NewHttpConnection(t, key0)
    <3>1. now' = now
      BY <1>4 DEF GetHttpConnection
    <3>2. /\ DOMAIN host_to_pool' \subseteq Remote
          /\ \A key \in DOMAIN host_to_pool' : host_to_pool'[key] \in Seq(Pair)
          /\ last_clean_time' = last_clean_time
      BY <1>1, <2>3, <3>1, PoolGetMissNarrows, PoolNarrows
    <3>3. /\ connection' \in [Thread -> Conn \cup {NoConn}]
          /\ opened' \in [Conn -> Remote]
          /\ response' \in [Conn -> ResponseState]
      BY <2>1, <2>3, NewConnectionType
    <3>4. PoolTypeOK'
      BY <1>1, <3>1, <3>2, <3>3 DEF PoolTypeOK
    <3> QED
      BY <1>4, <3>3, <3>4 DEF TypeOK, GetHttpConnection, PC
  <2> QED
    BY <1>4, <2>2, <2>3 DEF GetHttpConnection, key0
<1>5. ASSUME NEW t \in Thread, ServerError(t)
      PROVE  TypeOK'
  <2>1. i[t] + 1 \in Nat
    BY DEF TypeOK
  <2>2. i' \in [Thread -> Nat] /\ pc' \in [Thread -> PC]
    BY <1>5, <2>1, AttemptType DEF ServerError
  <2> QED
    BY <1>5, <2>2 DEF TypeOK, PoolTypeOK, ServerError, ResponseState
<1>6. ASSUME NEW t \in Thread, RetryHandler(t)
      PROVE  TypeOK'
  <2>1. PICK step \in {1, SessionStep} : NextAttempt(t, i[t] + step)
    BY <1>6 DEF RetryHandler
  <2>2. i[t] + step \in Nat
    BY MexeAssumption DEF TypeOK, MexeAssumption
  <2>3. i' \in [Thread -> Nat] /\ pc' \in [Thread -> PC]
    BY <2>1, <2>2, AttemptType
  <2> QED
    BY <1>6, <2>3 DEF TypeOK, PoolTypeOK, RetryHandler, ResponseState
<1>7. ASSUME NEW t \in Thread, Answer(t)
      PROVE  TypeOK'
  BY <1>7 DEF TypeOK, PoolTypeOK, Answer, PC, ResponseState
<1>8. ASSUME NEW t \in Thread, PutHttpConnection(t)
      PROVE  TypeOK'
  <2> DEFINE key0 == [host |-> host[t], is_secure |-> IsSecure]
  <2>1. key0 \in Remote
    BY MexeAssumption DEF TypeOK, Remote, MexeAssumption
  <2> HIDE DEF key0
  <2>2. /\ PoolPut(key0, connection[t]) /\ connection[t] \in Conn
        /\ Finish(t, "response") /\ UNCHANGED <<now, response, opened>>
    BY <1>8 DEF PutHttpConnection, HasConnection, key0
  <2>3. /\ DOMAIN host_to_pool' \subseteq Remote
        /\ \A key \in DOMAIN host_to_pool' : host_to_pool'[key] \in Seq(Pair)
        /\ last_clean_time' = last_clean_time
    BY <1>1, <2>1, <2>2, PoolPutKeeps
  <2>4. PoolTypeOK'
    BY <1>1, <2>2, <2>3 DEF PoolTypeOK
  <2>5. "response" \in Outcome
    BY DEF Outcome
  <2> QED
    BY <2>2, <2>4, <2>5, FinishType DEF TypeOK
<1>9. ASSUME NEW t \in Thread, AnswerAndClose(t)
      PROVE  TypeOK'
  <2>1. \E result \in Outcome : Finish(t, result)
    BY <1>9 DEF AnswerAndClose, Outcome
  <2>2. UNCHANGED <<now, host_to_pool, last_clean_time, response, opened>>
    BY <1>9 DEF AnswerAndClose
  <2> QED
    BY <1>1, <2>1, <2>2, FinishType DEF TypeOK, PoolTypeOK
<1>10. ASSUME NEW t \in Thread, Redirect(t)
       PROVE  TypeOK'
  BY <1>10 DEF TypeOK, PoolTypeOK, Redirect, PC
<1>11. ASSUME NEW t \in Thread, PleaseRetry(t)
      PROVE  TypeOK'
  <2> DEFINE key0 == [host |-> host[t], is_secure |-> IsSecure]
  <2>1. key0 \in Remote
    BY MexeAssumption DEF TypeOK, Remote, MexeAssumption
  <2> HIDE DEF key0
  <2>2. /\ NewHttpConnection(t, key0) /\ NextAttempt(t, i[t] + 1)
        /\ UNCHANGED <<host, secure, hops, outcome, now, host_to_pool, last_clean_time>>
    BY <1>11 DEF PleaseRetry, key0
  <2>3. /\ has_response' \in [Thread -> BOOLEAN]
        /\ has_ex' \in [Thread -> BOOLEAN]
    BY <1>11 DEF TypeOK, PleaseRetry
  <2>4. i[t] + 1 \in Nat
    BY DEF TypeOK
  <2>5. i' \in [Thread -> Nat] /\ pc' \in [Thread -> PC]
    BY <2>2, <2>4, AttemptType
  <2>6. /\ connection' \in [Thread -> Conn \cup {NoConn}]
        /\ opened' \in [Conn -> Remote]
        /\ response' \in [Conn -> ResponseState]
    BY <2>1, <2>2, NewConnectionType
  <2> QED
    BY <2>2, <2>3, <2>5, <2>6 DEF TypeOK, PoolTypeOK
<1>12. ASSUME NEW t \in Thread, HttpException(t)
      PROVE  TypeOK'
  <2> DEFINE key0 == [host |-> host[t], is_secure |-> IsSecure]
  <2>1. key0 \in Remote
    BY MexeAssumption DEF TypeOK, Remote, MexeAssumption
  <2> HIDE DEF key0
  <2>2. /\ NewHttpConnection(t, key0) /\ NextAttempt(t, i[t] + 1)
        /\ UNCHANGED <<host, secure, hops, outcome, now, host_to_pool, last_clean_time>>
    BY <1>12 DEF HttpException, key0
  <2>3. /\ has_response' \in [Thread -> BOOLEAN]
        /\ has_ex' \in [Thread -> BOOLEAN]
    BY <1>12 DEF TypeOK, HttpException
  <2>4. i[t] + 1 \in Nat
    BY DEF TypeOK
  <2>5. i' \in [Thread -> Nat] /\ pc' \in [Thread -> PC]
    BY <2>2, <2>4, AttemptType
  <2>6. /\ connection' \in [Thread -> Conn \cup {NoConn}]
        /\ opened' \in [Conn -> Remote]
        /\ response' \in [Conn -> ResponseState]
    BY <2>1, <2>2, NewConnectionType
  <2> QED
    BY <2>2, <2>3, <2>5, <2>6 DEF TypeOK, PoolTypeOK
<1>13. ASSUME NEW t \in Thread, Raise(t)
      PROVE  TypeOK'
  <2>1. \E result \in Outcome : Finish(t, result)
    BY <1>13 DEF Raise, Outcome
  <2>2. UNCHANGED <<now, host_to_pool, last_clean_time, response, opened>>
    BY <1>13 DEF Raise
  <2> QED
    BY <1>1, <2>1, <2>2, FinishType DEF TypeOK, PoolTypeOK
<1>14. ASSUME NEW t \in Thread, Exhausted(t)
      PROVE  TypeOK'
  <2>1. \E result \in Outcome : Finish(t, result)
    BY <1>14 DEF Exhausted, Outcome
  <2>2. UNCHANGED <<now, host_to_pool, last_clean_time, response, opened>>
    BY <1>14 DEF Exhausted
  <2> QED
    BY <1>1, <2>1, <2>2, FinishType DEF TypeOK, PoolTypeOK
<1>15. ASSUME NEW c \in Conn, ReadBody(c)
       PROVE  TypeOK'
  BY <1>15 DEF TypeOK, PoolTypeOK, ReadBody, ResponseState
<1>16. CASE Tick
  BY <1>16 DEF TypeOK, PoolTypeOK, Tick
<1>17. CASE UNCHANGED vars
  BY <1>17 DEF TypeOK, PoolTypeOK, vars
<1> QED
  BY <1>2, <1>3, <1>4, <1>5, <1>6, <1>7, <1>8, <1>9, <1>10, <1>11, <1>12, <1>13,
     <1>14, <1>15, <1>16, <1>17 DEF Next, CallStep

-----------------------------------------------------------------------------
(* The invariant of connections.                                           *)

ThreadsApart ==
    \A t, u \in Thread : t # u /\ connection[t] # NoConn => connection[t] # connection[u]

\* Strengthens ExclusiveUse, SendsOnReadyConnection and QueuesInTimeOrder:
\* that queues hold distinct connections in time order needs no thread, and
\* that threads are apart needs what each one holds.
IInv ==
    /\ TypeOK
    /\ HasConnection
    /\ PoolDistinct
    /\ PoolInOrder
    /\ ThreadsApart
    /\ Held \cap Pooled = {}
    /\ SendsOnReadyConnection

\* Before the first call.
LEMMA InitInv == Init => IInv
<1> SUFFICES ASSUME Init
             PROVE  IInv
  OBVIOUS
<1>1. TypeOK
  BY InitType
<1>2. DOMAIN host_to_pool = {}
  BY DEF Init, PoolInit
<1>3. PoolDistinct /\ PoolInOrder
  BY <1>2 DEF PoolDistinct, PoolInOrder
<1>4. \A t \in Thread : connection[t] = NoConn /\ pc[t] = "idle"
  BY DEF Init
<1>5. HasConnection /\ ThreadsApart /\ SendsOnReadyConnection
  BY <1>4 DEF HasConnection, ThreadsApart, SendsOnReadyConnection
<1>6. Held = {}
  BY <1>4, MexeAssumption DEF Held, MexeAssumption
<1> QED
  BY <1>1, <1>3, <1>5, <1>6 DEF IInv

\* A thread that drops its connection, or keeps it, leaves the others apart.
LEMMA DropKeepsApart ==
  ASSUME TypeOK, ThreadsApart, NEW t \in Thread,
         connection' = [connection EXCEPT ![t] = NoConn]
  PROVE  /\ ThreadsApart'
         /\ Held' \subseteq Held
         /\ connection[t] \notin Held'
<1>1. \A u \in Thread : u # t => connection'[u] = connection[u]
  BY DEF TypeOK
<1>2. connection'[t] = NoConn
  BY DEF TypeOK
<1>3. ThreadsApart'
  BY <1>1, <1>2 DEF ThreadsApart
<1>4. \A c \in Conn : c # NoConn
  BY MexeAssumption DEF MexeAssumption
<1>5. Held' \subseteq Held
  BY <1>1, <1>2, <1>4 DEF Held
<1>6. connection[t] \notin Held'
  BY <1>1, <1>2, <1>4 DEF Held, ThreadsApart
<1> QED
  BY <1>3, <1>5, <1>6

\* So does one that takes a connection nobody holds.
LEMMA TakeKeepsApart ==
  ASSUME TypeOK, ThreadsApart, NEW t \in Thread, NEW c \in Conn, c \notin Held,
         connection' = [connection EXCEPT ![t] = c]
  PROVE  /\ ThreadsApart'
         /\ Held' \subseteq Held \cup {c}
<1>1. \A u \in Thread : u # t => connection'[u] = connection[u]
  BY DEF TypeOK
<1>2. connection'[t] = c
  BY DEF TypeOK
<1>3. \A u \in Thread : connection[u] # c
  BY DEF Held
<1>4. ThreadsApart'
  BY <1>1, <1>2, <1>3 DEF ThreadsApart
<1>5. Held' \subseteq Held \cup {c}
  BY <1>1, <1>2 DEF Held
<1> QED
  BY <1>4, <1>5

\* A step that leaves the queues alone.
LEMMA SameQueues ==
  ASSUME PoolDistinct, PoolInOrder, UNCHANGED <<host_to_pool, now>>
  PROVE  PoolDistinct' /\ PoolInOrder' /\ Pooled' = Pooled
BY DEF PoolDistinct, PoolInOrder, InOrder, Pooled

\* The end of a call.
LEMMA FinishKeeps ==
  ASSUME IInv, NEW t \in Thread, NEW result, Finish(t, result),
         response' = response,
         Pooled' \subseteq Pooled \cup {connection[t]}
  PROVE  HasConnection' /\ ThreadsApart' /\ Held' \cap Pooled' = {} /\ SendsOnReadyConnection'
<1>1. TypeOK /\ ThreadsApart
  BY DEF IInv
<1>2. connection' = [connection EXCEPT ![t] = NoConn] /\ pc' = [pc EXCEPT ![t] = "idle"]
  BY DEF Finish
<1>3. /\ ThreadsApart'
      /\ Held' \subseteq Held
      /\ connection[t] \notin Held'
  BY <1>1, <1>2, DropKeepsApart
<1>4. \A u \in Thread : /\ u # t => connection'[u] = connection[u] /\ pc'[u] = pc[u]
                        /\ pc'[t] = "idle"
  BY <1>1, <1>2 DEF TypeOK
<1>5. HasConnection' /\ SendsOnReadyConnection'
  BY <1>4 DEF IInv, HasConnection, SendsOnReadyConnection
<1> QED
  BY <1>3, <1>5 DEF IInv

\* An answer whose body is read or left to the caller: response changes for
\* the connection of one thread, which nobody else holds.
LEMMA AnswerKeeps ==
  ASSUME IInv, NEW t \in Thread, NEW s \in ResponseState, NEW p \in PC, pc[t] = "send",
         response' = [response EXCEPT ![connection[t]] = s],
         pc' = [pc EXCEPT ![t] = p], p = "send" => s # "open",
         UNCHANGED <<connection, host_to_pool, now>>
  PROVE  HasConnection' /\ ThreadsApart' /\ Held' \cap Pooled' = {} /\ SendsOnReadyConnection'
<1>1. TypeOK /\ PoolTypeOK
  BY DEF IInv, TypeOK
<1>2. connection[t] \in Conn /\ connection[t] # NoConn
  BY MexeAssumption DEF IInv, HasConnection, MexeAssumption
<1>3. \A u \in Thread : u # t => pc'[u] = pc[u] /\ connection[u] # connection[t]
  BY <1>1, <1>2 DEF IInv, TypeOK, ThreadsApart
<1>4. pc'[t] = p
  BY <1>1 DEF TypeOK
<1>5. \A c \in Conn : response'[c] = IF c = connection[t] THEN s ELSE response[c]
  BY <1>1, <1>2 DEF PoolTypeOK
<1>6. HasConnection'
  BY <1>2, <1>3 DEF IInv, HasConnection
<1>7. SendsOnReadyConnection'
  <2> SUFFICES ASSUME NEW u \in Thread, pc'[u] = "send"
               PROVE  response'[connection[u]] # "open"
    BY DEF SendsOnReadyConnection
  <2>1. CASE u = t
    BY <1>2, <1>4, <1>5, <2>1
  <2>2. CASE u # t
    BY <1>3, <1>5, <2>2 DEF IInv, HasConnection, SendsOnReadyConnection
  <2> QED
    BY <2>1, <2>2
<1>8. ThreadsApart' /\ Held' = Held /\ Pooled' = Pooled
  BY DEF IInv, ThreadsApart, Held, Pooled
<1> QED
  BY <1>6, <1>7, <1>8 DEF IInv

\* A new connection, to be used at once or after the loop.
LEMMA NewConnectionKeeps ==
  ASSUME IInv, NEW t \in Thread, NEW key, NewHttpConnection(t, key),
         NEW p \in PC, pc' = [pc EXCEPT ![t] = p],
         Pooled' \subseteq Pooled
  PROVE  HasConnection' /\ ThreadsApart' /\ Held' \cap Pooled' = {} /\ SendsOnReadyConnection'
<1>1. TypeOK /\ PoolTypeOK /\ ThreadsApart
  BY DEF IInv, TypeOK
<1>2. PICK c \in Conn \ (Pooled \cup Held) :
        /\ connection' = [connection EXCEPT ![t] = c]
        /\ response' = [response EXCEPT ![c] = "none"]
  BY DEF NewHttpConnection
<1>3. ThreadsApart' /\ Held' \subseteq Held \cup {c}
  BY <1>1, <1>2, TakeKeepsApart
<1>4. \A u \in Thread : u # t => connection'[u] = connection[u] /\ pc'[u] = pc[u]
  BY <1>1, <1>2 DEF TypeOK
<1>5. connection'[t] = c
  BY <1>1, <1>2 DEF TypeOK
<1>6. \A d \in Conn : response'[d] = IF d = c THEN "none" ELSE response[d]
  BY <1>1, <1>2 DEF PoolTypeOK
<1>7. HasConnection'
  BY <1>2, <1>4, <1>5 DEF IInv, HasConnection
<1>8. SendsOnReadyConnection'
  <2> SUFFICES ASSUME NEW u \in Thread, pc'[u] = "send"
               PROVE  response'[connection'[u]] # "open"
    BY DEF SendsOnReadyConnection
  <2>1. CASE u = t
    BY <1>2, <1>5, <1>6, <2>1
  <2>2. CASE u # t
    BY <1>4, <1>6, <2>2 DEF IInv, HasConnection, SendsOnReadyConnection
  <2> QED
    BY <2>1, <2>2
<1>9. Held' \cap Pooled' = {}
  BY <1>2, <1>3 DEF IInv
<1> QED
  BY <1>3, <1>7, <1>8, <1>9

\* A connection from the pool: it is ready, and the pool has lost it.
LEMMA PooledConnectionKeeps ==
  ASSUME IInv, NEW t \in Thread, NEW c \in Pooled, ConnReady(c), c \notin Pooled',
         Pooled' \subseteq Pooled,
         connection' = [connection EXCEPT ![t] = c],
         pc' = [pc EXCEPT ![t] = "send"], response' = response
  PROVE  HasConnection' /\ ThreadsApart' /\ Held' \cap Pooled' = {} /\ SendsOnReadyConnection'
<1>1. TypeOK /\ ThreadsApart /\ c \in Conn /\ c \notin Held
  BY DEF IInv, Pooled
<1>2. ThreadsApart' /\ Held' \subseteq Held \cup {c}
  BY <1>1, TakeKeepsApart
<1>3. \A u \in Thread : u # t => connection'[u] = connection[u] /\ pc'[u] = pc[u]
  BY <1>1 DEF TypeOK
<1>4. connection'[t] = c /\ response[c] # "open"
  BY <1>1 DEF TypeOK, ConnReady
<1>5. HasConnection' /\ SendsOnReadyConnection'
  BY <1>1, <1>3, <1>4 DEF IInv, HasConnection, SendsOnReadyConnection
<1>6. Held' \cap Pooled' = {}
  BY <1>2 DEF IInv
<1> QED
  BY <1>2, <1>5, <1>6

\* A thread on its way to a connection: it keeps the one it has or drops it.
LEMMA MoveKeeps ==
  ASSUME IInv, NEW t \in Thread, NEW p \in {"clean", "get"},
         pc' = [pc EXCEPT ![t] = p],
         \/ connection' = connection
         \/ connection' = [connection EXCEPT ![t] = NoConn],
         response' = response,
         Pooled' \subseteq Pooled
  PROVE  HasConnection' /\ ThreadsApart' /\ Held' \cap Pooled' = {} /\ SendsOnReadyConnection'
<1>1. TypeOK /\ ThreadsApart
  BY DEF IInv
<1>2. \A u \in Thread : u # t => connection'[u] = connection[u] /\ pc'[u] = pc[u]
  BY <1>1 DEF TypeOK
<1>3. pc'[t] = p
  BY <1>1 DEF TypeOK
<1>4. ThreadsApart' /\ Held' \subseteq Held
  <2>1. CASE connection' = connection
    BY <1>1, <2>1 DEF ThreadsApart, Held
  <2>2. CASE connection' = [connection EXCEPT ![t] = NoConn]
    BY <1>1, <2>2, DropKeepsApart
  <2> QED
    BY <2>1, <2>2
<1>5. HasConnection' /\ SendsOnReadyConnection'
  BY <1>2, <1>3 DEF IInv, HasConnection, SendsOnReadyConnection
<1> QED
  BY <1>4, <1>5 DEF IInv

\* Time passes: the queues stay in order.
LEMMA TickKeepsOrder ==
  ASSUME PoolTypeOK, PoolInOrder, Tick
  PROVE  PoolInOrder'
<1>1. now \in Nat /\ now' = now + 1 /\ host_to_pool' = host_to_pool
  BY DEF PoolTypeOK, Tick, poolVars
<1> SUFFICES ASSUME NEW key \in DOMAIN host_to_pool,
                    NEW m \in 1..Len(host_to_pool[key]), NEW n \in 1..Len(host_to_pool[key])
             PROVE  /\ host_to_pool[key][m].time <= now'
                    /\ m <= n => host_to_pool[key][m].time <= host_to_pool[key][n].time
  BY <1>1 DEF PoolInOrder, InOrder
<1>2. /\ host_to_pool[key][m].time <= now
      /\ m <= n => host_to_pool[key][m].time <= host_to_pool[key][n].time
  BY DEF PoolInOrder, InOrder
<1>3. host_to_pool[key] \in Seq(Pair)
  BY DEF PoolTypeOK
<1>4. host_to_pool[key][m] \in Pair
  BY <1>3, ElementOfSeq
<1>5. host_to_pool[key][m].time \in Nat
  BY <1>4 DEF Pair
<1> QED
  BY <1>1, <1>2, <1>5

\* Every step keeps the invariant.
LEMMA NextInv == IInv /\ [Next]_vars => IInv'
<1> SUFFICES ASSUME IInv, [Next]_vars
             PROVE  IInv'
  OBVIOUS
<1> DEFINE Threads == HasConnection' /\ ThreadsApart' /\ Held' \cap Pooled' = {}
                      /\ SendsOnReadyConnection'
           Queues == PoolDistinct' /\ PoolInOrder'
<1>1. TypeOK /\ PoolTypeOK /\ HasConnection /\ PoolDistinct /\ PoolInOrder
      /\ Held \cap Pooled = {}
  BY DEF IInv, TypeOK
<1>2. TypeOK'
  BY <1>1, TypeStep
<1>3. ASSUME UNCHANGED <<host_to_pool, now>>
      PROVE  Queues /\ Pooled' = Pooled
  BY <1>1, <1>3, SameQueues
<1>4. ASSUME NEW t \in Thread, MakeRequest(t)
      PROVE  Threads /\ Queues
  <2>1. UNCHANGED <<host_to_pool, now>> /\ connection' = connection /\ response' = response
        /\ pc' = [pc EXCEPT ![t] = "clean"]
    BY <1>4 DEF MakeRequest, poolVars
  <2>2. Queues /\ Pooled' = Pooled
    BY <1>3, <2>1
  <2> QED
    BY <2>1, <2>2, MoveKeeps
<1>5. ASSUME NEW t \in Thread, Clean(t)
      PROVE  Threads /\ Queues
  <2>1. PoolClean /\ now' = now /\ connection' = connection /\ response' = response
        /\ pc' = [pc EXCEPT ![t] = "get"]
    BY <1>5 DEF Clean
  <2>2. Queues /\ Pooled' \subseteq Pooled
    BY <1>1, <2>1, PoolCleanNarrows, PoolNarrows
  <2> QED
    BY <2>1, <2>2, MoveKeeps
<1>6. ASSUME NEW t \in Thread, GetHttpConnection(t)
      PROVE  Threads /\ Queues
  <2> DEFINE key == [host |-> host[t], is_secure |-> secure[t]]
  <2> HIDE DEF key
  <2>1. now' = now /\ pc' = [pc EXCEPT ![t] = "send"]
    BY <1>6 DEF GetHttpConnection
  <2>2. ASSUME NEW c \in Conn, PoolGetHit(key, c),
               connection' = [connection EXCEPT ![t] = c], response' = response
        PROVE  Threads /\ Queues
    <3>1. Queues /\ Pooled' \subseteq Pooled
      BY <1>1, <2>1, <2>2, PoolGetHitNarrows, PoolNarrows
    <3>2. c \in Pooled /\ ConnReady(c) /\ c \notin Pooled'
      BY <1>1, <2>2, PoolGetHitNarrows
    <3>3. Threads
      BY <2>1, <2>2, <3>1, <3>2, PooledConnectionKeeps
    <3> QED
      BY <3>1, <3>3
  <2>3. ASSUME PoolGetMiss(key), NewHttpConnection(t, key)
        PROVE  Threads /\ Queues
    <3>1. Queues /\ Pooled' \subseteq Pooled
      BY <1>1, <2>1, <2>3, PoolGetMissNarrows, PoolNarrows
    <3>2. Threads
      BY <2>1, <2>3, <3>1, NewConnectionKeeps DEF PC
    <3> QED
      BY <3>1, <3>2
  <2>4. \/ \E c \in Conn : /\ PoolGetHit(key, c)
                           /\ connection' = [connection EXCEPT ![t] = c]
                           /\ response' = response
        \/ PoolGetMiss(key) /\ NewHttpConnection(t, key)
    BY <1>6 DEF GetHttpConnection, key
  <2> QED
    BY <2>2, <2>3, <2>4
<1>7. ASSUME NEW t \in Thread, ServerError(t) \/ RetryHandler(t) \/ Answer(t)
      PROVE  Threads /\ Queues
  <2>1. UNCHANGED <<connection, host_to_pool, now>> /\ pc[t] = "send"
    BY <1>7 DEF ServerError, RetryHandler, Answer, poolVars
  <2>2. \E s \in ResponseState, p \in PC :
           /\ response' = [response EXCEPT ![connection[t]] = s]
           /\ pc' = [pc EXCEPT ![t] = p]
           /\ p = "send" => s # "open"
    BY <1>7 DEF ServerError, RetryHandler, Answer, NextAttempt, ResponseState, PC
  <2>3. Threads
    BY <2>1, <2>2, AnswerKeeps
  <2>4. Queues
    BY <1>3, <2>1
  <2> QED
    BY <2>3, <2>4
<1>8. ASSUME NEW t \in Thread, PutHttpConnection(t)
      PROVE  Threads /\ Queues
  <2> DEFINE key == [host |-> host[t], is_secure |-> IsSecure]
             c == connection[t]
  <2>1. key \in Remote
    BY <1>1, MexeAssumption DEF TypeOK, Remote, MexeAssumption
  <2>2. c \in Conn /\ c \in Held /\ c \notin Pooled
    BY <1>1, <1>8 DEF PutHttpConnection, HasConnection, Held
  <2>3. PoolPut(key, c) /\ now' = now /\ response' = response /\ Finish(t, "response")
    BY <1>8 DEF PutHttpConnection
  <2> HIDE DEF key
  <2>4. Queues /\ Pooled' \subseteq Pooled \cup {c}
    BY <1>1, <2>1, <2>2, <2>3, PoolPutKeeps
  <2>5. Threads
    BY <2>3, <2>4, FinishKeeps
  <2> QED
    BY <2>4, <2>5
<1>9. ASSUME NEW t \in Thread, AnswerAndClose(t) \/ Raise(t) \/ Exhausted(t)
      PROVE  Threads /\ Queues
  <2>1. UNCHANGED <<host_to_pool, now>> /\ response' = response
        /\ \E result : Finish(t, result)
    BY <1>9 DEF AnswerAndClose, Raise, Exhausted, poolVars
  <2>2. Queues /\ Pooled' = Pooled
    BY <1>3, <2>1
  <2> QED
    BY <2>1, <2>2, FinishKeeps
<1>10. ASSUME NEW t \in Thread, Redirect(t)
       PROVE  Threads /\ Queues
  <2>1. UNCHANGED <<host_to_pool, now>> /\ response' = response
        /\ pc' = [pc EXCEPT ![t] = "clean"]
        /\ connection' = [connection EXCEPT ![t] = NoConn]
    BY <1>10 DEF Redirect, poolVars
  <2>2. Queues /\ Pooled' = Pooled
    BY <1>3, <2>1
  <2> QED
    BY <2>1, <2>2, MoveKeeps
<1>11. ASSUME NEW t \in Thread, PleaseRetry(t) \/ HttpException(t)
       PROVE  Threads /\ Queues
  <2>1. UNCHANGED <<host_to_pool, now>>
    BY <1>11 DEF PleaseRetry, HttpException, poolVars
  <2>2. \E key : NewHttpConnection(t, key)
    BY <1>11 DEF PleaseRetry, HttpException
  <2>3. \E p \in PC : pc' = [pc EXCEPT ![t] = p]
    BY <1>11 DEF PleaseRetry, HttpException, NextAttempt, PC
  <2>4. Queues /\ Pooled' = Pooled
    BY <1>3, <2>1
  <2> QED
    BY <2>2, <2>3, <2>4, NewConnectionKeeps
<1>12. ASSUME NEW c \in Conn, ReadBody(c)
       PROVE  Threads /\ Queues
  <2>1. UNCHANGED <<host_to_pool, now, connection, pc>>
        /\ response' = [response EXCEPT ![c] = "closed"]
    BY <1>12 DEF ReadBody, poolVars, callVars
  <2>2. \A d \in Conn : response'[d] # "open" \/ response'[d] = response[d]
    BY <1>1, <2>1 DEF PoolTypeOK
  <2>3. HasConnection' /\ ThreadsApart' /\ Held' = Held
    BY <2>1 DEF IInv, HasConnection, ThreadsApart, Held
  <2>4. SendsOnReadyConnection'
    BY <2>1, <2>2 DEF IInv, HasConnection, SendsOnReadyConnection
  <2>5. Queues /\ Pooled' = Pooled
    BY <1>3, <2>1
  <2> QED
    BY <1>1, <2>3, <2>4, <2>5
<1>13. ASSUME Tick \/ UNCHANGED vars
       PROVE  Threads /\ Queues
  <2>1. UNCHANGED <<host_to_pool, connection, pc, response>>
    BY <1>13 DEF Tick, vars, poolVars, callVars
  <2>2. Threads
    BY <2>1 DEF IInv, HasConnection, ThreadsApart, Held, Pooled, SendsOnReadyConnection
  <2>3. PoolDistinct'
    BY <1>1, <2>1 DEF PoolDistinct
  <2>4. PoolInOrder'
    <3>1. CASE Tick
      BY <1>1, <3>1, TickKeepsOrder
    <3>2. CASE UNCHANGED vars
      BY <1>3, <3>2 DEF vars, poolVars
    <3> QED
      BY <1>13, <3>1, <3>2
  <2> QED
    BY <2>2, <2>3, <2>4
<1>14. Threads /\ Queues
  BY <1>4, <1>5, <1>6, <1>7, <1>8, <1>9, <1>10, <1>11, <1>12, <1>13 DEF Next, CallStep
<1> QED
  BY <1>2, <1>14 DEF IInv

-----------------------------------------------------------------------------
(* Theorems: invariants.                                                   *)

\* The invariant holds in every reachable state, with any number of threads
\* in _mexe on one ConnectionPool.
THEOREM MexeInvariant == Spec => []IInv
BY InitInv, NextInv, PTL DEF Spec

\* Every variable keeps its type.
THEOREM MexeTypeCorrect == Spec => []TypeOK
<1>1. IInv => TypeOK
  BY DEF IInv
<1> QED
  BY <1>1, MexeInvariant, PTL

\* A connection object is in one place: with one thread or once in one queue,
\* although _mexe pools it before its response is read (connection.py:140-158,
\* 271-280).
THEOREM MexeExclusiveUse == Spec => []ExclusiveUse
<1>1. ASSUME IInv
      PROVE  ExclusiveUse
  <2>1. ASSUME NEW k \in DOMAIN host_to_pool, NEW l \in DOMAIN host_to_pool,
               NEW m \in 1..Len(host_to_pool[k]), NEW n \in 1..Len(host_to_pool[l]),
               host_to_pool[k][m].conn = host_to_pool[l][n].conn
        PROVE  k = l /\ m = n
    <3>1. k = l
      BY <1>1, <2>1 DEF IInv, PoolDistinct, ConnsOf
    <3>2. m = n
      BY <1>1, <2>1, <3>1 DEF IInv, PoolDistinct, Distinct
    <3> QED
      BY <3>1, <3>2
  <2>2. ThreadsApart /\ Held \cap Pooled = {}
    BY <1>1 DEF IInv
  <2> QED
    BY <2>1, <2>2 DEF ExclusiveUse, ThreadsApart
<1> QED
  BY <1>1, MexeInvariant, PTL

\* No request is sent while the previous response of its connection may still
\* be read (connection.py:160-181).
THEOREM MexeSendsOnReadyConnection == Spec => []SendsOnReadyConnection
<1>1. IInv => SendsOnReadyConnection
  BY DEF IInv
<1> QED
  BY <1>1, MexeInvariant, PTL

\* Put, get and clean keep every queue in the order of its times, which is
\* what cleaning from the front relies on (connection.py:183-191).
THEOREM MexeQueuesInTimeOrder == Spec => []QueuesInTimeOrder
<1>1. IInv => QueuesInTimeOrder
  BY DEF IInv, PoolInOrder, InOrder, QueuesInTimeOrder
<1> QED
  BY <1>1, MexeInvariant, PTL

-----------------------------------------------------------------------------
(* Theorems: what a step may not do.                                       *)

\* What get() returns was the pair of its connection, and cleaning had found
\* the front of that queue fresh (connection.py:148-158).
LEMMA PoolGetHitFresh ==
  ASSUME PoolTypeOK, PoolDistinct, PoolInOrder, NEW key0, NEW c, PoolGetHit(key0, c),
         NEW key \in DOMAIN host_to_pool, NEW m \in 1..Len(host_to_pool[key]),
         host_to_pool[key][m].conn = c
  PROVE  ~PairStale(host_to_pool[key][m])
<1>1. PICK queue : queue = host_to_pool[key0]
  OBVIOUS
<1>2. /\ now \in Nat
      /\ key0 \in DOMAIN host_to_pool
      /\ queue \in Seq(Pair)
      /\ Distinct(queue) /\ InOrder(queue)
  BY <1>1 DEF PoolTypeOK, PoolDistinct, PoolInOrder, PoolGetHit
<1>3. PICK q : q = HostClean(queue)
  OBVIOUS
<1>4. Ready(q) # {} /\ c = q[First(Ready(q))].conn
  BY <1>1, <1>3 DEF PoolGetHit
<1>5. PICK k \in 0..Len(queue) :
        /\ q \in Seq(Pair)
        /\ Len(q) = Len(queue) - k
        /\ \A p \in 1..(Len(queue) - k) : q[p] = queue[p + k]
  BY <1>2, <1>3, HostCleanShape
<1>6. PICK r : r = First(Ready(q))
  OBVIOUS
<1>7. r \in 1..Len(q) /\ q[r].conn = c
  BY <1>2, <1>4, <1>5, <1>6, HostGetHitKeeps
<1>8. r + k \in 1..Len(queue) /\ q[r] = queue[r + k]
  BY <1>5, <1>7
<1>9. ~PairStale(q[r])
  BY <1>2, <1>3, <1>7, HostCleanFresh
<1>10. key = key0
  BY <1>1, <1>2, <1>7, <1>8 DEF PoolDistinct, ConnsOf
<1>11. m = r + k
  BY <1>1, <1>2, <1>7, <1>8, <1>10 DEF Distinct
<1> QED
  BY <1>1, <1>8, <1>9, <1>10, <1>11

\* A thread gets a pooled connection only within STALE_DURATION of its return
\* (connection.py:183-197), whatever the other threads put, got and cleaned.
THEOREM MexeNeverHandsOutStale == Spec => NeverHandsOutStale
<1>1. ASSUME IInv, [Next]_vars,
             NEW t \in Thread, NEW key \in DOMAIN host_to_pool,
             NEW m \in 1..Len(host_to_pool[key]),
             connection[t] # connection'[t], connection'[t] = host_to_pool[key][m].conn
      PROVE  ~PairStale(host_to_pool[key][m])
  <2>1. TypeOK /\ PoolTypeOK /\ PoolDistinct /\ PoolInOrder
    BY <1>1 DEF IInv, TypeOK
  <2>2. host_to_pool[key][m] \in Pair
    BY <2>1, ElementOfSeq DEF PoolTypeOK
  <2>3. connection'[t] \in Conn /\ connection'[t] # NoConn
    BY <1>1, <2>2, MexeAssumption DEF Pair, MexeAssumption
  <2>4. connection'[t] \in Pooled
    BY <1>1, <2>3 DEF Pooled
  <2>5. ASSUME NEW u \in Thread, NEW d, connection' = [connection EXCEPT ![u] = d]
        PROVE  t = u /\ connection'[t] = d
    BY <1>1, <2>1, <2>5 DEF TypeOK
  <2>6. \A u \in Thread : \A k : ~NewHttpConnection(u, k)
    BY <2>3, <2>4, <2>5 DEF NewHttpConnection
  <2>7. \A u \in Thread : \A result : ~Finish(u, result)
    BY <2>3, <2>5 DEF Finish
  <2>8. \A u \in Thread : ~Redirect(u)
    BY <2>3, <2>5 DEF Redirect
  <2>9. PICK u \in Thread : GetHttpConnection(u)
    BY <1>1, <2>6, <2>7, <2>8
       DEF Next, CallStep, MakeRequest, Clean, ServerError, RetryHandler, Answer,
           PutHttpConnection, AnswerAndClose, PleaseRetry, HttpException, Raise, Exhausted,
           ReadBody, Tick, vars, callVars
  <2>10. PICK k, c : PoolGetHit(k, c) /\ connection' = [connection EXCEPT ![u] = c]
    BY <2>6, <2>9 DEF GetHttpConnection
  <2>11. connection'[t] = c
    BY <2>5, <2>10
  <2> QED
    BY <1>1, <2>1, <2>10, <2>11, PoolGetHitFresh
<1>2. IInv /\ [Next]_vars =>
        [\A t \in Thread : \A key \in DOMAIN host_to_pool :
           \A m \in 1..Len(host_to_pool[key]) :
              connection[t] # connection'[t] /\ connection'[t] = host_to_pool[key][m].conn
                 => ~PairStale(host_to_pool[key][m])]_vars
  BY <1>1
<1> QED
  BY <1>2, MexeInvariant, PTL DEF Spec, NeverHandsOutStale

\* A cleaning leaves no stale pair and no empty queue (connection.py:282-304).
THEOREM MexeCleaningIsComplete == Spec => CleaningIsComplete
<1>1. ASSUME IInv, [Next]_vars, last_clean_time' # last_clean_time,
             NEW key \in DOMAIN host_to_pool'
      PROVE  /\ host_to_pool'[key] # <<>>
             /\ \A m \in 1..Len(host_to_pool'[key]) : ~PairStale(host_to_pool'[key][m])
  <2>1. now \in Nat /\ PoolInOrder
        /\ \A k \in DOMAIN host_to_pool : host_to_pool[k] \in Seq(Pair)
    BY <1>1 DEF IInv, TypeOK, PoolTypeOK
  <2>2. PICK t \in Thread : Clean(t)
    BY <1>1
       DEF Next, CallStep, MakeRequest, GetHttpConnection, ServerError, RetryHandler, Answer,
           PutHttpConnection, AnswerAndClose, Redirect, PleaseRetry, HttpException, Raise,
           Exhausted, ReadBody, Tick, PoolGetHit, PoolGetMiss, PoolPut, vars, poolVars
  <2> DEFINE kept == {k \in DOMAIN host_to_pool : HostClean(host_to_pool[k]) # <<>>}
  <2>3. host_to_pool' = [k \in kept |-> HostClean(host_to_pool[k])]
    BY <1>1, <2>2 DEF Clean, PoolClean, poolVars
  <2>4. host_to_pool'[key] = HostClean(host_to_pool[key]) /\ key \in kept
    BY <1>1, <2>3
  <2>5. InOrder(host_to_pool[key]) /\ host_to_pool[key] \in Seq(Pair)
    BY <2>1, <2>4 DEF PoolInOrder
  <2> QED
    BY <2>1, <2>4, <2>5, HostCleanFresh
<1>2. IInv /\ [Next]_vars =>
        [last_clean_time' # last_clean_time =>
           \A key \in DOMAIN host_to_pool' :
              /\ host_to_pool'[key] # <<>>
              /\ \A m \in 1..Len(host_to_pool'[key]) : ~PairStale(host_to_pool'[key][m])]_vars
  BY <1>1
<1> QED
  BY <1>2, MexeInvariant, PTL DEF Spec, CleaningIsComplete

-----------------------------------------------------------------------------
(* Theorems: where connections go, and how calls end.                      *)

\* Strengthens GoesToItsHost: a request that starts, or is sent elsewhere, has
\* no connection yet.
HostInv ==
    /\ \A t \in Thread : pc[t] \in {"idle", "clean", "get"} => connection[t] = NoConn
    /\ \A t \in Thread : connection[t] # NoConn => opened[connection[t]].host = host[t]
    /\ \A key \in DOMAIN host_to_pool : \A c \in ConnsOf(host_to_pool[key]) :
          opened[c].host = key.host

\* The connections of a queue are pooled.
LEMMA QueuesArePooled ==
  ASSUME PoolTypeOK, NEW key \in DOMAIN host_to_pool
  PROVE  ConnsOf(host_to_pool[key]) \subseteq Pooled
<1>1. \A m \in 1..Len(host_to_pool[key]) : host_to_pool[key][m] \in Pair
  BY ElementOfSeq DEF PoolTypeOK
<1>2. \A m \in 1..Len(host_to_pool[key]) : host_to_pool[key][m].conn \in Conn
  BY <1>1 DEF Pair
<1> QED
  BY <1>2 DEF ConnsOf, Pooled

\* No step that narrows the queues sends a pooled connection elsewhere.
LEMMA NarrowKeepsHost ==
  ASSUME HostInv, opened' = opened,
         DOMAIN host_to_pool' \subseteq DOMAIN host_to_pool,
         \A key \in DOMAIN host_to_pool' :
            ConnsOf(host_to_pool'[key]) \subseteq ConnsOf(host_to_pool[key])
  PROVE  \A key \in DOMAIN host_to_pool' : \A c \in ConnsOf(host_to_pool'[key]) :
            opened'[c].host = key.host
BY DEF HostInv

\* Dropping a connection, as the end of a call and a redirect do.
LEMMA DropKeepsHost ==
  ASSUME TypeOK, HostInv, NEW t \in Thread,
         connection' = [connection EXCEPT ![t] = NoConn],
         \A u \in Thread : u # t => host'[u] = host[u] /\ pc'[u] = pc[u],
         UNCHANGED <<opened, host_to_pool>>
  PROVE  HostInv'
<1>1. connection'[t] = NoConn /\ \A u \in Thread : u # t => connection'[u] = connection[u]
  BY DEF TypeOK
<1> QED
  BY <1>1 DEF HostInv, ConnsOf

\* A step that uses the connection it has.
LEMMA SameConnectionsKeepHost ==
  ASSUME TypeOK, HostInv, NEW t \in Thread, NEW p,
         pc' = [pc EXCEPT ![t] = p],
         p \in {"idle", "clean", "get"} => connection[t] = NoConn,
         UNCHANGED <<opened, host_to_pool, connection, host>>
  PROVE  HostInv'
<1>1. pc'[t] = p /\ \A u \in Thread : u # t => pc'[u] = pc[u]
  BY DEF TypeOK
<1> QED
  BY <1>1 DEF HostInv, ConnsOf

\* A new connection goes to the host it is asked for, and the others are left
\* where they are (connection.py:715-754).
LEMMA NewConnectionKeepsHost ==
  ASSUME IInv, HostInv, NEW t \in Thread, NEW key \in Remote, NewHttpConnection(t, key),
         key.host = host[t], host' = host,
         NEW p \in {"send", "end"}, pc' = [pc EXCEPT ![t] = p],
         DOMAIN host_to_pool' \subseteq DOMAIN host_to_pool,
         \A k \in DOMAIN host_to_pool' :
            ConnsOf(host_to_pool'[k]) \subseteq ConnsOf(host_to_pool[k])
  PROVE  HostInv'
<1>1. TypeOK /\ PoolTypeOK
  BY DEF IInv, TypeOK
<1>2. PICK c \in Conn \ (Pooled \cup Held) :
        /\ connection' = [connection EXCEPT ![t] = c]
        /\ opened' = [opened EXCEPT ![c] = key]
  BY DEF NewHttpConnection
<1>3. opened'[c] = key /\ \A d \in Conn : d # c => opened'[d] = opened[d]
  BY <1>1, <1>2 DEF TypeOK
<1>4. /\ connection'[t] = c /\ pc'[t] = p
      /\ \A u \in Thread : u # t => connection'[u] = connection[u] /\ pc'[u] = pc[u]
  BY <1>1, <1>2 DEF TypeOK
<1>5. ASSUME NEW u \in Thread, connection'[u] # NoConn
      PROVE  opened'[connection'[u]].host = host'[u]
  <2>1. CASE u = t
    BY <1>3, <1>4, <2>1
  <2>2. CASE u # t
    <3>1. connection[u] \in Conn /\ connection[u] # c
      BY <1>1, <1>2, <1>4, <1>5, <2>2 DEF TypeOK, Held
    <3> QED
      BY <1>3, <1>4, <1>5, <2>2, <3>1 DEF HostInv
  <2> QED
    BY <2>1, <2>2
<1>6. ASSUME NEW k \in DOMAIN host_to_pool', NEW d \in ConnsOf(host_to_pool'[k])
      PROVE  opened'[d].host = k.host
  <2>1. k \in DOMAIN host_to_pool /\ d \in ConnsOf(host_to_pool[k])
    BY <1>6
  <2>2. d \in Pooled
    BY <1>1, <2>1, QueuesArePooled
  <2>3. d \in Conn /\ d # c
    BY <1>2, <2>2 DEF Pooled
  <2> QED
    BY <1>3, <2>1, <2>3 DEF HostInv
<1>7. \A u \in Thread : pc'[u] \in {"idle", "clean", "get"} => connection'[u] = NoConn
  BY <1>4 DEF HostInv
<1> QED
  BY <1>5, <1>6, <1>7 DEF HostInv, ConnsOf

\* Every step keeps connections with their hosts.
LEMMA NextHostInv == IInv /\ HostInv /\ [Next]_vars => HostInv'
<1> SUFFICES ASSUME IInv, HostInv, [Next]_vars
             PROVE  HostInv'
  OBVIOUS
<1>1. TypeOK /\ PoolTypeOK /\ HasConnection
  BY DEF IInv, TypeOK
<1>2. ASSUME NEW t \in Thread, NEW result, Finish(t, result),
             UNCHANGED <<opened, host_to_pool>>
      PROVE  HostInv'
  <2>1. /\ connection' = [connection EXCEPT ![t] = NoConn]
        /\ \A u \in Thread : u # t => host'[u] = host[u] /\ pc'[u] = pc[u]
    BY <1>1, <1>2 DEF Finish, TypeOK
  <2> QED
    BY <1>1, <1>2, <2>1, DropKeepsHost
<1>3. ASSUME NEW t \in Thread, MakeRequest(t)
      PROVE  HostInv'
  <2>1. /\ connection[t] = NoConn /\ connection' = connection
        /\ UNCHANGED <<opened, host_to_pool>>
        /\ \A u \in Thread : u # t => host'[u] = host[u] /\ pc'[u] = pc[u]
    BY <1>1, <1>3 DEF MakeRequest, HostInv, TypeOK, poolVars
  <2> QED
    BY <2>1 DEF HostInv, ConnsOf
<1>4. ASSUME NEW t \in Thread, Clean(t)
      PROVE  HostInv'
  <2>1. /\ PoolClean /\ UNCHANGED <<opened, connection, host>>
        /\ pc[t] = "clean" /\ pc' = [pc EXCEPT ![t] = "get"]
    BY <1>4 DEF Clean
  <2>2. \A key \in DOMAIN host_to_pool' : \A c \in ConnsOf(host_to_pool'[key]) :
           opened'[c].host = key.host
    BY <1>1, <2>1, PoolCleanNarrows, NarrowKeepsHost DEF Narrower
  <2>3. \A u \in Thread : pc'[u] \in {"idle", "clean", "get"} => connection'[u] = NoConn
    BY <1>1, <2>1 DEF HostInv, TypeOK
  <2> QED
    BY <2>1, <2>2, <2>3 DEF HostInv, ConnsOf
<1>5. ASSUME NEW t \in Thread, GetHttpConnection(t)
      PROVE  HostInv'
  <2> DEFINE key == [host |-> host[t], is_secure |-> secure[t]]
  <2>1. key.host = host[t] /\ key \in Remote
    BY <1>1 DEF TypeOK, Remote
  <2>2. /\ pc' = [pc EXCEPT ![t] = "send"]
        /\ host' = host
        /\ \/ \E c \in Conn : /\ PoolGetHit(key, c)
                              /\ connection' = [connection EXCEPT ![t] = c]
                              /\ opened' = opened
           \/ PoolGetMiss(key) /\ NewHttpConnection(t, key)
    BY <1>5 DEF GetHttpConnection
  <2> HIDE DEF key
  <2>3. ASSUME NEW c \in Conn, PoolGetHit(key, c),
               connection' = [connection EXCEPT ![t] = c], opened' = opened
        PROVE  HostInv'
    <3>1. /\ key \in DOMAIN host_to_pool
          /\ c \in ConnsOf(host_to_pool[key])
      BY <1>1, <2>3, PoolGetHitNarrows
    <3>2. opened[c].host = host[t]
      BY <2>1, <3>1 DEF HostInv
    <3>3. \A k \in DOMAIN host_to_pool' : \A d \in ConnsOf(host_to_pool'[k]) :
             opened'[d].host = k.host
      BY <1>1, <2>3, PoolGetHitNarrows, NarrowKeepsHost DEF Narrower
    <3>4. /\ connection'[t] = c /\ pc'[t] = "send"
          /\ \A u \in Thread : u # t => connection'[u] = connection[u] /\ pc'[u] = pc[u]
      BY <1>1, <2>2, <2>3 DEF TypeOK
    <3> QED
      BY <2>2, <2>3, <3>2, <3>3, <3>4 DEF HostInv, ConnsOf
  <2>4. ASSUME PoolGetMiss(key), NewHttpConnection(t, key)
        PROVE  HostInv'
    <3>1. /\ DOMAIN host_to_pool' \subseteq DOMAIN host_to_pool
          /\ \A k \in DOMAIN host_to_pool' :
                ConnsOf(host_to_pool'[k]) \subseteq ConnsOf(host_to_pool[k])
      BY <1>1, <2>4, PoolGetMissNarrows DEF Narrower
    <3> QED
      BY <2>1, <2>2, <2>4, <3>1, NewConnectionKeepsHost
  <2> QED
    BY <2>2, <2>3, <2>4
<1>6. ASSUME NEW t \in Thread, ServerError(t) \/ RetryHandler(t) \/ Answer(t)
      PROVE  HostInv'
  <2>1. UNCHANGED <<opened, host_to_pool, connection, host>>
    BY <1>6 DEF ServerError, RetryHandler, Answer, poolVars
  <2>2. \E p \in {"send", "end", "put"} : pc' = [pc EXCEPT ![t] = p]
    BY <1>6 DEF ServerError, RetryHandler, Answer, NextAttempt
  <2> QED
    BY <1>1, <2>1, <2>2, SameConnectionsKeepHost
<1>7. ASSUME NEW t \in Thread, PutHttpConnection(t)
      PROVE  HostInv'
  <2> DEFINE key == [host |-> host[t], is_secure |-> IsSecure]
             c == connection[t]
  <2>1. key \in Remote /\ key.host = host[t]
    BY <1>1, MexeAssumption DEF TypeOK, Remote, MexeAssumption
  <2>2. c \in Conn /\ c # NoConn
    BY <1>1, <1>7, MexeAssumption DEF PutHttpConnection, HasConnection, MexeAssumption
  <2>3. PoolPut(key, c) /\ now' = now /\ opened' = opened
    BY <1>7 DEF PutHttpConnection
  <2>4. /\ connection' = [connection EXCEPT ![t] = NoConn]
        /\ host' = [host EXCEPT ![t] = AnyHost]
        /\ pc' = [pc EXCEPT ![t] = "idle"]
    BY <1>7 DEF PutHttpConnection, Finish
  <2>5. opened[c].host = key.host
    BY <2>1, <2>2 DEF HostInv
  <2> HIDE DEF key, c
  <2>6. \A k \in DOMAIN host_to_pool' :
           ConnsOf(host_to_pool'[k]) \subseteq
             (IF k \in DOMAIN host_to_pool THEN ConnsOf(host_to_pool[k]) ELSE {})
               \cup (IF k = key THEN {c} ELSE {})
    BY <1>1, <2>1, <2>2, <2>3, PoolPutKeeps
  <2>7. \A k \in DOMAIN host_to_pool' : \A d \in ConnsOf(host_to_pool'[k]) :
           opened'[d].host = k.host
    BY <2>3, <2>5, <2>6 DEF HostInv
  <2>8. /\ connection'[t] = NoConn
        /\ \A u \in Thread : u # t => /\ connection'[u] = connection[u]
                                      /\ host'[u] = host[u] /\ pc'[u] = pc[u]
    BY <1>1, <2>4 DEF TypeOK
  <2> QED
    BY <2>3, <2>7, <2>8 DEF HostInv, ConnsOf
<1>8. ASSUME NEW t \in Thread, AnswerAndClose(t) \/ Raise(t) \/ Exhausted(t)
      PROVE  HostInv'
  BY <1>2, <1>8 DEF AnswerAndClose, Raise, Exhausted, poolVars
<1>9. ASSUME NEW t \in Thread, Redirect(t)
      PROVE  HostInv'
  <2>1. /\ connection' = [connection EXCEPT ![t] = NoConn]
        /\ UNCHANGED <<opened, host_to_pool>>
        /\ \A u \in Thread : u # t => host'[u] = host[u] /\ pc'[u] = pc[u]
    BY <1>1, <1>9 DEF Redirect, TypeOK, poolVars
  <2> QED
    BY <1>1, <2>1, DropKeepsHost
<1>10. ASSUME NEW t \in Thread, PleaseRetry(t) \/ HttpException(t)
       PROVE  HostInv'
  <2> DEFINE key == [host |-> host[t], is_secure |-> IsSecure]
  <2>1. key \in Remote /\ key.host = host[t]
    BY <1>1, MexeAssumption DEF TypeOK, Remote, MexeAssumption
  <2>2. NewHttpConnection(t, key) /\ UNCHANGED <<host, host_to_pool>>
    BY <1>10 DEF PleaseRetry, HttpException, poolVars
  <2>3. \E p \in {"send", "end"} : pc' = [pc EXCEPT ![t] = p]
    BY <1>10 DEF PleaseRetry, HttpException, NextAttempt
  <2> HIDE DEF key
  <2> QED
    BY <2>1, <2>2, <2>3, NewConnectionKeepsHost
<1>11. ASSUME \/ \E c \in Conn : ReadBody(c)
              \/ Tick
              \/ UNCHANGED vars
       PROVE  HostInv'
  <2>1. UNCHANGED <<opened, host_to_pool, connection, host, pc>>
    BY <1>11 DEF ReadBody, Tick, vars, poolVars, callVars
  <2> QED
    BY <2>1 DEF HostInv, ConnsOf
<1> QED
  BY <1>3, <1>4, <1>5, <1>6, <1>7, <1>8, <1>9, <1>10, <1>11 DEF Next, CallStep

\* Through redirects, reconnections and the pool, a request is sent to the
\* host it is for, although put always uses self.is_secure and redirects
\* change the scheme (connection.py:704-713, 1008-1019).
THEOREM MexeGoesToItsHost == Spec => []GoesToItsHost
<1>1. Init => HostInv
  <2> SUFFICES ASSUME Init
               PROVE  HostInv
    OBVIOUS
  <2>1. DOMAIN host_to_pool = {} /\ \A t \in Thread : connection[t] = NoConn
    BY DEF Init, PoolInit
  <2> QED
    BY <2>1 DEF HostInv
<1>2. HostInv => GoesToItsHost
  BY DEF HostInv, GoesToItsHost, ConnsOf
<1> QED
  BY <1>1, <1>2, NextHostInv, MexeInvariant, PTL DEF Spec

\* A loop that is exhausted has a response or an exception to report: every
\* branch that counts an attempt sets one of them (connection.py:936-1036).
ExplainedInv ==
    \A t \in Thread : /\ pc[t] = "end" => has_response[t] \/ has_ex[t]
                      /\ outcome[t] # "client_error"

\* _mexe never raises the BotoClientError it asks users to report.
THEOREM MexeFailureIsExplained == Spec => []FailureIsExplained
<1>1. Init => ExplainedInv
  BY DEF Init, ExplainedInv
<1>2. TypeOK /\ ExplainedInv /\ [Next]_vars => ExplainedInv'
  <2> SUFFICES ASSUME TypeOK, ExplainedInv, [Next]_vars
               PROVE  ExplainedInv'
    OBVIOUS
  <2>1. ASSUME NEW t \in Thread, MakeRequest(t) \/ CallStep(t)
        PROVE  ExplainedInv'
    <3> DEFINE Same(u) == /\ pc'[u] = pc[u] /\ outcome'[u] = outcome[u]
                          /\ has_response'[u] = has_response[u] /\ has_ex'[u] = has_ex[u]
               Ok == /\ pc'[t] = "end" => has_response'[t] \/ has_ex'[t]
                     /\ outcome'[t] # "client_error"
    <3>1. ASSUME NEW result, result # "client_error", Finish(t, result)
          PROVE  ExplainedInv'
      <4>1. \A u \in Thread : u # t => Same(u)
        BY <3>1 DEF TypeOK, Finish
      <4>2. Ok
        BY <3>1 DEF TypeOK, Finish
      <4> QED
        BY <4>1, <4>2 DEF ExplainedInv
    <3>2. ASSUME Exhausted(t)
          PROVE  ExplainedInv'
      <4>1. has_response[t] \/ has_ex[t]
        BY <3>2 DEF ExplainedInv, Exhausted
      <4> QED
        BY <3>1, <3>2, <4>1 DEF Exhausted
    <3>3. ASSUME PutHttpConnection(t) \/ AnswerAndClose(t) \/ Raise(t)
          PROVE  ExplainedInv'
      BY <3>1, <3>3 DEF PutHttpConnection, AnswerAndClose, Raise
    <3>4. ASSUME MakeRequest(t) \/ Clean(t) \/ GetHttpConnection(t) \/ Answer(t) \/ Redirect(t)
          PROVE  ExplainedInv'
      <4>1. \A u \in Thread : u # t => Same(u)
        BY <3>4 DEF TypeOK, MakeRequest, Clean, GetHttpConnection, Answer, Redirect
      <4>2. pc'[t] # "end" /\ outcome'[t] # "client_error"
        BY <3>4 DEF TypeOK, ExplainedInv, MakeRequest, Clean, GetHttpConnection, Answer, Redirect
      <4> QED
        BY <4>1, <4>2 DEF ExplainedInv
    <3>5. ASSUME ServerError(t) \/ RetryHandler(t) \/ PleaseRetry(t) \/ HttpException(t)
          PROVE  ExplainedInv'
      <4>1. \A u \in Thread : u # t => Same(u)
        BY <3>5 DEF TypeOK, ServerError, RetryHandler, PleaseRetry, HttpException, NextAttempt
      <4>2. outcome' = outcome /\ (has_response'[t] = TRUE \/ has_ex'[t] = TRUE)
        BY <3>5 DEF TypeOK, ServerError, RetryHandler, PleaseRetry, HttpException
      <4> QED
        BY <4>1, <4>2 DEF ExplainedInv
    <3> QED
      BY <2>1, <3>2, <3>3, <3>4, <3>5 DEF CallStep
  <2>2. ASSUME \/ \E c \in Conn : ReadBody(c)
               \/ Tick
               \/ UNCHANGED vars
        PROVE  ExplainedInv'
    <3>1. UNCHANGED <<pc, outcome, has_response, has_ex>>
      BY <2>2 DEF ReadBody, Tick, vars, callVars
    <3> QED
      BY <3>1 DEF ExplainedInv
  <2> QED
    BY <2>1, <2>2 DEF Next
<1>3. ExplainedInv => FailureIsExplained
  BY DEF ExplainedInv, FailureIsExplained
<1> QED
  BY <1>1, <1>2, <1>3, MexeTypeCorrect, PTL DEF Spec

-----------------------------------------------------------------------------
(* The server's view of time.                                              *)

\* A queue made from `before' with the times of the connections that are
\* ready: get() restamps only those it passes over (connection.py:152-158).
KeepsTimes(after, before) ==
    \A m \in 1..Len(after) : \E n \in 1..Len(before) :
       /\ after[m].conn = before[n].conn
       /\ ConnReady(after[m].conn) => after[m].time = before[n].time

\* Keeping the times is reflexive and composes.
LEMMA KeepsTimesOrder ==
  /\ \A q : KeepsTimes(q, q)
  /\ \A p, q, r : KeepsTimes(r, q) /\ KeepsTimes(q, p) => KeepsTimes(r, p)
<1>1. \A q : KeepsTimes(q, q)
  BY Zenon DEF KeepsTimes
<1>2. ASSUME NEW p, NEW q, NEW r, KeepsTimes(r, q), KeepsTimes(q, p)
      PROVE  KeepsTimes(r, p)
  <2> SUFFICES ASSUME NEW m \in 1..Len(r)
               PROVE  \E n \in 1..Len(p) :
                         /\ r[m].conn = p[n].conn
                         /\ ConnReady(r[m].conn) => r[m].time = p[n].time
    BY DEF KeepsTimes
  <2>1. PICK j \in 1..Len(q) :
          /\ r[m].conn = q[j].conn
          /\ ConnReady(r[m].conn) => r[m].time = q[j].time
    BY <1>2, Zenon DEF KeepsTimes
  <2>2. PICK n \in 1..Len(p) :
          /\ q[j].conn = p[n].conn
          /\ ConnReady(q[j].conn) => q[j].time = p[n].time
    BY <1>2, Zenon DEF KeepsTimes
  <2> QED
    BY <2>1, <2>2, Zenon
<1> QED
  BY <1>1, <1>2, Zenon

\* Cleaning keeps the times of what it leaves (connection.py:183-190).
LEMMA HostCleanKeepsTimes ==
  ASSUME NEW queue \in Seq(Pair)
  PROVE  KeepsTimes(HostClean(queue), queue)
<1>1. PICK k \in 0..Len(queue) :
        /\ Len(HostClean(queue)) = Len(queue) - k
        /\ \A m \in 1..(Len(queue) - k) : HostClean(queue)[m] = queue[m + k]
  BY HostCleanShape
<1>2. Len(queue) \in Nat
  OBVIOUS
<1>3. ASSUME NEW m \in 1..Len(HostClean(queue))
      PROVE  m + k \in 1..Len(queue) /\ HostClean(queue)[m] = queue[m + k]
  BY <1>1, <1>2
<1> QED
  BY <1>3 DEF KeepsTimes

\* get() keeps the times of the ready connections it leaves in the queue: it
\* stops at the first one (connection.py:152-158).
LEMMA HostGetKeepsTimes ==
  ASSUME NEW queue \in Seq(Pair), now \in Nat
  PROVE  KeepsTimes(HostAfterGet(queue), queue)
<1>1. CASE Ready(queue) = {}
  <2>1. /\ Len(HostAfterGet(queue)) = Len(queue)
        /\ \A m \in 1..Len(queue) :
             HostAfterGet(queue)[m] = [conn |-> queue[m].conn, time |-> now]
    BY <1>1, RestampShape DEF HostAfterGet
  <2>2. \A m \in 1..Len(queue) : ~ConnReady(queue[m].conn)
    BY <1>1 DEF Ready
  <2>3. ASSUME NEW m \in 1..Len(queue)
        PROVE  HostAfterGet(queue)[m].conn = queue[m].conn
    <3>1. HostAfterGet(queue)[m] = [conn |-> queue[m].conn, time |-> now]
      BY <2>1
    <3> QED
      BY <3>1
  <2> QED
    BY <2>1, <2>2, <2>3 DEF KeepsTimes
<1>2. CASE Ready(queue) # {}
  <2>1. PICK r \in 1..Len(queue) :
          /\ r = First(Ready(queue))
          /\ Len(HostAfterGet(queue)) = Len(queue) - 1
          /\ \A m \in 1..(Len(queue) - r) : HostAfterGet(queue)[m] = queue[m + r]
          /\ \A m \in (Len(queue) - r + 1)..(Len(queue) - 1) :
               HostAfterGet(queue)[m] =
                 [conn |-> queue[m - (Len(queue) - r)].conn, time |-> now]
    BY <1>2, HostGetShape
  <2>2. Len(queue) \in Nat /\ Ready(queue) \in SUBSET Nat
    BY DEF Ready
  <2>3. \A j \in Ready(queue) : r <= j
    BY <1>2, <2>1, <2>2, FirstIsLeast
  <2>4. ASSUME NEW m \in 1..Len(HostAfterGet(queue))
        PROVE  \E n \in 1..Len(queue) :
                  /\ HostAfterGet(queue)[m].conn = queue[n].conn
                  /\ ConnReady(HostAfterGet(queue)[m].conn)
                       => HostAfterGet(queue)[m].time = queue[n].time
    <3>1. CASE m <= Len(queue) - r
      <4>1. m + r \in 1..Len(queue) /\ HostAfterGet(queue)[m] = queue[m + r]
        BY <2>1, <2>2, <3>1
      <4> QED
        BY <4>1
    <3>2. CASE ~(m <= Len(queue) - r)
      <4> DEFINE n == m - (Len(queue) - r)
      <4>1. /\ m \in (Len(queue) - r + 1)..(Len(queue) - 1)
            /\ n \in 1..Len(queue) /\ ~(r <= n)
        BY <2>1, <2>2, <3>2
      <4>2. HostAfterGet(queue)[m] = [conn |-> queue[n].conn, time |-> now]
        BY <2>1, <4>1
      <4> HIDE DEF n
      <4>3. HostAfterGet(queue)[m].conn = queue[n].conn
        BY <4>2
      <4>4. ~ConnReady(queue[n].conn)
        BY <2>3, <4>1 DEF Ready
      <4> QED
        BY <4>1, <4>3, <4>4
    <3> QED
      BY <3>1, <3>2
  <2> QED
    BY <2>4 DEF KeepsTimes
<1> QED
  BY <1>1, <1>2

\* Every operation of the pool but put keeps the times of ready connections
\* (connection.py:266-300).
LEMMA PoolKeepsTimes ==
  ASSUME PoolTypeOK,
         \/ PoolClean
         \/ \E key0 : PoolGetMiss(key0)
         \/ \E key0, c : PoolGetHit(key0, c)
  PROVE  \A key \in DOMAIN host_to_pool' : /\ key \in DOMAIN host_to_pool
                                           /\ KeepsTimes(host_to_pool'[key], host_to_pool[key])
<1>1. now \in Nat /\ \A key \in DOMAIN host_to_pool : host_to_pool[key] \in Seq(Pair)
  BY DEF PoolTypeOK
<1>2. ASSUME NEW key \in DOMAIN host_to_pool
      PROVE  /\ KeepsTimes(host_to_pool[key], host_to_pool[key])
             /\ KeepsTimes(HostClean(host_to_pool[key]), host_to_pool[key])
             /\ KeepsTimes(HostAfterGet(HostClean(host_to_pool[key])), host_to_pool[key])
  <2>1. PICK q : q = HostClean(host_to_pool[key])
    OBVIOUS
  <2>2. q \in Seq(Pair) /\ KeepsTimes(q, host_to_pool[key])
    BY <1>1, <2>1, HostCleanKeeps, HostCleanKeepsTimes DEF Narrower
  <2>3. KeepsTimes(HostAfterGet(q), q)
    BY <1>1, <2>2, HostGetKeepsTimes
  <2> QED
    BY <2>1, <2>2, <2>3, KeepsTimesOrder
<1>3. CASE PoolClean
  <2>1. CASE last_clean_time + CLEAN_INTERVAL < now
    <3> DEFINE kept == {key \in DOMAIN host_to_pool : HostClean(host_to_pool[key]) # <<>>}
    <3>1. host_to_pool' = [key \in kept |-> HostClean(host_to_pool[key])]
      BY <1>3, <2>1 DEF PoolClean
    <3> QED
      BY <1>2, <3>1
  <2>2. CASE ~(last_clean_time + CLEAN_INTERVAL < now)
    BY <1>2, <1>3, <2>2 DEF PoolClean, poolVars
  <2> QED
    BY <2>1, <2>2
<1>4. ASSUME NEW key0, PoolGetMiss(key0) \/ \E c : PoolGetHit(key0, c)
      PROVE  \A key \in DOMAIN host_to_pool' :
                /\ key \in DOMAIN host_to_pool
                /\ KeepsTimes(host_to_pool'[key], host_to_pool[key])
  <2>1. \/ host_to_pool' = host_to_pool
        \/ host_to_pool' = [host_to_pool EXCEPT ![key0] = HostAfterGet(HostClean(host_to_pool[key0]))]
    BY <1>4 DEF PoolGetMiss, PoolGetHit
  <2> QED
    BY <1>2, <2>1
<1> QED
  BY <1>3, <1>4

\* What a step does to the times of the pooled connections: a pair is from the
\* same queue, with its time if the connection was ready, or has been put now
\* by the thread that held it.
LEMMA StepTimes ==
  ASSUME IInv, [Next]_vars,
         NEW key \in DOMAIN host_to_pool', NEW m \in 1..Len(host_to_pool'[key])
  PROVE  \/ /\ key \in DOMAIN host_to_pool
            /\ \E n \in 1..Len(host_to_pool[key]) :
                 /\ host_to_pool'[key][m].conn = host_to_pool[key][n].conn
                 /\ ConnReady(host_to_pool'[key][m].conn)
                      => host_to_pool'[key][m].time = host_to_pool[key][n].time
         \/ /\ host_to_pool'[key][m].conn \in Held
            /\ host_to_pool'[key][m].time = now /\ now' = now
<1>1. PoolTypeOK /\ HasConnection
  BY DEF IInv, TypeOK
<1>2. CASE host_to_pool' = host_to_pool
  BY <1>2
<1>3. ASSUME NEW t \in Thread, Clean(t) \/ GetHttpConnection(t)
      PROVE  key \in DOMAIN host_to_pool /\ KeepsTimes(host_to_pool'[key], host_to_pool[key])
  BY <1>1, <1>3, PoolKeepsTimes DEF Clean, GetHttpConnection
<1>4. ASSUME NEW t \in Thread, PutHttpConnection(t)
      PROVE  \/ /\ key \in DOMAIN host_to_pool /\ m \in 1..Len(host_to_pool[key])
                /\ host_to_pool'[key][m] = host_to_pool[key][m]
             \/ /\ host_to_pool'[key][m].conn = connection[t]
                /\ host_to_pool'[key][m].time = now
  <2> DEFINE key0 == [host |-> host[t], is_secure |-> IsSecure]
             old == IF key \in DOMAIN host_to_pool THEN host_to_pool[key] ELSE <<>>
             pair == [conn |-> connection[t], time |-> now]
  <2>1. PoolPut(key0, connection[t])
    BY <1>4 DEF PutHttpConnection
  <2>2. CASE key # key0
    BY <2>1, <2>2 DEF PoolPut
  <2>3. CASE key = key0
    <3>1. host_to_pool'[key] = Append(old, pair)
      BY <2>1, <2>3 DEF PoolPut, HostPut
    <3>2. old \in Seq(Pair)
      BY <1>1 DEF PoolTypeOK
    <3>3. connection[t] \in Conn /\ now \in Nat
      BY <1>1, <1>4 DEF HasConnection, PutHttpConnection, PoolTypeOK
    <3>4. pair \in Pair
      BY <3>3 DEF Pair
    <3>5. pair.conn = connection[t] /\ pair.time = now
      OBVIOUS
    <3> HIDE DEF pair, key0
    <3>6. \/ m \in 1..Len(old) /\ host_to_pool'[key][m] = old[m]
          \/ host_to_pool'[key][m] = pair
      <4> HIDE DEF old
      <4>1. /\ Len(Append(old, pair)) = Len(old) + 1
            /\ \A n \in 1..Len(old) : Append(old, pair)[n] = old[n]
            /\ Append(old, pair)[Len(old) + 1] = pair
        BY <3>2, <3>4, AppendProperties
      <4>2. m \in 1..(Len(old) + 1) /\ Len(old) \in Nat
        BY <3>1, <3>2, <4>1
      <4>3. m \in 1..Len(old) \/ m = Len(old) + 1
        BY <4>2
      <4> QED
        BY <3>1, <4>1, <4>3
    <3>7. key \notin DOMAIN host_to_pool => Len(old) = 0
      OBVIOUS
    <3> QED
      BY <3>5, <3>6, <3>7
  <2> QED
    BY <2>2, <2>3
<1>5. \/ host_to_pool' = host_to_pool
      \/ \E t \in Thread : Clean(t) \/ GetHttpConnection(t) \/ PutHttpConnection(t)
  <2>1. ASSUME NEW t \in Thread, MakeRequest(t) \/ CallStep(t),
               ~(Clean(t) \/ GetHttpConnection(t) \/ PutHttpConnection(t))
        PROVE  host_to_pool' = host_to_pool
    BY <2>1 DEF CallStep, MakeRequest, ServerError, RetryHandler, Answer, AnswerAndClose,
                Redirect, PleaseRetry, HttpException, Raise, Exhausted, poolVars
  <2>2. ASSUME (\E c \in Conn : ReadBody(c)) \/ Tick \/ UNCHANGED vars
        PROVE  host_to_pool' = host_to_pool
    BY <2>2 DEF ReadBody, Tick, poolVars, vars
  <2> QED
    BY <2>1, <2>2 DEF Next
<1>6. CASE \E t \in Thread : Clean(t) \/ GetHttpConnection(t)
  BY <1>3, <1>6 DEF KeepsTimes
<1>7. CASE \E t \in Thread : PutHttpConnection(t)
  <2>1. PICK t \in Thread : PutHttpConnection(t)
    BY <1>7
  <2>2. connection[t] \in Held
    BY <1>1, <2>1 DEF HasConnection, PutHttpConnection, Held
  <2>3. now' = now
    BY <2>1 DEF PutHttpConnection
  <2> QED
    BY <1>4, <2>1, <2>2, <2>3
<1> QED
  BY <1>2, <1>5, <1>6, <1>7

\* Strengthens ReadInTimeIsReusedInTime: a pooled connection whose response is
\* open is known as unread, and the pair of any other one is not younger than
\* the connection's last traffic.
IdleInv ==
    /\ last_io \in [Conn -> Nat]
    /\ \A c \in Pooled : ~ConnReady(c) => c \in unread
    /\ \A key \in DOMAIN host_to_pool : \A m \in 1..Len(host_to_pool[key]) :
          host_to_pool[key][m].conn \notin unread
            => host_to_pool[key][m].time <= last_io[host_to_pool[key][m].conn]

\* Every step keeps the pairs as old as the traffic says.
LEMMA NextIdleInv == IInv /\ IdleInv /\ [IdleNext]_idleVars => IdleInv'
<1> SUFFICES ASSUME IInv, IdleInv, [IdleNext]_idleVars
             PROVE  IdleInv'
  OBVIOUS
<1>1. CASE IdleNext
  <2>1. [Next]_vars /\ IInv'
    BY <1>1, NextInv DEF IdleNext
  <2>2. /\ last_io' = [c \in Conn |-> IF c \in Held \/ c \in Held' THEN now' ELSE last_io[c]]
        /\ unread' = {c \in Pooled' : c \in unread \/ response'[c] = "open"}
    BY <1>1 DEF IdleNext
  <2>3. /\ now' \in Nat /\ PoolInOrder'
        /\ \A key \in DOMAIN host_to_pool' : host_to_pool'[key] \in Seq(Pair)
    BY <2>1 DEF IInv, TypeOK, PoolTypeOK
  <2>4. last_io' \in [Conn -> Nat]
    BY <2>2, <2>3 DEF IdleInv
  <2>5. \A c \in Pooled' : response'[c] = "open" => c \in unread'
    BY <2>2
  <2>6. ASSUME NEW key \in DOMAIN host_to_pool', NEW m \in 1..Len(host_to_pool'[key]),
               host_to_pool'[key][m].conn \notin unread'
        PROVE  host_to_pool'[key][m].time <= last_io'[host_to_pool'[key][m].conn]
    <3>1. PICK c, time : c = host_to_pool'[key][m].conn /\ time = host_to_pool'[key][m].time
      OBVIOUS
    <3>2. host_to_pool'[key][m] \in Pair
      BY <2>3, ElementOfSeq
    <3>3. c \in Conn /\ c \in Pooled' /\ time \in Nat
      BY <3>1, <3>2 DEF Pair, Pooled
    <3>4. c \notin unread
      BY <2>2, <2>6, <3>1, <3>3
    <3>5. CASE c \in Held \/ c \in Held'
      <4>1. last_io'[c] = now'
        BY <2>2, <3>3, <3>5
      <4>2. time <= now'
        BY <2>3, <3>1 DEF PoolInOrder, InOrder
      <4> QED
        BY <3>1, <4>1, <4>2
    <3>6. CASE ~(c \in Held \/ c \in Held')
      <4>1. last_io'[c] = last_io[c]
        BY <2>2, <3>3, <3>6
      <4>2. /\ key \in DOMAIN host_to_pool
            /\ \E n \in 1..Len(host_to_pool[key]) :
                 /\ c = host_to_pool[key][n].conn
                 /\ ConnReady(c) => time = host_to_pool[key][n].time
        BY <2>1, <3>1, <3>6, StepTimes
      <4>3. PICK n \in 1..Len(host_to_pool[key]) :
                 /\ c = host_to_pool[key][n].conn
                 /\ ConnReady(c) => time = host_to_pool[key][n].time
        BY <4>2
      <4>4. c \in Pooled
        BY <3>3, <4>2, <4>3 DEF Pooled
      <4>5. ConnReady(c)
        BY <3>4, <4>4 DEF IdleInv
      <4>6. host_to_pool[key][n].time <= last_io[c]
        BY <3>4, <4>2, <4>3 DEF IdleInv
      <4> QED
        BY <3>1, <4>1, <4>3, <4>5, <4>6
    <3> QED
      BY <3>5, <3>6
  <2> QED
    BY <2>4, <2>5, <2>6 DEF IdleInv, ConnReady
<1>2. CASE UNCHANGED idleVars
  BY <1>2 DEF idleVars, vars, IdleInv, Pooled, ConnReady
<1> QED
  BY <1>1, <1>2

\* A connection that get() would return now, and whose response was read when
\* it was pooled, carried its last message at most STALE_DURATION ago, however
\* the queue has been turned since (connection.py:140-158, 183-191, 221-222).
THEOREM MexeReadInTimeIsReusedInTime == IdleSpec => []ReadInTimeIsReusedInTime
<1>1. IdleInit => IInv /\ IdleInv
  <2> SUFFICES ASSUME IdleInit
               PROVE  IInv /\ IdleInv
    OBVIOUS
  <2>1. IInv
    BY InitInv DEF IdleInit
  <2>2. DOMAIN host_to_pool = {}
    BY DEF IdleInit, Init, PoolInit
  <2>3. last_io \in [Conn -> Nat]
    BY <2>1 DEF IdleInit, IInv, TypeOK, PoolTypeOK
  <2> QED
    BY <2>1, <2>2, <2>3 DEF IdleInv, Pooled
<1>2. IInv /\ IdleInv /\ [IdleNext]_idleVars => IInv' /\ IdleInv'
  BY NextInv, NextIdleInv DEF IdleNext, idleVars
<1>3. IInv /\ IdleInv => ReadInTimeIsReusedInTime
  <2> SUFFICES ASSUME IInv, IdleInv, NEW key \in DOMAIN host_to_pool,
                      NEW c \in NextReused(key), c \notin unread
               PROVE  now <= last_io[c] + STALE_DURATION
    BY DEF ReadInTimeIsReusedInTime
  <2>1. now \in Nat /\ host_to_pool[key] \in Seq(Pair) /\ InOrder(host_to_pool[key])
    BY DEF IInv, TypeOK, PoolTypeOK, PoolInOrder
  <2>2. PICK q : q = HostClean(host_to_pool[key])
    OBVIOUS
  <2>3. q \in Seq(Pair)
    BY <2>1, <2>2, HostCleanKeeps DEF Narrower
  <2>4. PICK f : f = First(Ready(q))
    OBVIOUS
  <2>5. c \in Conn /\ Ready(q) # {} /\ c = q[f].conn
    BY <2>2, <2>4 DEF NextReused
  <2>6. Ready(q) \in SUBSET Nat
    BY DEF Ready
  <2>7. f \in 1..Len(q) /\ ConnReady(c)
    BY <2>4, <2>5, <2>6, FirstIsLeast DEF Ready
  <2>8. ~PairStale(q[f])
    BY <2>1, <2>2, <2>7, HostCleanFresh
  <2>9. PICK n \in 1..Len(host_to_pool[key]) :
          c = host_to_pool[key][n].conn /\ q[f].time = host_to_pool[key][n].time
    BY <2>1, <2>2, <2>5, <2>7, HostCleanKeepsTimes DEF KeepsTimes
  <2>10. q[f].time <= last_io[c]
    BY <2>9 DEF IdleInv
  <2>11. q[f].time \in Nat /\ last_io[c] \in Nat
    <3>1. q[f] \in Pair
      BY <2>3, <2>7, ElementOfSeq
    <3> QED
      BY <2>5, <3>1 DEF Pair, IdleInv
  <2>12. ~(q[f].time + STALE_DURATION < now)
    BY <2>8 DEF PairStale
  <2>13. \A a, b, d, e \in Nat : a <= b /\ ~(a + d < e) => e <= b + d
    OBVIOUS
  <2> QED
    BY <2>1, <2>10, <2>11, <2>12, <2>13, PoolAssumption, Zenon DEF PoolAssumption
<1> QED
  BY <1>1, <1>2, <1>3, PTL DEF IdleSpec
=============================================================================
