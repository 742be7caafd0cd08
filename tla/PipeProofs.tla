----------------------------- MODULE PipeProofs -----------------------------
(***************************************************************************)
(* What a pipe promises, for every set of readers and writers, every       *)
(* PIPESIZE and every range of the counters that PIPESIZE divides: that no *)
(* wakeup is lost (Sleepers), and that it is a bounded queue (Fifo).       *)
(*                                                                         *)
(* First the ring: what the counters modulo Wrap and the places modulo     *)
(* PIPESIZE come to.  Then the invariant, and the refinement.              *)
(***************************************************************************)
EXTENDS Pipe, SequenceTheorems, TLAPS

-----------------------------------------------------------------------------
(* Remainders.                                                             *)

\* Division with remainder.
LEMMA DivMod ==
  ASSUME NEW a \in Int, NEW n \in Nat \ {0}
  PROVE  /\ a % n \in 0..(n - 1)
         /\ \E q \in Int : a = q * n + (a % n)
  <1>1. a % n \in 0..(n - 1)
    OBVIOUS
  <1>2. (a \div n) \in Int /\ a = (a \div n) * n + (a % n)
    OBVIOUS
  <1> QED
    BY <1>1, <1>2

\* A multiple of n other than 0 is at least n away from 0.
LEMMA Multiple ==
  ASSUME NEW n \in Nat \ {0}, NEW q \in Int, q # 0
  PROVE  q * n >= n \/ q * n <= -n
  OBVIOUS

\* The remainder is unique, ...
LEMMA SameRest ==
  ASSUME NEW n \in Nat \ {0}, NEW q \in Int, NEW k \in Int,
         NEW r \in 0..(n - 1), NEW s \in 0..(n - 1),
         q * n + r = k * n + s
  PROVE  r = s
  <1>1. (q - k) * n = q * n - k * n /\ q * n \in Int /\ k * n \in Int
    OBVIOUS
  <1>2. (q - k) * n = s - r
    BY <1>1
  <1>4. q - k = 0
    BY <1>2, Multiple
  <1> QED
    BY <1>2, <1>4

\* ... so it is found by writing the number as a multiple and a rest.
LEMMA ModIs ==
  ASSUME NEW n \in Nat \ {0}, NEW q \in Int, NEW r \in 0..(n - 1)
  PROVE  (q * n + r) % n = r
  <1> DEFINE a == q * n + r
  <1>0. a \in Int
    OBVIOUS
  <1>1. PICK k \in Int : a = k * n + (a % n)
    BY <1>0, DivMod
  <1>3. a % n \in 0..(n - 1)
    BY <1>0, DivMod
  <1> HIDE DEF a
  <1>4. a = q * n + r
    BY DEF a
  <1>5. r = a % n
    BY <1>1, <1>3, <1>4, SameRest
  <1> QED
    BY <1>5 DEF a

\* Numbers that differ by a multiple of n have the same remainder, ...
LEMMA ModSame ==
  ASSUME NEW n \in Nat \ {0}, NEW a \in Int, NEW b \in Int,
         NEW k \in Int, b = a + k * n
  PROVE  b % n = a % n
  <1>1. PICK q \in Int : a = q * n + (a % n)
    BY DivMod
  <1>2. a % n \in 0..(n - 1)
    BY DivMod
  <1>3. (q + k) * n = q * n + k * n /\ q * n \in Int /\ k * n \in Int
    OBVIOUS
  <1>4. b = (q + k) * n + (a % n)
    BY <1>1, <1>2, <1>3
  <1>5. q + k \in Int
    OBVIOUS
  <1>6. ((q + k) * n + (a % n)) % n = a % n
    BY <1>2, <1>5, ModIs
  <1> QED
    BY <1>4, <1>6

\* ... and numbers less than n apart have different ones.
LEMMA ModDiffers ==
  ASSUME NEW n \in Nat \ {0}, NEW a \in Int, NEW b \in Int,
         a < b, b - a < n
  PROVE  a % n # b % n
  <1> SUFFICES ASSUME a % n = b % n PROVE FALSE
    OBVIOUS
  <1>1. PICK q \in Int : a = q * n + (a % n)
    BY DivMod
  <1>2. PICK k \in Int : b = k * n + (b % n)
    BY DivMod
  <1>3. a % n \in 0..(n - 1)
    BY DivMod
  <1>4. (k - q) * n = k * n - q * n /\ q * n \in Int /\ k * n \in Int
    OBVIOUS
  <1>5. (k - q) * n = b - a
    BY <1>1, <1>2, <1>3, <1>4
  <1>6. k - q # 0
    BY <1>5
  <1> QED
    BY <1>5, <1>6, Multiple

\* The remainder of a number that is at most once around.
LEMMA ModSmall ==
  ASSUME NEW n \in Nat \ {0}, NEW a \in Int
  PROVE  /\ a \in 0..(n - 1) => a % n = a
         /\ a \in n..(2 * n - 1) => a % n = a - n
         /\ a \in (-n)..(-1) => a % n = a + n
  <1>1. ASSUME NEW r \in 0..(n - 1) PROVE r % n = r
    <2>1. (0 * n + r) % n = r
      BY ModIs
    <2> QED BY <2>1
  <1>2. a % n = (a - n) % n
    <2> DEFINE b == a - n
    <2>3. PICK k \in Int : k = 1
      OBVIOUS
    <2>1. b \in Int /\ a = b + k * n
      BY <2>3
    <2> HIDE DEF b
    <2>2. a % n = b % n
      BY <2>1, ModSame
    <2> QED BY <2>2 DEF b
  <1>3. (a + n) % n = a % n
    <2> DEFINE b == a + n
    <2>3. PICK k \in Int : k = 1
      OBVIOUS
    <2>1. b \in Int /\ b = a + k * n
      BY <2>3
    <2> HIDE DEF b
    <2>2. a % n = b % n
      BY <2>1, ModSame
    <2> QED BY <2>2 DEF b
  <1> QED
    BY <1>1, <1>2, <1>3

\* A counter modulo n goes up, ...
LEMMA ModSum ==
  ASSUME NEW n \in Nat \ {0}, NEW a \in 0..(n - 1), NEW m \in 0..n
  PROVE  (a + m) % n = IF a + m < n THEN a + m ELSE a + m - n
  <1> DEFINE x == a + m
  <1>1. x \in Int /\ IF x < n THEN x \in 0..(n - 1) ELSE x \in n..(2 * n - 1)
    OBVIOUS
  <1> HIDE DEF x
  <1>2. x % n = IF x < n THEN x ELSE x - n
    BY <1>1, ModSmall
  <1> QED
    BY <1>2 DEF x

\* ... and the distance between two of them.
LEMMA ModDiff ==
  ASSUME NEW n \in Nat \ {0}, NEW a \in 0..(n - 1), NEW b \in 0..(n - 1)
  PROVE  (a - b) % n = IF b <= a THEN a - b ELSE a - b + n
  <1> DEFINE x == a - b
  <1>1. /\ x \in Int /\ (b <= a <=> 0 <= x)
        /\ IF 0 <= x THEN x \in 0..(n - 1) ELSE x \in (-n)..(-1)
    OBVIOUS
  <1> HIDE DEF x
  <1>2. x % n = IF 0 <= x THEN x ELSE x + n
    BY <1>1, ModSmall
  <1> QED
    BY <1>1, <1>2 DEF x

-----------------------------------------------------------------------------
(* The ring.                                                               *)

\* Wrap is a multiple of PIPESIZE: a counter that wraps stays at its place in
\* the ring.
LEMMA Turn ==
  ASSUME NEW a \in Int, NEW i \in Int
  PROVE  ((a % Wrap) + i) % PIPESIZE = (a + i) % PIPESIZE
  <1>1. Wrap \in Nat \ {0} /\ PIPESIZE \in Nat \ {0}
    BY PipeAssumption
  <1>2. PICK q \in Int : a = q * Wrap + (a % Wrap)
    BY <1>1, DivMod
  <1>3. a % Wrap \in Int
    BY <1>1, DivMod
  <1>4. PICK k \in Int : Wrap = k * PIPESIZE
    <2>1. Wrap \in Int /\ PIPESIZE \in Nat \ {0}
      BY PipeAssumption
    <2>2. PICK k \in Int : Wrap = k * PIPESIZE + (Wrap % PIPESIZE)
      BY <2>1, DivMod
    <2> QED
      BY <1>1, <2>2, PipeAssumption
  <1> DEFINE x == (a % Wrap) + i
             y == a + i
             m == q * k
  <1>5. q * Wrap = m * PIPESIZE /\ m \in Int
    BY <1>1, <1>4
  <1>6. x \in Int /\ y \in Int /\ m \in Int /\ m * PIPESIZE \in Int
    BY <1>1, <1>3, <1>5
  <1> HIDE DEF m
  <1>7. y = x + m * PIPESIZE
    BY <1>2, <1>3, <1>5, <1>6
  <1> HIDE DEF x, y, m
  <1>8. y % PIPESIZE = x % PIPESIZE
    BY <1>1, <1>6, <1>7, ModSame
  <1> QED
    BY <1>8 DEF x, y

Counters == nread \in 0..(Wrap - 1) /\ nwrite \in 0..(Wrap - 1)

\* Count and Full without wrapping.
LEMMA CountIs ==
  ASSUME Counters
  PROVE  /\ Count = IF nread <= nwrite THEN nwrite - nread
                                       ELSE nwrite - nread + Wrap
         /\ Count \in 0..(Wrap - 1)
         /\ Empty <=> Count = 0
         /\ Full <=> Count = PIPESIZE
  <1>1. /\ Wrap \in Nat \ {0} /\ PIPESIZE \in Nat \ {0} /\ PIPESIZE < Wrap
        /\ nread \in 0..(Wrap - 1) /\ nwrite \in 0..(Wrap - 1)
    BY PipeAssumption DEF Counters
  <1>2. PIPESIZE \in 0..Wrap
    BY <1>1
  <1>3. Count = IF nread <= nwrite THEN nwrite - nread
                                   ELSE nwrite - nread + Wrap
    BY <1>1, ModDiff DEF Count
  <1>4. Plus(nread, PIPESIZE) = IF nread + PIPESIZE < Wrap
                                THEN nread + PIPESIZE
                                ELSE nread + PIPESIZE - Wrap
    BY <1>1, <1>2, ModSum DEF Plus
  <1> QED
    BY <1>1, <1>3, <1>4 DEF Full, Empty

\* A byte goes in.
LEMMA CountUp ==
  ASSUME Counters, Count < PIPESIZE, nread' = nread, nwrite' = Plus(nwrite, 1)
  PROVE  Counters' /\ Count' = Count + 1
  <1>1. /\ Wrap \in Nat \ {0} /\ PIPESIZE \in Nat \ {0} /\ PIPESIZE < Wrap
        /\ nread \in 0..(Wrap - 1) /\ nwrite \in 0..(Wrap - 1)
    BY PipeAssumption DEF Counters
  <1>2. 1 \in 0..Wrap
    BY <1>1
  <1>3. nwrite' = IF nwrite + 1 < Wrap THEN nwrite + 1 ELSE nwrite + 1 - Wrap
    BY <1>1, <1>2, ModSum DEF Plus
  <1>4. Counters'
    BY <1>1, <1>3 DEF Counters
  <1>5. Count' = IF nread' <= nwrite' THEN nwrite' - nread'
                                      ELSE nwrite' - nread' + Wrap
    <2>1. /\ nwrite' - nread' \in Int
          /\ nread' \in 0..(Wrap - 1) /\ nwrite' \in 0..(Wrap - 1)
      BY <1>1, <1>4 DEF Counters
    <2> QED
      BY <1>1, <2>1, ModDiff DEF Count
  <1> QED
    BY <1>1, <1>3, <1>4, <1>5, CountIs

\* m bytes come out.
LEMMA CountDown ==
  ASSUME Counters, NEW m \in Nat, m <= Count, nwrite' = nwrite,
         nread' = Plus(nread, m)
  PROVE  Counters' /\ Count' = Count - m
  <1>1. /\ Wrap \in Nat \ {0} /\ PIPESIZE \in Nat \ {0} /\ PIPESIZE < Wrap
        /\ nread \in 0..(Wrap - 1) /\ nwrite \in 0..(Wrap - 1)
    BY PipeAssumption DEF Counters
  <1>2. m \in 0..Wrap
    BY <1>1, CountIs
  <1>3. nread' = IF nread + m < Wrap THEN nread + m ELSE nread + m - Wrap
    BY <1>1, <1>2, ModSum DEF Plus
  <1>4. Counters'
    BY <1>1, <1>2, <1>3 DEF Counters
  <1>5. Count' = IF nread' <= nwrite' THEN nwrite' - nread'
                                      ELSE nwrite' - nread' + Wrap
    <2>1. /\ nwrite' - nread' \in Int
          /\ nread' \in 0..(Wrap - 1) /\ nwrite' \in 0..(Wrap - 1)
      BY <1>1, <1>4 DEF Counters
    <2> QED
      BY <1>1, <2>1, ModDiff DEF Count
  <1> QED
    BY <1>1, <1>3, <1>4, <1>5, CountIs

Ring == data \in [0..(PIPESIZE - 1) -> Bytes]

\* The place of the byte number i after nread.
Slot(i) == (nread + i) % PIPESIZE

\* It is one of the ring.
LEMMA SlotIs ==
  ASSUME Counters, NEW i \in Int
  PROVE  Slot(i) \in 0..(PIPESIZE - 1)
  <1> DEFINE x == nread + i
  <1>1. x \in Int /\ PIPESIZE \in Nat \ {0}
    BY PipeAssumption DEF Counters
  <1> HIDE DEF x
  <1>2. x % PIPESIZE \in 0..(PIPESIZE - 1)
    BY <1>1, DivMod
  <1> QED
    BY <1>2 DEF Slot, x

\* Bytes of the queue have places of their own.
LEMMA SlotsDiffer ==
  ASSUME Counters, NEW i \in Int, NEW j \in Int, i < j, j - i < PIPESIZE
  PROVE  Slot(i) # Slot(j)
  <1> DEFINE x == nread + i
             y == nread + j
  <1>1. /\ x \in Int /\ y \in Int /\ PIPESIZE \in Nat \ {0}
        /\ x < y /\ y - x < PIPESIZE
    BY PipeAssumption DEF Counters
  <1> HIDE DEF x, y
  <1>2. x % PIPESIZE # y % PIPESIZE
    BY <1>1, ModDiffers
  <1> QED
    BY <1>2 DEF Slot, x, y

\* The next byte goes to the place behind the queue.
LEMMA WriteSlot ==
  ASSUME Counters
  PROVE  nwrite % PIPESIZE = Slot(Count)
  <1>1. /\ Wrap \in Nat \ {0} /\ PIPESIZE \in Nat \ {0}
        /\ nread \in 0..(Wrap - 1) /\ nwrite \in 0..(Wrap - 1)
        /\ Count \in 0..Wrap
    BY PipeAssumption, CountIs DEF Counters
  <1>2. (nread + Count) % Wrap = nwrite
    <2>1. (nread + Count) % Wrap = IF nread + Count < Wrap THEN nread + Count
                                   ELSE nread + Count - Wrap
      BY <1>1, ModSum
    <2> QED
      BY <1>1, <2>1, CountIs
  <1> DEFINE x == nread + Count
  <1>3. x \in Int /\ x % Wrap = nwrite
    BY <1>1, <1>2
  <1> HIDE DEF x
  <1>4. ((x % Wrap) + 0) % PIPESIZE = (x + 0) % PIPESIZE
    BY <1>3, Turn
  <1>5. nwrite % PIPESIZE = x % PIPESIZE
    BY <1>1, <1>3, <1>4
  <1> QED
    BY <1>5 DEF Slot, x

\* The queue holds what is in these places.
LEMMA QueueIs ==
  ASSUME Counters, Ring
  PROVE  /\ Queue \in Seq(Bytes) /\ Len(Queue) = Count
         /\ \A j \in 1..Count : Queue[j] = data[Slot(j - 1)]
  <1>1. Count \in Nat
    BY CountIs, PipeAssumption
  <1>2. ASSUME NEW j \in 1..Count PROVE nread + j - 1 = nread + (j - 1)
    BY <1>1 DEF Counters
  <1>3. \A j \in 1..Count : /\ Slot(j - 1) \in 0..(PIPESIZE - 1)
                            /\ (nread + j - 1) % PIPESIZE = Slot(j - 1)
    BY <1>1, <1>2, SlotIs DEF Slot
  <1>4. Queue = [j \in 1..Count |-> data[Slot(j - 1)]]
    BY <1>3 DEF Queue
  <1>5. \A j \in 1..Count : data[Slot(j - 1)] \in Bytes
    BY <1>3 DEF Ring
  <1>6. Queue \in [1..Count -> Bytes]
    BY <1>4, <1>5
  <1> QED
    BY <1>1, <1>4, <1>6

\* pipewrite() appends a byte to the queue, ...
LEMMA QueueAppend ==
  ASSUME Counters, Ring, Count < PIPESIZE, NEW b \in Bytes,
         data' = [data EXCEPT ![nwrite % PIPESIZE] = b],
         nread' = nread, nwrite' = Plus(nwrite, 1)
  PROVE  Ring' /\ Queue' = Append(Queue, b)
  <1>1. Counters' /\ Count' = Count + 1 /\ Count \in Nat
    BY CountUp, CountIs, PipeAssumption
  <1>2. Ring'
    BY DEF Ring
  <1>3. /\ Queue' \in Seq(Bytes) /\ Len(Queue') = Count'
        /\ \A j \in 1..Count' : Queue'[j] = data'[Slot(j - 1)']
    <2>1. (Counters /\ Ring =>
               /\ Queue \in Seq(Bytes) /\ Len(Queue) = Count
               /\ \A j \in 1..Count : Queue[j] = data[Slot(j - 1)])'
      BY QueueIs, PTL
    <2> QED
      BY <1>1, <1>2, <2>1
  <1>4. \A i : Slot(i)' = Slot(i)
    BY DEF Slot
  <1>5. /\ data'[Slot(Count)] = b
        /\ \A i \in 0..(Count - 1) : data'[Slot(i)] = data[Slot(i)]
    <2>1. Slot(Count) \in 0..(PIPESIZE - 1) /\ nwrite % PIPESIZE = Slot(Count)
      BY <1>1, SlotIs, WriteSlot
    <2>2. \A i \in 0..(Count - 1) : Slot(i) # Slot(Count)
      BY <1>1, SlotsDiffer, PipeAssumption
    <2> QED
      BY <2>1, <2>2, <1>1, SlotIs DEF Ring
  <1>6. /\ Append(Queue, b) \in Seq(Bytes) /\ Len(Append(Queue, b)) = Count + 1
        /\ \A j \in 1..Count : Append(Queue, b)[j] = data[Slot(j - 1)]
        /\ Append(Queue, b)[Count + 1] = b
    BY QueueIs, AppendProperties
  <1>7. ASSUME NEW j \in 1..(Count + 1) PROVE Queue'[j] = Append(Queue, b)[j]
    <2>1. Queue'[j] = data'[Slot(j - 1)]
      BY <1>1, <1>3, <1>4
    <2>2. CASE j = Count + 1
      BY <1>1, <1>5, <1>6, <2>1, <2>2
    <2>3. CASE j \in 1..Count
      <3>1. j - 1 \in 0..(Count - 1)
        BY <1>1, <2>3
      <3> QED
        BY <1>5, <1>6, <2>1, <2>3, <3>1
    <2>4. j = Count + 1 \/ j \in 1..Count
      BY <1>1
    <2> QED
      BY <2>2, <2>3, <2>4
  <1> QED
    BY <1>1, <1>2, <1>3, <1>6, <1>7, SeqEqual

\* ... and piperead() takes bytes from its head.
LEMMA QueueTake ==
  ASSUME Counters, Ring, NEW m \in Nat, m <= Count,
         data' = data, nwrite' = nwrite, nread' = Plus(nread, m),
         taken' = [j \in 1..m |-> data[(nread + j - 1) % PIPESIZE]]
  PROVE  /\ Counters' /\ Count' = Count - m /\ Ring'
         /\ taken' \in Seq(Bytes) /\ Len(taken') = m
         /\ taken' = SubSeq(Queue, 1, m)
         /\ Queue' = SubSeq(Queue, m + 1, Len(Queue))
  <1>1. Counters' /\ Count' = Count - m /\ Count \in Nat
    BY CountDown, CountIs, PipeAssumption
  <1>2. Ring'
    BY DEF Ring
  <1>3. /\ Queue' \in Seq(Bytes) /\ Len(Queue') = Count'
        /\ \A j \in 1..Count' : Queue'[j] = data'[Slot(j - 1)']
    <2>1. (Counters /\ Ring =>
               /\ Queue \in Seq(Bytes) /\ Len(Queue) = Count
               /\ \A j \in 1..Count : Queue[j] = data[Slot(j - 1)])'
      BY QueueIs, PTL
    <2> QED
      BY <1>1, <1>2, <2>1
  <1>4. ASSUME NEW i \in Int PROVE Slot(i)' = Slot(m + i)
    <2> DEFINE x == nread + m
    <2>1. x \in Int /\ nread' = x % Wrap
      BY DEF Plus, Counters
    <2> HIDE DEF x
    <2>2. (nread' + i) % PIPESIZE = (x + i) % PIPESIZE
      BY <2>1, Turn
    <2>3. x + i = nread + (m + i)
      BY DEF x, Counters
    <2> QED
      BY <2>2, <2>3 DEF Slot
  <1>5. /\ Queue \in Seq(Bytes) /\ Len(Queue) = Count
        /\ \A j \in 1..Count : Queue[j] = data[Slot(j - 1)]
        /\ \A j \in 1..Count : Queue[j] \in Bytes
    BY QueueIs, ElementOfSeq
  <1>6. /\ taken' = SubSeq(Queue, 1, m)
        /\ taken' \in Seq(Bytes) /\ Len(taken') = m
    <2>1. ASSUME NEW j \in 1..m PROVE taken'[j] = Queue[j] /\ j \in 1..Count
      <3>1. j \in 1..Count /\ nread + j - 1 = nread + (j - 1)
        BY <1>1 DEF Counters
      <3>2. taken'[j] = data[Slot(j - 1)]
        BY <3>1 DEF Slot
      <3> QED
        BY <1>5, <3>1, <3>2
    <2>2. taken' \in [1..m -> Bytes]
      BY <1>5, <2>1
    <2>3. taken' \in Seq(Bytes) /\ Len(taken') = m
      BY <2>2
    <2>4. /\ SubSeq(Queue, 1, m) \in Seq(Bytes) /\ Len(SubSeq(Queue, 1, m)) = m
          /\ \A j \in 1..m : SubSeq(Queue, 1, m)[j] = Queue[j]
      BY <1>5, <2>1, SubSeqProperties
    <2> QED
      BY <2>1, <2>3, <2>4, SeqEqual
  <1>7. Queue' = SubSeq(Queue, m + 1, Len(Queue))
    <2> DEFINE t == SubSeq(Queue, m + 1, Count)
    <2>1. /\ t \in Seq(Bytes) /\ Len(t) = Count - m
          /\ \A j \in 1..(Count - m) : t[j] = Queue[m + j]
      <3>1. /\ \A j \in (m + 1)..Count : Queue[j] \in Bytes
            /\ m + 1 \in Int /\ Count \in Int
        BY <1>1, <1>5
      <3>2. /\ t \in Seq(Bytes)
            /\ Len(t) = IF m + 1 <= Count THEN Count - (m + 1) + 1 ELSE 0
            /\ \A j \in 1..(Count - (m + 1) + 1) : t[j] = Queue[m + 1 + j - 1]
        BY <3>1, SubSeqProperties
      <3> QED
        BY <1>1, <3>2
    <2> HIDE DEF t
    <2>2. ASSUME NEW j \in 1..(Count - m) PROVE Queue'[j] = t[j]
      <3>1. /\ j \in 1..Count' /\ j - 1 \in Int /\ m + j \in 1..Count
            /\ m + (j - 1) = (m + j) - 1
        BY <1>1
      <3>2. Queue'[j] = data[Slot((m + j) - 1)]
        BY <1>3, <1>4, <3>1
      <3> QED
        BY <1>5, <2>1, <3>1, <3>2
    <2>3. Queue' = t
      BY <1>1, <1>3, <2>1, <2>2, SeqEqual
    <2> QED
      BY <1>5, <2>3 DEF t
  <1> QED
    BY <1>1, <1>2, <1>6, <1>7

-----------------------------------------------------------------------------
\* Who may be where, and who has the lock.
Places ==
  /\ \A p \in Writers : pc[p] \in {"user"} \cup WriteLabels
  /\ \A p \in Readers : pc[p] \in {"user"} \cup ReadLabels
  /\ \A p \in Threads :
       lk = p <=> pc[p] \in {"w_check", "w_put", "r_check", "r_wait"}

\* A thread in a system call has its end of the pipe open; a writer that is
\* past its checks has a reader, and a reader about to sleep has reason to.
Open ==
  /\ \A p \in Writers : /\ pc[p] # "user" => writeopen = 1
                        /\ pc[p] = "w_put" => readopen = 1 /\ left[p] > 0
  /\ \A p \in Readers : /\ pc[p] # "user" => readopen = 1
                        /\ pc[p] = "r_wait" => writeopen = 1 /\ Empty

\* EmptySleeper without its premise: while somebody has the lock and the pipe
\* is not empty, it is a writer, who will wake the reader.
Unwoken ==
  \A p \in Readers :
    pc[p] = "r_sleep" =>
      /\ writeopen = 1
      /\ Empty \/ lk \in Writers \/ \E w \in Writers : killed[w] = 1

IInv == TypeOK /\ Count <= PIPESIZE /\ Places /\ Open /\ FullSleeper /\ Unwoken

\* Count, Empty and Full are about the ring only.
LEMMA SameRing ==
  ASSUME UNCHANGED ring
  PROVE  Count' = Count /\ Empty' = Empty /\ Full' = Full
  BY DEF ring, Count, Empty, Full, Plus

\* Every step keeps the invariant.
LEMMA NextInv == IInv /\ [Next]_vars => IInv'
  <1> SUFFICES ASSUME IInv, [Next]_vars PROVE IInv'
    OBVIOUS
  <1>0. /\ TypeOK /\ Counters /\ Ring /\ Count <= PIPESIZE
        /\ Places /\ Open /\ FullSleeper /\ Unwoken
    BY DEF IInv, TypeOK, Counters, Ring
  <1>1. ASSUME NEW p \in Threads, NEW n \in 0..MaxN, Call(p, n) PROVE IInv'
    <2>1. UNCHANGED ring /\ Count' = Count /\ Empty' = Empty /\ Full' = Full
      BY <1>1, SameRing DEF Call
    <2>2. TypeOK'
      BY <1>0, <1>1, <2>1, PipeAssumption
         DEF TypeOK, Call, Goto, Threads, WriteLabels, ReadLabels, ring, ends,
             Counters, Ring
    <2>3. Places'
      BY <1>0, <1>1, PipeAssumption
         DEF TypeOK, Places, Call, Goto, Threads, WriteLabels, ReadLabels,
             NoOne
    <2>4. Open'
      BY <1>0, <1>1, <2>1, PipeAssumption
         DEF TypeOK, Places, Open, Call, Goto, Threads, WriteLabels,
             ReadLabels, ends
    <2>5. FullSleeper'
      BY <1>0, <1>1, <2>1, PipeAssumption
         DEF TypeOK, Places, Open, FullSleeper, Call, Goto, Threads,
             WriteLabels, ReadLabels, ends
    <2>6. Unwoken'
      BY <1>0, <1>1, <2>1, PipeAssumption
         DEF TypeOK, Places, Open, Unwoken, Call, Goto, Threads, WriteLabels,
             ReadLabels, NoOne, ends
    <2> QED
      BY <1>0, <1>1, <2>1, <2>2, <2>3, <2>4, <2>5, <2>6, PipeAssumption DEF
         IInv
  <1>2. ASSUME NEW p \in Threads, Acquire(p) PROVE IInv'
    <2>1. UNCHANGED ring /\ Count' = Count /\ Empty' = Empty /\ Full' = Full
      BY <1>2, SameRing DEF Acquire
    <2>2. TypeOK'
      BY <1>0, <1>2, <2>1, PipeAssumption
         DEF TypeOK, Acquire, Goto, Threads, WriteLabels, ReadLabels, ring,
             ends, Counters, Ring
    <2>3. Places'
      BY <1>0, <1>2, PipeAssumption
         DEF TypeOK, Places, Acquire, Goto, Threads, WriteLabels, ReadLabels,
             NoOne
    <2>4. Open'
      BY <1>0, <1>2, <2>1, PipeAssumption
         DEF TypeOK, Places, Open, Acquire, Goto, Threads, WriteLabels,
             ReadLabels, ends
    <2>5. FullSleeper'
      BY <1>0, <1>2, <2>1, PipeAssumption
         DEF TypeOK, Places, Open, FullSleeper, Acquire, Goto, Threads,
             WriteLabels, ReadLabels, ends
    <2>6. Unwoken'
      BY <1>0, <1>2, <2>1, PipeAssumption
         DEF TypeOK, Places, Open, Unwoken, Acquire, Goto, Threads,
             WriteLabels, ReadLabels, NoOne, ends
    <2> QED
      BY <1>0, <1>2, <2>1, <2>2, <2>3, <2>4, <2>5, <2>6, PipeAssumption DEF
         IInv
  <1>3. ASSUME NEW p \in Threads, WriteCheck(p) PROVE IInv'
    <2>1. UNCHANGED ring /\ Count' = Count /\ Empty' = Empty /\ Full' = Full
      BY <1>3, SameRing DEF WriteCheck
    <2>7. /\ \E l \in {"user", "w_put"} : pc' = [pc EXCEPT ![p] = l]
          /\ lk' \in {lk, NoOne}
          /\ left' \in {left, [left EXCEPT ![p] = 0]}
      BY <1>0, <1>3 DEF TypeOK, WriteCheck, Return, Goto
    <2>8. /\ pc' \in [Threads -> {"user"} \cup WriteLabels \cup ReadLabels]
          /\ lk' \in Threads \cup {NoOne} /\ left' \in [Threads -> 0..MaxN]
      <3>1. pc' \in [Threads -> {"user"} \cup WriteLabels \cup ReadLabels]
        BY <1>0, <2>7 DEF TypeOK, WriteLabels
      <3>2. left' \in [Threads -> 0..MaxN]
        BY <1>0, <2>7, PipeAssumption DEF TypeOK
      <3> QED
        BY <1>0, <2>7, <3>1, <3>2 DEF TypeOK
    <2>2. TypeOK'
      BY <1>0, <1>3, <2>8 DEF TypeOK, WriteCheck, ring, ends
    <2>3. Places'
      BY <1>0, <1>3, PipeAssumption
         DEF TypeOK, Places, WriteCheck, Return, Holds, Goto, Threads,
             WriteLabels, ReadLabels, NoOne
    <2>4. Open'
      BY <1>0, <1>3, <2>1, PipeAssumption
         DEF TypeOK, Places, Open, WriteCheck, Return, Holds, Goto, Threads,
             WriteLabels, ReadLabels, ends
    <2>5. FullSleeper'
      BY <1>0, <1>3, <2>1, PipeAssumption
         DEF TypeOK, Places, Open, FullSleeper, WriteCheck, Return, Holds,
             Goto, Threads, WriteLabels, ReadLabels, ends
    <2>6. Unwoken'
      BY <1>0, <1>3, <2>1, PipeAssumption
         DEF TypeOK, Places, Open, Unwoken, WriteCheck, Return, Holds, Goto,
             Threads, WriteLabels, ReadLabels, NoOne, ends
    <2> QED
      BY <1>0, <1>3, <2>1, <2>2, <2>3, <2>4, <2>5, <2>6, PipeAssumption DEF
         IInv
  <1>4. ASSUME NEW p \in Threads, WriteFull(p) PROVE IInv'
    <2>1. UNCHANGED ring /\ Count' = Count /\ Empty' = Empty /\ Full' = Full
      BY <1>4, SameRing DEF WriteFull
    <2>2. TypeOK'
      BY <1>0, <1>4, <2>1, PipeAssumption
         DEF TypeOK, WriteFull, WakeReaders, Woken, Holds, Threads,
             WriteLabels, ReadLabels, ring, ends, Counters, Ring
    <2>3. Places'
      BY <1>0, <1>4, PipeAssumption
         DEF TypeOK, Places, WriteFull, WakeReaders, Woken, Holds, Threads,
             WriteLabels, ReadLabels, NoOne
    <2>4. Open'
      BY <1>0, <1>4, <2>1, PipeAssumption
         DEF TypeOK, Places, Open, WriteFull, WakeReaders, Woken, Holds,
             Threads, WriteLabels, ReadLabels, ends
    <2>5. FullSleeper'
      BY <1>0, <1>4, <2>1, PipeAssumption
         DEF TypeOK, Places, Open, FullSleeper, WriteFull, WakeReaders, Woken,
             Holds, Threads, WriteLabels, ReadLabels, ends
    <2>6. Unwoken'
      BY <1>0, <1>4, <2>1, PipeAssumption
         DEF TypeOK, Places, Open, Unwoken, WriteFull, WakeReaders, Woken,
             Holds, Threads, WriteLabels, ReadLabels, NoOne, ends
    <2> QED
      BY <1>0, <1>4, <2>1, <2>2, <2>3, <2>4, <2>5, <2>6, PipeAssumption DEF
         IInv
  <1>5. ASSUME NEW p \in Threads, NEW b \in Bytes, WriteByte(p, b) PROVE IInv'
    <2>1. /\ Count < PIPESIZE /\ Count' = Count + 1 /\ Counters' /\ Ring'
          /\ Count \in Nat
      <3>1. Count \in Nat /\ Count < PIPESIZE
        BY <1>0, <1>5, CountIs, PipeAssumption DEF WriteByte
      <3> QED
        BY <1>0, <1>5, <3>1, CountUp, QueueAppend DEF WriteByte
    <2>7. left[p] - 1 \in 0..MaxN
      BY <1>0, <1>5, PipeAssumption
         DEF TypeOK, Places, Open, WriteByte, Holds, Threads, ReadLabels
    <2>2. TypeOK'
      BY <1>0, <1>5, <2>1, <2>7
         DEF TypeOK, WriteByte, Goto, WriteLabels, ends, Counters, Ring
    <2>3. Places'
      BY <1>0, <1>5, PipeAssumption
         DEF TypeOK, Places, WriteByte, Holds, Goto, Threads, WriteLabels,
             ReadLabels, NoOne
    <2>4. Open'
      BY <1>0, <1>5, <2>1, PipeAssumption
         DEF TypeOK, Places, Open, WriteByte, Holds, Goto, Threads,
             WriteLabels, ReadLabels, ends
    <2>5. FullSleeper'
      BY <1>0, <1>5, <2>1, PipeAssumption
         DEF TypeOK, Places, Open, FullSleeper, WriteByte, Holds, Goto,
             Threads, WriteLabels, ReadLabels, ends
    <2>6. Unwoken'
      BY <1>0, <1>5, <2>1, PipeAssumption
         DEF TypeOK, Places, Open, Unwoken, WriteByte, Holds, Goto, Threads,
             WriteLabels, ReadLabels, NoOne, ends
    <2> QED
      BY <1>0, <1>5, <2>1, <2>2, <2>3, <2>4, <2>5, <2>6, PipeAssumption DEF
         IInv
  <1>6. ASSUME NEW p \in Threads, WriteDone(p) PROVE IInv'
    <2>1. UNCHANGED ring /\ Count' = Count /\ Empty' = Empty /\ Full' = Full
      BY <1>6, SameRing DEF WriteDone
    <2>2. TypeOK'
      BY <1>0, <1>6, <2>1, PipeAssumption
         DEF TypeOK, WriteDone, Return, WakeReaders, Woken, Holds, Threads,
             WriteLabels, ReadLabels, ring, ends, Counters, Ring
    <2>3. Places'
      BY <1>0, <1>6, PipeAssumption
         DEF TypeOK, Places, WriteDone, Return, WakeReaders, Woken, Holds,
             Threads, WriteLabels, ReadLabels, NoOne
    <2>4. Open'
      BY <1>0, <1>6, <2>1, PipeAssumption
         DEF TypeOK, Places, Open, WriteDone, Return, WakeReaders, Woken,
             Holds, Threads, WriteLabels, ReadLabels, ends
    <2>5. FullSleeper'
      BY <1>0, <1>6, <2>1, PipeAssumption
         DEF TypeOK, Places, Open, FullSleeper, WriteDone, Return,
             WakeReaders, Woken, Holds, Threads, WriteLabels, ReadLabels, ends
    <2>6. Unwoken'
      BY <1>0, <1>6, <2>1, PipeAssumption
         DEF TypeOK, Places, Open, Unwoken, WriteDone, Return, WakeReaders,
             Woken, Holds, Threads, WriteLabels, ReadLabels, NoOne, ends
    <2> QED
      BY <1>0, <1>6, <2>1, <2>2, <2>3, <2>4, <2>5, <2>6, PipeAssumption DEF
         IInv
  <1>7. ASSUME NEW p \in Threads, ReadCheck(p) PROVE IInv'
    <2>1. UNCHANGED ring /\ Count' = Count /\ Empty' = Empty /\ Full' = Full
      BY <1>7, SameRing DEF ReadCheck
    <2>2. TypeOK'
      BY <1>0, <1>7, <2>1, PipeAssumption
         DEF TypeOK, ReadCheck, Return, Holds, Goto, Threads, WriteLabels,
             ReadLabels, ring, ends, Counters, Ring
    <2>3. Places'
      BY <1>0, <1>7, PipeAssumption
         DEF TypeOK, Places, ReadCheck, Return, Holds, Goto, Threads,
             WriteLabels, ReadLabels, NoOne
    <2>4. Open'
      BY <1>0, <1>7, <2>1, PipeAssumption
         DEF TypeOK, Places, Open, ReadCheck, Return, Holds, Goto, Threads,
             WriteLabels, ReadLabels, ends
    <2>5. FullSleeper'
      BY <1>0, <1>7, <2>1, PipeAssumption
         DEF TypeOK, Places, Open, FullSleeper, ReadCheck, Return, Holds,
             Goto, Threads, WriteLabels, ReadLabels, ends
    <2>6. Unwoken'
      BY <1>0, <1>7, <2>1, PipeAssumption
         DEF TypeOK, Places, Open, Unwoken, ReadCheck, Return, Holds, Goto,
             Threads, WriteLabels, ReadLabels, NoOne, ends
    <2> QED
      BY <1>0, <1>7, <2>1, <2>2, <2>3, <2>4, <2>5, <2>6, PipeAssumption DEF
         IInv
  <1>8. ASSUME NEW p \in Threads, ReadSleep(p) PROVE IInv'
    <2>1. UNCHANGED ring /\ Count' = Count /\ Empty' = Empty /\ Full' = Full
      BY <1>8, SameRing DEF ReadSleep
    <2>2. TypeOK'
      BY <1>0, <1>8, <2>1, PipeAssumption
         DEF TypeOK, ReadSleep, Holds, Goto, Threads, WriteLabels, ReadLabels,
             ring, ends, Counters, Ring
    <2>3. Places'
      BY <1>0, <1>8, PipeAssumption
         DEF TypeOK, Places, ReadSleep, Holds, Goto, Threads, WriteLabels,
             ReadLabels, NoOne
    <2>4. Open'
      BY <1>0, <1>8, <2>1, PipeAssumption
         DEF TypeOK, Places, Open, ReadSleep, Holds, Goto, Threads,
             WriteLabels, ReadLabels, ends
    <2>5. FullSleeper'
      BY <1>0, <1>8, <2>1, PipeAssumption
         DEF TypeOK, Places, Open, FullSleeper, ReadSleep, Holds, Goto,
             Threads, WriteLabels, ReadLabels, ends
    <2>6. Unwoken'
      BY <1>0, <1>8, <2>1, PipeAssumption
         DEF TypeOK, Places, Open, Unwoken, ReadSleep, Holds, Goto, Threads,
             WriteLabels, ReadLabels, NoOne, ends
    <2> QED
      BY <1>0, <1>8, <2>1, <2>2, <2>3, <2>4, <2>5, <2>6, PipeAssumption DEF
         IInv
  <1>9. ASSUME NEW p \in Threads, NEW m \in 0..MaxN, ReadCopy(p, m) PROVE IInv'
    <2>1. /\ Count' = Count - m /\ Counters' /\ Ring' /\ Count \in Nat
          /\ taken' \in Seq(Bytes) /\ Len(taken') = m
      BY <1>0, <1>9, CountIs, QueueTake, PipeAssumption DEF ReadCopy
    <2>2. TypeOK'
      BY <1>0, <1>9, <2>1, PipeAssumption
         DEF TypeOK, ReadCopy, Return, WakeWriters, Woken, Holds, Threads,
             WriteLabels, ReadLabels, ring, ends, Counters, Ring
    <2>3. Places'
      BY <1>0, <1>9, PipeAssumption
         DEF TypeOK, Places, ReadCopy, Return, WakeWriters, Woken, Holds,
             Threads, WriteLabels, ReadLabels, NoOne
    <2>4. Open'
      BY <1>0, <1>9, <2>1, PipeAssumption
         DEF TypeOK, Places, Open, ReadCopy, Return, WakeWriters, Woken,
             Holds, Threads, WriteLabels, ReadLabels, ends
    <2>5. FullSleeper'
      BY <1>0, <1>9, <2>1, PipeAssumption
         DEF TypeOK, Places, Open, FullSleeper, ReadCopy, Return, WakeWriters,
             Woken, Holds, Threads, WriteLabels, ReadLabels, ends
    <2>6. Unwoken'
      BY <1>0, <1>9, <2>1, PipeAssumption
         DEF TypeOK, Places, Open, Unwoken, ReadCopy, Return, WakeWriters,
             Woken, Holds, Threads, WriteLabels, ReadLabels, NoOne, ends
    <2> QED
      BY <1>0, <1>9, <2>1, <2>2, <2>3, <2>4, <2>5, <2>6, PipeAssumption DEF
         IInv
  <1>10. ASSUME CloseWrite PROVE IInv'
    <2>1. UNCHANGED ring /\ Count' = Count /\ Empty' = Empty /\ Full' = Full
      BY <1>10, SameRing DEF CloseWrite
    <2>2. TypeOK'
      BY <1>0, <1>10, <2>1, PipeAssumption
         DEF TypeOK, CloseWrite, WakeReaders, Woken, Threads, WriteLabels,
             ReadLabels, ring, ends, Counters, Ring
    <2>3. Places'
      BY <1>0, <1>10, PipeAssumption
         DEF TypeOK, Places, CloseWrite, WakeReaders, Woken, Threads,
             WriteLabels, ReadLabels, NoOne
    <2>7. \A p \in Threads : pc[p] \notin {"w_put", "r_wait"}
      BY <1>0, <1>10, PipeAssumption DEF Places, CloseWrite, NoOne, Threads
    <2>4. Open'
      BY <1>0, <1>10, <2>1, <2>7
         DEF TypeOK, Places, Open, CloseWrite, WakeReaders, Woken, Threads,
             WriteLabels, ReadLabels
    <2>5. FullSleeper'
      BY <1>0, <1>10, <2>1, PipeAssumption
         DEF TypeOK, Places, Open, FullSleeper, CloseWrite, WakeReaders,
             Woken, Threads, WriteLabels, ReadLabels, ends
    <2>6. Unwoken'
      BY <1>0, <1>10, <2>1, PipeAssumption
         DEF TypeOK, Places, Open, Unwoken, CloseWrite, WakeReaders, Woken,
             Threads, WriteLabels, ReadLabels, NoOne, ends
    <2> QED
      BY <1>0, <1>10, <2>1, <2>2, <2>3, <2>4, <2>5, <2>6, PipeAssumption DEF
         IInv
  <1>11. ASSUME CloseRead PROVE IInv'
    <2>1. UNCHANGED ring /\ Count' = Count /\ Empty' = Empty /\ Full' = Full
      BY <1>11, SameRing DEF CloseRead
    <2>2. TypeOK'
      BY <1>0, <1>11, <2>1, PipeAssumption
         DEF TypeOK, CloseRead, WakeWriters, Woken, Threads, WriteLabels,
             ReadLabels, ring, ends, Counters, Ring
    <2>3. Places'
      BY <1>0, <1>11, PipeAssumption
         DEF TypeOK, Places, CloseRead, WakeWriters, Woken, Threads,
             WriteLabels, ReadLabels, NoOne
    <2>7. \A p \in Threads : pc[p] \notin {"w_put", "r_wait"}
      BY <1>0, <1>11, PipeAssumption DEF Places, CloseRead, NoOne, Threads
    <2>4. Open'
      BY <1>0, <1>11, <2>1, <2>7
         DEF TypeOK, Places, Open, CloseRead, WakeWriters, Woken, Threads,
             WriteLabels, ReadLabels
    <2>5. FullSleeper'
      BY <1>0, <1>11, <2>1, PipeAssumption
         DEF TypeOK, Places, Open, FullSleeper, CloseRead, WakeWriters, Woken,
             Threads, WriteLabels, ReadLabels, ends
    <2>6. Unwoken'
      BY <1>0, <1>11, <2>1, PipeAssumption
         DEF TypeOK, Places, Open, Unwoken, CloseRead, WakeWriters, Woken,
             Threads, WriteLabels, ReadLabels, NoOne, ends
    <2> QED
      BY <1>0, <1>11, <2>1, <2>2, <2>3, <2>4, <2>5, <2>6, PipeAssumption DEF
         IInv
  <1>12. ASSUME NEW p \in Victims, Kill(p) PROVE IInv'
    <2>1. UNCHANGED ring /\ Count' = Count /\ Empty' = Empty /\ Full' = Full
      BY <1>12, SameRing DEF Kill
    <2>2. TypeOK'
      BY <1>0, <1>12, <2>1, PipeAssumption
         DEF TypeOK, Kill, Threads, WriteLabels, ReadLabels, ring, ends,
             Counters, Ring
    <2>3. Places'
      BY <1>0, <1>12, PipeAssumption
         DEF TypeOK, Places, Kill, Threads, WriteLabels, ReadLabels, NoOne
    <2>4. Open'
      BY <1>0, <1>12, <2>1, PipeAssumption
         DEF TypeOK, Places, Open, Kill, Threads, WriteLabels, ReadLabels,
             ends
    <2>5. FullSleeper'
      BY <1>0, <1>12, <2>1, PipeAssumption
         DEF TypeOK, Places, Open, FullSleeper, Kill, Threads, WriteLabels,
             ReadLabels, ends
    <2>6. Unwoken'
      BY <1>0, <1>12, <2>1, PipeAssumption
         DEF TypeOK, Places, Open, Unwoken, Kill, Threads, WriteLabels,
             ReadLabels, NoOne, ends
    <2> QED
      BY <1>0, <1>12, <2>1, <2>2, <2>3, <2>4, <2>5, <2>6, PipeAssumption DEF
         IInv
  <1>13. CASE UNCHANGED vars
    <2>1. UNCHANGED ring /\ Count' = Count /\ Empty' = Empty /\ Full' = Full
      BY <1>13, SameRing DEF vars, ring
    <2> QED
      BY <1>0, <1>13, <2>1 DEF vars, IInv, TypeOK, Places, Open, FullSleeper,
         Unwoken
  <1> QED
    BY <1>1, <1>2, <1>3, <1>4, <1>5, <1>6, <1>7, <1>8, <1>9, <1>10, <1>11,
       <1>12, <1>13 DEF Next, Run

\* It holds at first, ...
LEMMA InitInv == Init => IInv
  <1> SUFFICES ASSUME Init PROVE IInv
    OBVIOUS
  <1>1. Wrap \in Nat \ {0} /\ PIPESIZE \in Nat /\ MaxN \in Nat
    BY PipeAssumption
  <1>2. TypeOK /\ Counters
    BY <1>1 DEF Init, TypeOK, Counters
  <1>3. Count <= PIPESIZE
    BY <1>1, <1>2, CountIs DEF Init, Empty
  <1> QED
    BY <1>2, <1>3, PipeAssumption
       DEF Init, IInv, Places, Open, FullSleeper, Unwoken, Threads, NoOne

\* ... and so always.
LEMMA Invariant == Spec => []IInv
  BY InitInv, NextInv, PTL DEF Spec

\* Nobody sleeps on a pipe without a reason, for any number of threads and
\* any sizes of the ring and of the counters: the wakeups of pipewrite(),
\* piperead(), pipeclose() and kkill() leave no sleeper behind.
THEOREM NoLostWakeup == Spec => []Sleepers
  <1>1. IInv => Sleepers
    BY PipeAssumption
       DEF IInv, Sleepers, Unwoken, EmptySleeper, TypeOK, Threads, NoOne
  <1> QED
    BY <1>1, Invariant, PTL

\* A new pipe is an empty queue.
LEMMA RefineInit == Init => Q!Init
  <1> SUFFICES ASSUME Init PROVE Q!Init
    OBVIOUS
  <1>1. Counters /\ Ring
    BY PipeAssumption DEF Init, Counters, Ring
  <1>2. Queue \in Seq(Bytes) /\ Len(Queue) = 0
    BY <1>1, QueueIs, CountIs DEF Init, Empty
  <1>3. Queue = <<>>
    BY <1>2, EmptySeq
  <1> QED
    BY <1>3 DEF Init, Q!Init

\* Putting a byte into the ring is Put, the copying loop of piperead() is Take,
\* and the rest leaves the queue alone.
LEMMA RefineStep == IInv /\ [Next]_vars => [Q!Next]_(Q!vars)
  <1> SUFFICES ASSUME IInv, [Next]_vars PROVE [Q!Next]_(Q!vars)
    OBVIOUS
  <1>0. /\ TypeOK /\ Counters /\ Ring /\ Count <= PIPESIZE /\ Count \in Nat
        /\ Places /\ Open
    BY CountIs, PipeAssumption DEF IInv, TypeOK, Counters, Ring
  <1>1. Queue \in Seq(Bytes) /\ Len(Queue) = Count
    BY <1>0, QueueIs
  <1>2. UNCHANGED ring => Queue' = Queue
    BY DEF ring, Queue, Count
  <1>3. ASSUME NEW p \in Threads, NEW b \in Bytes, WriteByte(p, b)
        PROVE  Q!Put(b)
    <2>1. p \in Writers
      BY <1>0, <1>3 DEF Places, WriteByte, Holds, Threads, ReadLabels
    <2>2. readopen = 1 /\ writeopen = 1
      BY <1>0, <1>3, <2>1 DEF Open, WriteByte, Holds
    <2>3. Count < PIPESIZE
      BY <1>0, <1>3, CountIs, PipeAssumption DEF WriteByte
    <2>4. Queue' = Append(Queue, b)
      BY <1>0, <1>3, <2>3, QueueAppend DEF WriteByte
    <2> QED
      BY <1>1, <1>3, <2>2, <2>3, <2>4 DEF Q!Put, WriteByte, ends
  <1>4. ASSUME NEW p \in Threads, NEW m \in 0..MaxN, ReadCopy(p, m)
        PROVE  m \in 0..Len(Queue) /\ Q!Take(m)
    <2>1. p \in Readers
      BY <1>0, <1>4 DEF Places, ReadCopy, Holds, Threads, WriteLabels
    <2>2. readopen = 1
      BY <1>0, <1>4, <2>1 DEF Open, ReadCopy, Holds
    <2>3. Queue = <<>> => writeopen = 0
      <3>1. Queue = <<>> => Empty
        BY <1>0, <1>1, CountIs, EmptySeq
      <3> QED
        BY <1>0, <1>4, <3>1 DEF ReadCopy, TypeOK
    <2>4. m \in 0..Len(Queue)
      BY <1>0, <1>1, <1>4 DEF ReadCopy
    <2>5. /\ taken' = SubSeq(Queue, 1, m)
          /\ Queue' = SubSeq(Queue, m + 1, Len(Queue))
      <3>1. m \in Nat /\ m <= Count
        BY <1>0, <1>4 DEF ReadCopy
      <3> QED
        BY <1>0, <1>4, <3>1, QueueTake DEF ReadCopy
    <2> QED
      BY <1>4, <2>2, <2>3, <2>4, <2>5 DEF Q!Take, ReadCopy, ends
  <1>5. ASSUME NEW p \in Threads, NEW n \in 0..MaxN, Call(p, n)
        PROVE  Q!Delivered
    BY <1>2, <1>5 DEF Call, Q!Delivered, ends
  <1>6. ASSUME CloseWrite \/ CloseRead PROVE Q!Close
    BY <1>2, <1>6 DEF CloseWrite, CloseRead, Q!Close
  <1>7. ASSUME NEW p \in Threads,
               \/ Acquire(p) \/ WriteCheck(p) \/ WriteFull(p) \/ WriteDone(p)
               \/ ReadCheck(p) \/ ReadSleep(p)
        PROVE  UNCHANGED Q!vars
    <2>1. UNCHANGED <<ring, ends, taken>>
      BY <1>7 DEF Acquire, WriteCheck, WriteFull, WriteDone, ReadCheck,
                  ReadSleep
    <2> QED
      BY <1>2, <2>1 DEF Q!vars, ends
  <1>8. ASSUME NEW p \in Victims, Kill(p) PROVE UNCHANGED Q!vars
    BY <1>2, <1>8 DEF Kill, Q!vars, ends
  <1>9. CASE UNCHANGED vars
    BY <1>2, <1>9 DEF vars, Q!vars, ring
  <1> QED
    BY <1>3, <1>4, <1>5, <1>6, <1>7, <1>8, <1>9 DEF Next, Run, Q!Next

\* A pipe is a bounded queue: wherever the counters wrap around, and however
\* the reads and writes of several threads interleave, bytes come out in the
\* order in which they went in, and once.
THEOREM IsQueue == Spec => Fifo
  BY RefineInit, RefineStep, Invariant, PTL DEF Spec, Fifo, Q!Spec
=============================================================================
