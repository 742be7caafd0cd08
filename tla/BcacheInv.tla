----------------------------- MODULE BcacheInv ------------------------------
(***************************************************************************)
(* The invariant of Bcache, for every finite set of threads and buffers,   *)
(* every set of blocks and every bound on the pinned ones: its types, the  *)
(* locks and the references.  A lock is held by exactly the thread between *)
(* acquiresleep() and releasesleep(); references are counted; so a buffer  *)
(* that bget() recycles is nobody's.  The data part, which rests on that,  *)
(* is in BcacheProofs.                                                     *)
(***************************************************************************)
EXTENDS Bcache, FiniteSetTheorems, TLAPS

Labels == {"idle", "panic", "lock", "lock_sleep", "read", "using", "modified",
           "write", "unref"}

Requests == [op : {"none", "read", "write", "done"},
             b : Bufs \cup {NoBuf}, n : Blocks \cup {0}]

ThreadTypes ==
  pc \in [Procs -> Labels] /\ buf \in [Procs -> Bufs \cup {NoBuf}]

BufTypes ==
  /\ blockno \in [Bufs -> Blocks \cup {0}] /\ valid \in [Bufs -> 0..1]
  /\ refcnt \in [Bufs -> Int] /\ holder \in [Bufs -> Procs \cup {NoProc}]

ListTypes == lru \in [1..Cardinality(Bufs) -> Bufs] /\ Listed(lru) = Bufs

LogTypes == pinned \in SUBSET Blocks /\ IsFiniteSet(pinned)

DataTypes ==
  /\ data \in [Bufs -> Int] /\ disk \in [Blocks -> Int]
  /\ content \in [Blocks -> Int] /\ req \in [Procs -> Requests]

Types == ThreadTypes /\ BufTypes /\ ListTypes /\ LogTypes /\ DataTypes

\* The thread has the lock of its buffer.
Owner(p) == pc[p] \in {"read", "using", "modified", "write"}

\* A lock is held by exactly the thread that is between acquiresleep() and
\* releasesleep(), and a thread has a buffer from bget() to brelse().
LockInv ==
  /\ \A p \in Procs : buf[p] = NoBuf <=> pc[p] \in {"idle", "panic"}
  /\ \A p \in Procs : Owner(p) => holder[buf[p]] = p
  /\ \A b \in Bufs :
       holder[b] # NoProc => Owner(holder[b]) /\ buf[holder[b]] = b

\* The references to a buffer: its users and its pin.
Users(b) == Cardinality({p \in Procs : buf[p] = b})
Pin(b) == IF blockno[b] \in pinned THEN 1 ELSE 0

\* A buffer in use has a block, and a pinned block is in a buffer that has been
\* read.
InUse == \A p \in Procs : buf[p] # NoBuf => blockno[buf[p]] \in Blocks

Pins ==
  /\ \A n \in pinned : \E b \in Bufs : blockno[b] = n
  /\ \A b \in Bufs : blockno[b] \in pinned => valid[b] = 1

\* bget() panics only when every buffer has a reference.
AllUsed == Panicked => \A b \in Bufs : refcnt[b] # 0

RefInv == InUse /\ OneBuffer /\ RefCounts /\ Pins /\ AllUsed

\* A buffer that has been read holds its block, ...
ValidInv ==
  \A b \in Bufs : valid[b] = 1 =>
    blockno[b] \in Blocks /\ data[b] = content[blockno[b]]

\* ... a request is for the buffer its thread has locked, ...
IOInv ==
  \A p \in Procs :
    LET b == buf[p]
        n == blockno[b]
    IN /\ pc[p] \in {"using", "modified", "write"} => valid[b] = 1
       /\ pc[p] = "read" =>
            /\ valid[b] = 0
            /\ req[p].op \in {"read", "done"} /\ req[p].b = b /\ req[p].n = n
            /\ req[p].op = "done" => data[b] = content[n]
       /\ pc[p] = "write" =>
            /\ req[p].op \in {"write", "done"} /\ req[p].b = b /\ req[p].n = n
            /\ req[p].op = "done" => disk[n] = content[n]
       /\ pc[p] \notin {"read", "write"} => req[p] = None

\* ... and a block that differs from the disk is pinned or being written.
DiskInv ==
  \A n \in Blocks :
    \/ disk[n] = content[n] \/ n \in pinned
    \/ \E p \in Procs : pc[p] \in {"modified", "write"} /\ blockno[buf[p]] = n

DataInv == ValidInv /\ IOInv /\ DiskInv

IInv == Types /\ LockInv /\ RefInv /\ DataInv /\ LockSleepers

-----------------------------------------------------------------------------
\* A thread between bget() and brelse() has a buffer, and that has a block.
LEMMA HasBuf ==
  ASSUME Types, LockInv, RefInv,
         NEW p \in Procs, pc[p] \notin {"idle", "panic"}
  PROVE  buf[p] \in Bufs /\ blockno[buf[p]] \in Blocks
  BY DEF Types, ThreadTypes, LockInv, RefInv, InUse

\* RefCounts, in terms of Users and Pin.
LEMMA RefCountsAs ==
  /\ RefCounts <=> \A b \in Bufs : refcnt[b] = Users(b) + Pin(b)
  /\ \A b : Users(b) \in Nat
  <1>1. \A b : Users(b) \in Nat
    BY BcacheAssumption, FS_Subset, FS_CardinalityType DEF Users
  <1> QED
    BY <1>1 DEF RefCounts, Users, Pin

\* A buffer without users is no thread's buffer.
LEMMA NoUsers ==
  ASSUME NEW b, Users(b) = 0
  PROVE  \A q \in Procs : buf[q] # b
  <1> DEFINE U == {q \in Procs : buf[q] = b}
  <1>1. U = {}
    BY BcacheAssumption, FS_Subset, FS_EmptySet DEF Users
  <1> QED
    BY <1>1

\* bget() recycles a buffer that no thread has and the log does not pin.
LEMMA RecycleTakes ==
  ASSUME Types, RefCounts, NEW p \in Procs, NEW n \in Blocks, BgetRecycle(p, n)
  PROVE  \E b \in Bufs :
           /\ Users(b) = 0
           /\ blockno[b] \notin pinned
           /\ blockno' = [blockno EXCEPT ![b] = n]
           /\ valid' = [valid EXCEPT ![b] = 0]
           /\ refcnt' = [refcnt EXCEPT ![b] = 1]
           /\ buf' = [buf EXCEPT ![p] = b]
  <1>1. PICK i \in Unused :
          LET b == lru[i]
          IN /\ blockno' = [blockno EXCEPT ![b] = n]
             /\ valid' = [valid EXCEPT ![b] = 0]
             /\ refcnt' = [refcnt EXCEPT ![b] = 1]
             /\ buf' = [buf EXCEPT ![p] = b]
    BY DEF BgetRecycle, Recycled
  <1>2. lru[i] \in Bufs /\ refcnt[lru[i]] = 0
    BY <1>1 DEF Unused, Types, ListTypes
  <1>3. Users(lru[i]) = 0 /\ Pin(lru[i]) = 0
    BY <1>2, RefCountsAs DEF Pin
  <1>4. blockno[lru[i]] \notin pinned
    BY <1>3 DEF Pin
  <1> QED
    BY <1>1, <1>2, <1>3, <1>4

\* bget() adds one user to one buffer, ...
LEMMA UserAdded ==
  ASSUME Types, NEW p \in Procs, NEW b \in Bufs, buf[p] = NoBuf,
         buf' = [buf EXCEPT ![p] = b], NEW c \in Bufs
  PROVE  Users(c)' = Users(c) + (IF c = b THEN 1 ELSE 0)
  <1> DEFINE U == {q \in Procs : buf[q] = c}
             V == {q \in Procs : buf'[q] = c}
  <1>1. IsFiniteSet(U) /\ Cardinality(U) \in Nat /\ p \notin U
    BY BcacheAssumption, FS_Subset, FS_CardinalityType
  <1>2. V = IF c = b THEN U \cup {p} ELSE U
    BY BcacheAssumption DEF Types, ThreadTypes
  <1>3. Cardinality(V) = Cardinality(U) + (IF c = b THEN 1 ELSE 0)
    <2> HIDE DEF U, V
    <2>1. CASE c = b
      BY <1>1, <1>2, <2>1, FS_AddElement
    <2>2. CASE c # b
      BY <1>1, <1>2, <2>2
    <2> QED
      BY <2>1, <2>2
  <1> QED
    BY <1>3 DEF Users

\* ... and brelse() takes one away.
LEMMA UserGone ==
  ASSUME Types, NEW p \in Procs, buf[p] \in Bufs,
         buf' = [buf EXCEPT ![p] = NoBuf], NEW c \in Bufs
  PROVE  Users(c)' = Users(c) - (IF c = buf[p] THEN 1 ELSE 0)
  <1> DEFINE U == {q \in Procs : buf[q] = c}
             V == {q \in Procs : buf'[q] = c}
  <1>1. IsFiniteSet(U) /\ Cardinality(U) \in Nat
    BY BcacheAssumption, FS_Subset, FS_CardinalityType
  <1>2. V = IF c = buf[p] THEN U \ {p} ELSE U
    BY BcacheAssumption DEF Types, ThreadTypes
  <1>3. c = buf[p] => p \in U
    OBVIOUS
  <1>4. Cardinality(V) = Cardinality(U) - (IF c = buf[p] THEN 1 ELSE 0)
    <2> HIDE DEF U, V
    <2>1. CASE c = buf[p]
      BY <1>1, <1>2, <1>3, <2>1, FS_RemoveElement
    <2>2. CASE c # buf[p]
      BY <1>1, <1>2, <2>2
    <2> QED
      BY <2>1, <2>2
  <1> QED
    BY <1>4 DEF Users

\* A step that leaves references, blocks and pins alone keeps RefCounts.
LEMMA SameRefs ==
  ASSUME RefCounts, UNCHANGED <<refcnt, buf, blockno, pinned>>
  PROVE  RefCounts'
  BY DEF RefCounts

\* Types, one lemma for each group of variables.
LEMMA ThreadTypesStep ==
  ASSUME ThreadTypes, ListTypes, [Next]_vars
  PROVE  ThreadTypes'
  <1>1. CASE UNCHANGED vars
    BY <1>1 DEF ThreadTypes, Labels, vars, dvars
  <1>2. ASSUME NEW p \in Procs, NEW n \in Blocks, BgetHit(p, n)
        PROVE ThreadTypes'
    BY <1>2 DEF ThreadTypes, Labels, BgetHit, Cached, Goto, dvars
  <1>3. ASSUME NEW p \in Procs, NEW n \in Blocks, BgetRecycle(p, n)
        PROVE ThreadTypes'
    BY <1>3 DEF BgetRecycle, Unused, Goto, ThreadTypes, ListTypes, Labels
  <1>4. ASSUME NEW p \in Procs, NEW n \in Blocks, BgetPanic(p, n)
        PROVE ThreadTypes'
    BY <1>4 DEF ThreadTypes, Labels, BgetPanic, Goto, dvars
  <1>5. ASSUME NEW p \in Procs, LockSleep(p) PROVE ThreadTypes'
    BY <1>5 DEF ThreadTypes, Labels, LockSleep, Acquiresleep, Goto, dvars
  <1>6. ASSUME NEW p \in Procs, Lock(p) PROVE ThreadTypes'
    <2>1. pc' = [pc EXCEPT ![p] = "using"] \/ pc' = [pc EXCEPT ![p] = "read"]
      BY <1>6 DEF Lock, Goto
    <2> QED
      BY <1>6, <2>1 DEF Lock, ThreadTypes, Labels
  <1>7. ASSUME NEW p \in Procs, BreadDone(p) PROVE ThreadTypes'
    BY <1>7 DEF ThreadTypes, Labels, BreadDone, Return, None, Goto
  <1>8. ASSUME NEW p \in Procs, Modify(p) PROVE ThreadTypes'
    BY <1>8 DEF ThreadTypes, Labels, Modify, Touch, Goto
  <1>9. ASSUME NEW p \in Procs, Bwrite(p) PROVE ThreadTypes'
    BY <1>9 DEF ThreadTypes, Labels, Bwrite, Call, Goto
  <1>10. ASSUME NEW p \in Procs, LogWrite(p) PROVE ThreadTypes'
    BY <1>10 DEF ThreadTypes, Labels, LogWrite, Goto, dvars
  <1>11. ASSUME NEW p \in Procs, BwriteDone(p) PROVE ThreadTypes'
    BY <1>11 DEF ThreadTypes, Labels, BwriteDone, Return, Unpins, None, Goto
  <1>12. ASSUME NEW p \in Procs, Releasesleep(p) PROVE ThreadTypes'
    BY <1>12 DEF ThreadTypes, Labels, Releasesleep, WakeLockers, dvars
  <1>13. ASSUME NEW p \in Procs, Unref(p) PROVE ThreadTypes'
    BY <1>13 DEF ThreadTypes, Labels, Unref, ToFront, Goto, dvars
  <1>14. ASSUME NEW p \in Procs, KillWakes(p) PROVE ThreadTypes'
    BY <1>14 DEF ThreadTypes, Labels, KillWakes, Goto, dvars
  <1>15. ASSUME NEW p \in Procs, Transfer(p) PROVE ThreadTypes'
    BY <1>15 DEF ThreadTypes, Labels, Transfer, Serve
  <1>16. QED
    BY <1>1, <1>2, <1>3, <1>4, <1>5, <1>6, <1>7, <1>8, <1>9, <1>10, <1>11,
        <1>12, <1>13, <1>14, <1>15
    DEF Next, Bget, Use

LEMMA BufTypesStep ==
  ASSUME Types, LockInv, RefInv, DataInv, [Next]_vars
  PROVE  BufTypes'
  <1>1. CASE UNCHANGED vars
    BY <1>1 DEF Types, BufTypes, vars, dvars
  <1>2. ASSUME NEW p \in Procs, NEW n \in Blocks, BgetHit(p, n) PROVE BufTypes'
    BY <1>2 DEF Types, BufTypes, BgetHit, Cached, Goto, dvars
  <1>3. ASSUME NEW p \in Procs, NEW n \in Blocks, BgetRecycle(p, n)
        PROVE BufTypes'
    <2>1. 0 \in 0..1 /\ 1 \in Int
      OBVIOUS
    <2>2. PICK b : /\ blockno' = [blockno EXCEPT ![b] = n]
                   /\ valid' = [valid EXCEPT ![b] = 0]
                   /\ refcnt' = [refcnt EXCEPT ![b] = 1]
      BY <1>3 DEF BgetRecycle, Recycled
    <2> QED
      BY <1>3, <2>1, <2>2 DEF BgetRecycle, Types, BufTypes
  <1>4. ASSUME NEW p \in Procs, NEW n \in Blocks, BgetPanic(p, n)
        PROVE BufTypes'
    BY <1>4 DEF Types, BufTypes, BgetPanic, Goto, dvars
  <1>5. ASSUME NEW p \in Procs, LockSleep(p) PROVE BufTypes'
    BY <1>5 DEF Types, BufTypes, LockSleep, Acquiresleep, Goto, dvars
  <1>6. ASSUME NEW p \in Procs, Lock(p) PROVE BufTypes'
    BY <1>6 DEF Types, BufTypes, Lock, Acquiresleep, Goto, Call, dvars
  <1>7. ASSUME NEW p \in Procs, BreadDone(p) PROVE BufTypes'
    <2>1. 1 \in 0..1
      OBVIOUS
    <2> QED
      BY <1>7, <2>1 DEF BreadDone, Types, BufTypes
  <1>8. ASSUME NEW p \in Procs, Modify(p) PROVE BufTypes'
    BY <1>8 DEF Types, BufTypes, Modify, Touch, Goto
  <1>9. ASSUME NEW p \in Procs, Bwrite(p) PROVE BufTypes'
    BY <1>9 DEF Types, BufTypes, Bwrite, Call, Goto
  <1>10. ASSUME NEW p \in Procs, LogWrite(p) PROVE BufTypes'
    <2>1. buf[p] \in Bufs
      BY <1>10, HasBuf DEF LogWrite
    <2>2. refcnt[buf[p]] + 1 \in Int
      BY <2>1 DEF Types, BufTypes
    <2>3. \/ refcnt' = refcnt
          \/ refcnt' = [refcnt EXCEPT ![buf[p]] = refcnt[buf[p]] + 1]
      BY <1>10 DEF LogWrite
    <2> QED
      BY <1>10, <2>2, <2>3 DEF LogWrite, Types, BufTypes
  <1>11. ASSUME NEW p \in Procs, BwriteDone(p) PROVE BufTypes'
    <2>1. buf[p] \in Bufs
      BY <1>11, HasBuf DEF BwriteDone
    <2>2. refcnt[buf[p]] - 1 \in Int
      BY <2>1 DEF Types, BufTypes
    <2>3. \/ refcnt' = refcnt
          \/ refcnt' = [refcnt EXCEPT ![buf[p]] = refcnt[buf[p]] - 1]
      BY <1>11 DEF BwriteDone
    <2> QED
      BY <1>11, <2>2, <2>3 DEF BwriteDone, Types, BufTypes
  <1>12. ASSUME NEW p \in Procs, Releasesleep(p) PROVE BufTypes'
    BY <1>12 DEF Types, BufTypes, Releasesleep, WakeLockers, dvars
  <1>13. ASSUME NEW p \in Procs, Unref(p) PROVE BufTypes'
    <2>1. buf[p] \in Bufs
      BY <1>13, HasBuf DEF Unref
    <2>2. refcnt[buf[p]] - 1 \in Int
      BY <2>1 DEF Types, BufTypes
    <2> QED
      BY <1>13, <2>2 DEF Unref, Types, BufTypes
  <1>14. ASSUME NEW p \in Procs, KillWakes(p) PROVE BufTypes'
    BY <1>14 DEF Types, BufTypes, KillWakes, Goto, dvars
  <1>15. ASSUME NEW p \in Procs, Transfer(p) PROVE BufTypes'
    BY <1>15 DEF Types, BufTypes, Transfer, Serve
  <1>16. QED
    BY <1>1, <1>2, <1>3, <1>4, <1>5, <1>6, <1>7, <1>8, <1>9, <1>10, <1>11,
        <1>12, <1>13, <1>14, <1>15
    DEF Next, Bget, Use

LEMMA LogTypesStep ==
  ASSUME Types, LockInv, RefInv, DataInv, [Next]_vars
  PROVE  LogTypes'
  <1>1. CASE UNCHANGED vars
    BY <1>1 DEF Types, LogTypes, vars, dvars
  <1>2. ASSUME NEW p \in Procs, NEW n \in Blocks, BgetHit(p, n) PROVE LogTypes'
    BY <1>2 DEF Types, LogTypes, BgetHit, Cached, Goto, dvars
  <1>3. ASSUME NEW p \in Procs, NEW n \in Blocks, BgetRecycle(p, n)
        PROVE LogTypes'
    BY <1>3 DEF Types, LogTypes, BgetRecycle, Recycled, Unused, Goto, dvars
  <1>4. ASSUME NEW p \in Procs, NEW n \in Blocks, BgetPanic(p, n)
        PROVE LogTypes'
    BY <1>4 DEF Types, LogTypes, BgetPanic, Goto, dvars
  <1>5. ASSUME NEW p \in Procs, LockSleep(p) PROVE LogTypes'
    BY <1>5 DEF Types, LogTypes, LockSleep, Acquiresleep, Goto, dvars
  <1>6. ASSUME NEW p \in Procs, Lock(p) PROVE LogTypes'
    BY <1>6 DEF Types, LogTypes, Lock, Acquiresleep, Goto, Call, dvars
  <1>7. ASSUME NEW p \in Procs, BreadDone(p) PROVE LogTypes'
    BY <1>7 DEF Types, LogTypes, BreadDone, Return, None, Goto
  <1>8. ASSUME NEW p \in Procs, Modify(p) PROVE LogTypes'
    BY <1>8 DEF Types, LogTypes, Modify, Touch, Goto
  <1>9. ASSUME NEW p \in Procs, Bwrite(p) PROVE LogTypes'
    BY <1>9 DEF Types, LogTypes, Bwrite, Call, Goto
  <1>10. ASSUME NEW p \in Procs, LogWrite(p) PROVE LogTypes'
    BY <1>10, HasBuf, FS_AddElement DEF LogWrite, Types, LogTypes
  <1>11. ASSUME NEW p \in Procs, BwriteDone(p) PROVE LogTypes'
    BY <1>11, FS_RemoveElement DEF BwriteDone, Types, LogTypes
  <1>12. ASSUME NEW p \in Procs, Releasesleep(p) PROVE LogTypes'
    BY <1>12 DEF Types, LogTypes, Releasesleep, WakeLockers, dvars
  <1>13. ASSUME NEW p \in Procs, Unref(p) PROVE LogTypes'
    BY <1>13 DEF Types, LogTypes, Unref, ToFront, Goto, dvars
  <1>14. ASSUME NEW p \in Procs, KillWakes(p) PROVE LogTypes'
    BY <1>14 DEF Types, LogTypes, KillWakes, Goto, dvars
  <1>15. ASSUME NEW p \in Procs, Transfer(p) PROVE LogTypes'
    BY <1>15 DEF Types, LogTypes, Transfer, Serve
  <1>16. QED
    BY <1>1, <1>2, <1>3, <1>4, <1>5, <1>6, <1>7, <1>8, <1>9, <1>10, <1>11,
        <1>12, <1>13, <1>14, <1>15
    DEF Next, Bget, Use

LEMMA DataTypesStep ==
  ASSUME Types, LockInv, RefInv, DataInv, [Next]_vars
  PROVE  DataTypes'
  <1>1. CASE UNCHANGED vars
    BY <1>1 DEF Types, DataTypes, Requests, vars, dvars
  <1>2. ASSUME NEW p \in Procs, NEW n \in Blocks, BgetHit(p, n)
        PROVE DataTypes'
    BY <1>2 DEF Types, DataTypes, Requests, BgetHit, Cached, Goto, dvars
  <1>3. ASSUME NEW p \in Procs, NEW n \in Blocks, BgetRecycle(p, n)
        PROVE DataTypes'
    BY <1>3
    DEF Types, DataTypes, Requests, BgetRecycle, Recycled, Unused, Goto, dvars
  <1>4. ASSUME NEW p \in Procs, NEW n \in Blocks, BgetPanic(p, n)
        PROVE DataTypes'
    BY <1>4 DEF Types, DataTypes, Requests, BgetPanic, Goto, dvars
  <1>5. ASSUME NEW p \in Procs, LockSleep(p) PROVE DataTypes'
    BY <1>5
    DEF Types, DataTypes, Requests, LockSleep, Acquiresleep, Goto, dvars
  <1>6. ASSUME NEW p \in Procs, Lock(p) PROVE DataTypes'
    <2>1. buf[p] \in Bufs /\ blockno[buf[p]] \in Blocks
      BY <1>6, HasBuf DEF Lock
    <2>2. UNCHANGED dvars \/ Call(p, "read", buf[p], blockno[buf[p]])
      BY <1>6 DEF Lock
    <2> QED
      BY <1>6, <2>1, <2>2 DEF Lock, Call, dvars, Types, DataTypes, Requests
  <1>7. ASSUME NEW p \in Procs, BreadDone(p) PROVE DataTypes'
    BY <1>7 DEF Types, DataTypes, Requests, BreadDone, Return, None, Goto
  <1>8. ASSUME NEW p \in Procs, Modify(p) PROVE DataTypes'
    <2>1. buf[p] \in Bufs /\ blockno[buf[p]] \in Blocks
      BY <1>8, HasBuf DEF Modify
    <2>2. -data[buf[p]] \in Int /\ -content[blockno[buf[p]]] \in Int
      BY <2>1 DEF Types, DataTypes
    <2> QED
      BY <1>8, <2>1, <2>2 DEF Modify, Touch, Types, DataTypes
  <1>9. ASSUME NEW p \in Procs, Bwrite(p) PROVE DataTypes'
    <2>1. buf[p] \in Bufs /\ blockno[buf[p]] \in Blocks
      BY <1>9, HasBuf DEF Bwrite
    <2> QED
      BY <1>9, <2>1 DEF Bwrite, Call, Types, DataTypes, Requests
  <1>10. ASSUME NEW p \in Procs, LogWrite(p) PROVE DataTypes'
    BY <1>10 DEF Types, DataTypes, Requests, LogWrite, Goto, dvars
  <1>11. ASSUME NEW p \in Procs, BwriteDone(p) PROVE DataTypes'
    BY <1>11
    DEF Types, DataTypes, Requests, BwriteDone, Return, Unpins, None, Goto
  <1>12. ASSUME NEW p \in Procs, Releasesleep(p) PROVE DataTypes'
    BY <1>12 DEF Types, DataTypes, Requests, Releasesleep, WakeLockers, dvars
  <1>13. ASSUME NEW p \in Procs, Unref(p) PROVE DataTypes'
    BY <1>13 DEF Types, DataTypes, Requests, Unref, ToFront, Goto, dvars
  <1>14. ASSUME NEW p \in Procs, KillWakes(p) PROVE DataTypes'
    BY <1>14 DEF Types, DataTypes, Requests, KillWakes, Goto, dvars
  <1>15. ASSUME NEW p \in Procs, Transfer(p) PROVE DataTypes'
    <2>1. req[p].op \in {"read", "write"}
      BY <1>15 DEF Transfer, Serve
    <2>2. pc[p] \in {"read", "write"}
      BY <2>1 DEF DataInv, IOInv, None
    <2>3. /\ req[p].b = buf[p] /\ req[p].n = blockno[buf[p]]
          /\ buf[p] \in Bufs /\ blockno[buf[p]] \in Blocks
      BY <2>2, HasBuf DEF DataInv, IOInv
    <2>4. data' \in [Bufs -> Int] /\ disk' \in [Blocks -> Int]
      BY <1>15, <2>3 DEF Transfer, Serve, Types, DataTypes
    <2>5. req' \in [Procs -> Requests]
      BY <1>15, <2>3 DEF Transfer, Serve, Types, DataTypes, Requests
    <2> QED
      BY <1>15, <2>4, <2>5 DEF Transfer, Types, DataTypes
  <1>16. QED
    BY <1>1, <1>2, <1>3, <1>4, <1>5, <1>6, <1>7, <1>8, <1>9, <1>10, <1>11,
        <1>12, <1>13, <1>14, <1>15
    DEF Next, Bget, Use

\* Moving a buffer behind the list's head keeps every buffer on the list.
LEMMA MoveKeepsList ==
  ASSUME ListTypes, NEW b \in Bufs
  PROVE  /\ ToFront(b) \in [1..Cardinality(Bufs) -> Bufs]
         /\ Listed(ToFront(b)) = Bufs
  <1> DEFINE N == Cardinality(Bufs)
             at == CHOOSE i \in DOMAIN lru : lru[i] = b
             f == ToFront(b)
  <1>1. N \in Nat /\ DOMAIN lru = 1..N
    BY BcacheAssumption, FS_CardinalityType DEF ListTypes
  <1>2. at \in 1..N /\ lru[at] = b
    BY <1>1 DEF ListTypes, Listed
  <1> HIDE DEF N, at
  <1>3. f = [i \in 1..N |-> CASE i = 1 -> b
                             [] i \in 2..at -> lru[i - 1]
                             [] OTHER -> lru[i]]
    BY <1>1 DEF ToFront, at
  <1> HIDE DEF f
  <1>4. \A i \in 1..N : lru[i] \in Bufs
    BY DEF ListTypes, N
  <1>5. /\ DOMAIN f = 1..N /\ f[1] = b
        /\ \A i \in 2..at : f[i] = lru[i - 1]
        /\ \A i \in 1..N : i > at => f[i] = lru[i]
    <2>1. DOMAIN f = 1..N /\ 1 \in 1..N
      BY <1>1, <1>2, <1>3
    <2>2. f[1] = b
      BY <1>3, <2>1
    <2>3. ASSUME NEW i \in 2..at PROVE f[i] = lru[i - 1]
      <3>1. i \in 1..N /\ i # 1
        BY <1>1, <1>2
      <3> QED
        BY <1>3, <3>1
    <2>4. ASSUME NEW i \in 1..N, i > at PROVE f[i] = lru[i]
      <3>1. i # 1 /\ i \notin 2..at
        BY <1>1, <1>2, <2>4
      <3> QED
        BY <1>3, <3>1
    <2> QED
      BY <2>1, <2>2, <2>3, <2>4
  <1>6. \A i \in 1..N : f[i] \in Bufs
    <2> TAKE i \in 1..N
    <2>1. CASE i = 1
      BY <1>5, <2>1
    <2>2. CASE i \in 2..at
      <3>1. i - 1 \in 1..N
        BY <1>1, <1>2, <2>2
      <3> QED
        BY <1>4, <1>5, <2>2, <3>1
    <2>3. CASE i > at
      BY <1>4, <1>5, <2>3
    <2> QED
      BY <1>1, <1>2, <2>1, <2>2, <2>3
  <1>7. ASSUME NEW c \in Bufs PROVE \E i \in 1..N : f[i] = c
    <2>1. PICK j \in 1..N : lru[j] = c
      BY <1>1 DEF ListTypes, Listed
    <2>2. CASE j = at
      BY <1>1, <1>2, <1>5, <2>1, <2>2
    <2>3. CASE j < at
      <3>1. j + 1 \in 2..at /\ j + 1 \in 1..N /\ (j + 1) - 1 = j
        BY <1>1, <1>2, <2>3
      <3> QED
        BY <1>5, <2>1, <3>1
    <2>4. CASE j > at
      BY <1>5, <2>1, <2>4
    <2> QED
      BY <1>1, <1>2, <2>2, <2>3, <2>4
  <1>8. f \in [1..N -> Bufs]
    BY <1>3, <1>6
  <1>9. Listed(f) = Bufs
    BY <1>5, <1>6, <1>7 DEF Listed
  <1> QED
    BY <1>8, <1>9 DEF f, N

LEMMA ListTypesStep ==
  ASSUME Types, LockInv, RefInv, [Next]_vars
  PROVE  ListTypes'
  <1>1. CASE UNCHANGED vars
    BY <1>1 DEF Types, ListTypes, vars, dvars
  <1>2. ASSUME NEW p \in Procs, NEW n \in Blocks, BgetHit(p, n)
        PROVE ListTypes'
    BY <1>2 DEF Types, ListTypes, BgetHit, Cached, Goto, dvars
  <1>3. ASSUME NEW p \in Procs, NEW n \in Blocks, BgetRecycle(p, n)
        PROVE ListTypes'
    BY <1>3 DEF Types, ListTypes, BgetRecycle, Recycled, Unused, Goto, dvars
  <1>4. ASSUME NEW p \in Procs, NEW n \in Blocks, BgetPanic(p, n)
        PROVE ListTypes'
    BY <1>4 DEF Types, ListTypes, BgetPanic, Goto, dvars
  <1>5. ASSUME NEW p \in Procs, LockSleep(p) PROVE ListTypes'
    BY <1>5 DEF Types, ListTypes, LockSleep, Acquiresleep, Goto, dvars
  <1>6. ASSUME NEW p \in Procs, Lock(p) PROVE ListTypes'
    BY <1>6 DEF Types, ListTypes, Lock, Acquiresleep, Goto, Call, dvars
  <1>7. ASSUME NEW p \in Procs, BreadDone(p) PROVE ListTypes'
    BY <1>7 DEF Types, ListTypes, BreadDone, Return, None, Goto
  <1>8. ASSUME NEW p \in Procs, Modify(p) PROVE ListTypes'
    BY <1>8 DEF Types, ListTypes, Modify, Touch, Goto
  <1>9. ASSUME NEW p \in Procs, Bwrite(p) PROVE ListTypes'
    BY <1>9 DEF Types, ListTypes, Bwrite, Call, Goto
  <1>10. ASSUME NEW p \in Procs, LogWrite(p) PROVE ListTypes'
    BY <1>10 DEF Types, ListTypes, LogWrite, Goto, dvars
  <1>11. ASSUME NEW p \in Procs, BwriteDone(p) PROVE ListTypes'
    BY <1>11 DEF Types, ListTypes, BwriteDone, Return, Unpins, None, Goto
  <1>12. ASSUME NEW p \in Procs, Releasesleep(p) PROVE ListTypes'
    BY <1>12 DEF Types, ListTypes, Releasesleep, WakeLockers, dvars
  <1>13. ASSUME NEW p \in Procs, Unref(p) PROVE ListTypes'
    <2> DEFINE b == buf[p]
    <2>1. b \in Bufs
      BY <1>13, HasBuf DEF Unref
    <2> QED
      BY <1>13, <2>1, MoveKeepsList DEF Unref, Types, ListTypes
  <1>14. ASSUME NEW p \in Procs, KillWakes(p) PROVE ListTypes'
    BY <1>14 DEF Types, ListTypes, KillWakes, Goto, dvars
  <1>15. ASSUME NEW p \in Procs, Transfer(p) PROVE ListTypes'
    BY <1>15 DEF Types, ListTypes, Transfer, Serve
  <1>16. QED
    BY <1>1, <1>2, <1>3, <1>4, <1>5, <1>6, <1>7, <1>8, <1>9, <1>10, <1>11,
        <1>12, <1>13, <1>14, <1>15
    DEF Next, Bget, Use

\* acquiresleep() and releasesleep() agree with the threads' places, ...
LEMMA LockInvStep ==
  ASSUME Types, LockInv, RefInv, [Next]_vars
  PROVE  LockInv'
  <1> USE BcacheAssumption
  <1>1. CASE UNCHANGED vars
    BY <1>1 DEF Types, ThreadTypes, BufTypes, LockInv, Owner, vars, dvars
  <1>2. ASSUME NEW p \in Procs, NEW n \in Blocks, BgetHit(p, n) PROVE LockInv'
    BY <1>2
    DEF Types, ThreadTypes, BufTypes, LockInv, Owner, BgetHit, Cached, Goto,
        dvars
  <1>3. ASSUME NEW p \in Procs, NEW n \in Blocks, BgetRecycle(p, n)
        PROVE LockInv'
    <2>1. PICK b \in Bufs : Users(b) = 0 /\ buf' = [buf EXCEPT ![p] = b]
      BY <1>3, RecycleTakes DEF RefInv
    <2>2. \A q \in Procs : buf[q] # b
      BY <2>1, NoUsers
    <2> QED
      BY <1>3, <2>1, <2>2
      DEF BgetRecycle, Goto, dvars, Types, ThreadTypes, BufTypes, LockInv,
          Owner
  <1>4. ASSUME NEW p \in Procs, NEW n \in Blocks, BgetPanic(p, n)
        PROVE LockInv'
    BY <1>4
    DEF Types, ThreadTypes, BufTypes, LockInv, Owner, BgetPanic, Goto, dvars
  <1>5. ASSUME NEW p \in Procs, LockSleep(p) PROVE LockInv'
    BY <1>5
    DEF Types, ThreadTypes, BufTypes, LockInv, Owner, LockSleep, Acquiresleep,
        Goto, dvars
  <1>6. ASSUME NEW p \in Procs, Lock(p) PROVE LockInv'
    BY <1>6
    DEF Types, ThreadTypes, BufTypes, LockInv, Owner, Lock, Acquiresleep, Goto,
        Call, dvars
  <1>7. ASSUME NEW p \in Procs, BreadDone(p) PROVE LockInv'
    BY <1>7
    DEF Types, ThreadTypes, BufTypes, LockInv, Owner, BreadDone, Return, None,
        Goto
  <1>8. ASSUME NEW p \in Procs, Modify(p) PROVE LockInv'
    BY <1>8
    DEF Types, ThreadTypes, BufTypes, LockInv, Owner, Modify, Touch, Goto
  <1>9. ASSUME NEW p \in Procs, Bwrite(p) PROVE LockInv'
    BY <1>9
    DEF Types, ThreadTypes, BufTypes, LockInv, Owner, Bwrite, Call, Goto
  <1>10. ASSUME NEW p \in Procs, LogWrite(p) PROVE LockInv'
    BY <1>10
    DEF Types, ThreadTypes, BufTypes, LockInv, Owner, LogWrite, Goto, dvars
  <1>11. ASSUME NEW p \in Procs, BwriteDone(p) PROVE LockInv'
    BY <1>11
    DEF Types, ThreadTypes, BufTypes, LockInv, Owner, BwriteDone, Return,
        Unpins, None, Goto
  <1>12. ASSUME NEW p \in Procs, Releasesleep(p) PROVE LockInv'
    BY <1>12
    DEF Types, ThreadTypes, BufTypes, LockInv, Owner, Releasesleep,
        WakeLockers, dvars
  <1>13. ASSUME NEW p \in Procs, Unref(p) PROVE LockInv'
    BY <1>13
    DEF Types, ThreadTypes, BufTypes, LockInv, Owner, Unref, ToFront, Goto,
        dvars
  <1>14. ASSUME NEW p \in Procs, KillWakes(p) PROVE LockInv'
    BY <1>14
    DEF Types, ThreadTypes, BufTypes, LockInv, Owner, KillWakes, Goto, dvars
  <1>15. ASSUME NEW p \in Procs, Transfer(p) PROVE LockInv'
    BY <1>15 DEF Types, ThreadTypes, BufTypes, LockInv, Owner, Transfer, Serve
  <1>16. QED
    BY <1>1, <1>2, <1>3, <1>4, <1>5, <1>6, <1>7, <1>8, <1>9, <1>10, <1>11,
        <1>12, <1>13, <1>14, <1>15
    DEF Next, Bget, Use

\* ... and releasesleep() wakes everybody who waits for its lock.
LEMMA LockSleepersStep ==
  ASSUME Types, LockInv, RefInv, LockSleepers, [Next]_vars
  PROVE  LockSleepers'
  <1> USE BcacheAssumption
  <1>1. CASE UNCHANGED vars
    BY <1>1
    DEF Types, ThreadTypes, BufTypes, LockInv, Owner, LockSleepers, vars, dvars
  <1>2. ASSUME NEW p \in Procs, NEW n \in Blocks, BgetHit(p, n)
        PROVE LockSleepers'
    BY <1>2
    DEF Types, ThreadTypes, BufTypes, LockInv, Owner, LockSleepers, BgetHit,
        Cached, Goto, dvars
  <1>3. ASSUME NEW p \in Procs, NEW n \in Blocks, BgetRecycle(p, n)
        PROVE LockSleepers'
    BY <1>3
    DEF Types, ThreadTypes, BufTypes, LockInv, Owner, LockSleepers,
        BgetRecycle, Recycled, Unused, Goto, dvars
  <1>4. ASSUME NEW p \in Procs, NEW n \in Blocks, BgetPanic(p, n)
        PROVE LockSleepers'
    BY <1>4
    DEF Types, ThreadTypes, BufTypes, LockInv, Owner, LockSleepers, BgetPanic,
        Goto, dvars
  <1>5. ASSUME NEW p \in Procs, LockSleep(p) PROVE LockSleepers'
    BY <1>5
    DEF Types, ThreadTypes, BufTypes, LockInv, Owner, LockSleepers, LockSleep,
        Acquiresleep, Goto, dvars
  <1>6. ASSUME NEW p \in Procs, Lock(p) PROVE LockSleepers'
    BY <1>6
    DEF Types, ThreadTypes, BufTypes, LockInv, Owner, LockSleepers, Lock,
        Acquiresleep, Goto, Call, dvars
  <1>7. ASSUME NEW p \in Procs, BreadDone(p) PROVE LockSleepers'
    BY <1>7
    DEF Types, ThreadTypes, BufTypes, LockInv, Owner, LockSleepers, BreadDone,
        Return, None, Goto
  <1>8. ASSUME NEW p \in Procs, Modify(p) PROVE LockSleepers'
    BY <1>8
    DEF Types, ThreadTypes, BufTypes, LockInv, Owner, LockSleepers, Modify,
        Touch, Goto
  <1>9. ASSUME NEW p \in Procs, Bwrite(p) PROVE LockSleepers'
    BY <1>9
    DEF Types, ThreadTypes, BufTypes, LockInv, Owner, LockSleepers, Bwrite,
        Call, Goto
  <1>10. ASSUME NEW p \in Procs, LogWrite(p) PROVE LockSleepers'
    BY <1>10
    DEF Types, ThreadTypes, BufTypes, LockInv, Owner, LockSleepers, LogWrite,
        Goto, dvars
  <1>11. ASSUME NEW p \in Procs, BwriteDone(p) PROVE LockSleepers'
    BY <1>11
    DEF Types, ThreadTypes, BufTypes, LockInv, Owner, LockSleepers, BwriteDone,
        Return, Unpins, None, Goto
  <1>12. ASSUME NEW p \in Procs, Releasesleep(p) PROVE LockSleepers'
    BY <1>12
    DEF Types, ThreadTypes, BufTypes, LockInv, Owner, LockSleepers,
        Releasesleep, WakeLockers, dvars
  <1>13. ASSUME NEW p \in Procs, Unref(p) PROVE LockSleepers'
    BY <1>13
    DEF Types, ThreadTypes, BufTypes, LockInv, Owner, LockSleepers, Unref,
        ToFront, Goto, dvars
  <1>14. ASSUME NEW p \in Procs, KillWakes(p) PROVE LockSleepers'
    BY <1>14
    DEF Types, ThreadTypes, BufTypes, LockInv, Owner, LockSleepers, KillWakes,
        Goto, dvars
  <1>15. ASSUME NEW p \in Procs, Transfer(p) PROVE LockSleepers'
    BY <1>15
    DEF Types, ThreadTypes, BufTypes, LockInv, Owner, LockSleepers, Transfer,
        Serve
  <1>16. QED
    BY <1>1, <1>2, <1>3, <1>4, <1>5, <1>6, <1>7, <1>8, <1>9, <1>10, <1>11,
        <1>12, <1>13, <1>14, <1>15
    DEF Next, Bget, Use

\* The references, one lemma for each conjunct of RefInv.
LEMMA InUseStep ==
  ASSUME Types, LockInv, RefInv, [Next]_vars
  PROVE  InUse'
  <1> USE BcacheAssumption
  <1>1. CASE UNCHANGED vars
    BY <1>1
    DEF Types, ThreadTypes, BufTypes, LockInv, RefInv, InUse, vars, dvars
  <1>2. ASSUME NEW p \in Procs, NEW n \in Blocks, BgetHit(p, n) PROVE InUse'
    BY <1>2
    DEF Types, ThreadTypes, BufTypes, LockInv, RefInv, InUse, BgetHit, Cached,
        Goto, dvars
  <1>3. ASSUME NEW p \in Procs, NEW n \in Blocks, BgetRecycle(p, n)
        PROVE InUse'
    <2>1. PICK b \in Bufs : /\ Users(b) = 0
                            /\ blockno[b] \notin pinned
                            /\ blockno' = [blockno EXCEPT ![b] = n]
                            /\ valid' = [valid EXCEPT ![b] = 0]
                            /\ refcnt' = [refcnt EXCEPT ![b] = 1]
                            /\ buf' = [buf EXCEPT ![p] = b]
      BY <1>3, RecycleTakes DEF RefInv
    <2>2. \A q \in Procs : buf[q] # b
      BY <2>1, NoUsers
    <2> QED
      BY <1>3, <2>1, <2>2
      DEF BgetRecycle, Types, ThreadTypes, BufTypes, RefInv, InUse
  <1>4. ASSUME NEW p \in Procs, NEW n \in Blocks, BgetPanic(p, n) PROVE InUse'
    BY <1>4
    DEF Types, ThreadTypes, BufTypes, LockInv, RefInv, InUse, BgetPanic, Goto,
        dvars
  <1>5. ASSUME NEW p \in Procs, LockSleep(p) PROVE InUse'
    BY <1>5
    DEF Types, ThreadTypes, BufTypes, LockInv, RefInv, InUse, LockSleep,
        Acquiresleep, Goto, dvars
  <1>6. ASSUME NEW p \in Procs, Lock(p) PROVE InUse'
    BY <1>6
    DEF Types, ThreadTypes, BufTypes, LockInv, RefInv, InUse, Lock,
        Acquiresleep, Goto, Call, dvars
  <1>7. ASSUME NEW p \in Procs, BreadDone(p) PROVE InUse'
    BY <1>7
    DEF Types, ThreadTypes, BufTypes, LockInv, RefInv, InUse, BreadDone,
        Return, None, Goto
  <1>8. ASSUME NEW p \in Procs, Modify(p) PROVE InUse'
    BY <1>8
    DEF Types, ThreadTypes, BufTypes, LockInv, RefInv, InUse, Modify, Touch,
        Goto
  <1>9. ASSUME NEW p \in Procs, Bwrite(p) PROVE InUse'
    BY <1>9
    DEF Types, ThreadTypes, BufTypes, LockInv, RefInv, InUse, Bwrite, Call,
        Goto
  <1>10. ASSUME NEW p \in Procs, LogWrite(p) PROVE InUse'
    BY <1>10
    DEF Types, ThreadTypes, BufTypes, LockInv, RefInv, InUse, LogWrite, Goto,
        dvars
  <1>11. ASSUME NEW p \in Procs, BwriteDone(p) PROVE InUse'
    BY <1>11
    DEF Types, ThreadTypes, BufTypes, LockInv, RefInv, InUse, BwriteDone,
        Return, Unpins, None, Goto
  <1>12. ASSUME NEW p \in Procs, Releasesleep(p) PROVE InUse'
    BY <1>12
    DEF Types, ThreadTypes, BufTypes, LockInv, RefInv, InUse, Releasesleep,
        WakeLockers, dvars
  <1>13. ASSUME NEW p \in Procs, Unref(p) PROVE InUse'
    BY <1>13
    DEF Types, ThreadTypes, BufTypes, LockInv, RefInv, InUse, Unref, ToFront,
        Goto, dvars
  <1>14. ASSUME NEW p \in Procs, KillWakes(p) PROVE InUse'
    BY <1>14
    DEF Types, ThreadTypes, BufTypes, LockInv, RefInv, InUse, KillWakes, Goto,
        dvars
  <1>15. ASSUME NEW p \in Procs, Transfer(p) PROVE InUse'
    BY <1>15
    DEF Types, ThreadTypes, BufTypes, LockInv, RefInv, InUse, Transfer, Serve
  <1>16. QED
    BY <1>1, <1>2, <1>3, <1>4, <1>5, <1>6, <1>7, <1>8, <1>9, <1>10, <1>11,
        <1>12, <1>13, <1>14, <1>15
    DEF Next, Bget, Use

LEMMA OneBufferStep ==
  ASSUME Types, LockInv, RefInv, [Next]_vars
  PROVE  OneBuffer'
  <1> USE BcacheAssumption
  <1>1. CASE UNCHANGED vars
    BY <1>1 DEF Types, ThreadTypes, BufTypes, RefInv, OneBuffer, vars, dvars
  <1>2. ASSUME NEW p \in Procs, NEW n \in Blocks, BgetHit(p, n)
        PROVE OneBuffer'
    BY <1>2
    DEF Types, ThreadTypes, BufTypes, RefInv, OneBuffer, BgetHit, Cached, Goto,
        dvars
  <1>3. ASSUME NEW p \in Procs, NEW n \in Blocks, BgetRecycle(p, n)
        PROVE OneBuffer'
    <2>1. PICK b \in Bufs : /\ Users(b) = 0
                            /\ blockno[b] \notin pinned
                            /\ blockno' = [blockno EXCEPT ![b] = n]
                            /\ valid' = [valid EXCEPT ![b] = 0]
                            /\ refcnt' = [refcnt EXCEPT ![b] = 1]
                            /\ buf' = [buf EXCEPT ![p] = b]
      BY <1>3, RecycleTakes DEF RefInv
    <2>2. \A q \in Procs : buf[q] # b
      BY <2>1, NoUsers
    <2> QED
      BY <1>3, <2>1, <2>2
      DEF BgetRecycle, Cached, Types, BufTypes, RefInv, OneBuffer
  <1>4. ASSUME NEW p \in Procs, NEW n \in Blocks, BgetPanic(p, n)
        PROVE OneBuffer'
    BY <1>4
    DEF Types, ThreadTypes, BufTypes, RefInv, OneBuffer, BgetPanic, Goto, dvars
  <1>5. ASSUME NEW p \in Procs, LockSleep(p) PROVE OneBuffer'
    BY <1>5
    DEF Types, ThreadTypes, BufTypes, RefInv, OneBuffer, LockSleep,
        Acquiresleep, Goto, dvars
  <1>6. ASSUME NEW p \in Procs, Lock(p) PROVE OneBuffer'
    BY <1>6
    DEF Types, ThreadTypes, BufTypes, RefInv, OneBuffer, Lock, Acquiresleep,
        Goto, Call, dvars
  <1>7. ASSUME NEW p \in Procs, BreadDone(p) PROVE OneBuffer'
    BY <1>7
    DEF Types, ThreadTypes, BufTypes, RefInv, OneBuffer, BreadDone, Return,
        None, Goto
  <1>8. ASSUME NEW p \in Procs, Modify(p) PROVE OneBuffer'
    BY <1>8
    DEF Types, ThreadTypes, BufTypes, RefInv, OneBuffer, Modify, Touch, Goto
  <1>9. ASSUME NEW p \in Procs, Bwrite(p) PROVE OneBuffer'
    BY <1>9
    DEF Types, ThreadTypes, BufTypes, RefInv, OneBuffer, Bwrite, Call, Goto
  <1>10. ASSUME NEW p \in Procs, LogWrite(p) PROVE OneBuffer'
    BY <1>10
    DEF Types, ThreadTypes, BufTypes, RefInv, OneBuffer, LogWrite, Goto, dvars
  <1>11. ASSUME NEW p \in Procs, BwriteDone(p) PROVE OneBuffer'
    BY <1>11
    DEF Types, ThreadTypes, BufTypes, RefInv, OneBuffer, BwriteDone, Return,
        Unpins, None, Goto
  <1>12. ASSUME NEW p \in Procs, Releasesleep(p) PROVE OneBuffer'
    BY <1>12
    DEF Types, ThreadTypes, BufTypes, RefInv, OneBuffer, Releasesleep,
        WakeLockers, dvars
  <1>13. ASSUME NEW p \in Procs, Unref(p) PROVE OneBuffer'
    BY <1>13
    DEF Types, ThreadTypes, BufTypes, RefInv, OneBuffer, Unref, ToFront, Goto,
        dvars
  <1>14. ASSUME NEW p \in Procs, KillWakes(p) PROVE OneBuffer'
    BY <1>14
    DEF Types, ThreadTypes, BufTypes, RefInv, OneBuffer, KillWakes, Goto, dvars
  <1>15. ASSUME NEW p \in Procs, Transfer(p) PROVE OneBuffer'
    BY <1>15
    DEF Types, ThreadTypes, BufTypes, RefInv, OneBuffer, Transfer, Serve
  <1>16. QED
    BY <1>1, <1>2, <1>3, <1>4, <1>5, <1>6, <1>7, <1>8, <1>9, <1>10, <1>11,
        <1>12, <1>13, <1>14, <1>15
    DEF Next, Bget, Use

LEMMA PinsStep ==
  ASSUME Types, LockInv, RefInv, DataInv, [Next]_vars
  PROVE  Pins'
  <1> USE BcacheAssumption
  <1>1. CASE UNCHANGED vars
    BY <1>1
    DEF Types, ThreadTypes, BufTypes, LogTypes, RefInv, Pins, vars, dvars
  <1>2. ASSUME NEW p \in Procs, NEW n \in Blocks, BgetHit(p, n) PROVE Pins'
    BY <1>2
    DEF Types, ThreadTypes, BufTypes, LogTypes, RefInv, Pins, BgetHit, Cached,
        Goto, dvars
  <1>3. ASSUME NEW p \in Procs, NEW n \in Blocks, BgetRecycle(p, n) PROVE Pins'
    <2>1. PICK b \in Bufs : /\ Users(b) = 0
                            /\ blockno[b] \notin pinned
                            /\ blockno' = [blockno EXCEPT ![b] = n]
                            /\ valid' = [valid EXCEPT ![b] = 0]
                            /\ refcnt' = [refcnt EXCEPT ![b] = 1]
                            /\ buf' = [buf EXCEPT ![p] = b]
      BY <1>3, RecycleTakes DEF RefInv
    <2>2. \A q \in Procs : buf[q] # b
      BY <2>1, NoUsers
    <2> QED
      BY <1>3, <2>1, <2>2
      DEF BgetRecycle, Cached, Types, BufTypes, RefInv, Pins
  <1>4. ASSUME NEW p \in Procs, NEW n \in Blocks, BgetPanic(p, n) PROVE Pins'
    BY <1>4
    DEF Types, ThreadTypes, BufTypes, LogTypes, RefInv, Pins, BgetPanic, Goto,
        dvars
  <1>5. ASSUME NEW p \in Procs, LockSleep(p) PROVE Pins'
    BY <1>5
    DEF Types, ThreadTypes, BufTypes, LogTypes, RefInv, Pins, LockSleep,
        Acquiresleep, Goto, dvars
  <1>6. ASSUME NEW p \in Procs, Lock(p) PROVE Pins'
    BY <1>6
    DEF Types, ThreadTypes, BufTypes, LogTypes, RefInv, Pins, Lock,
        Acquiresleep, Goto, Call, dvars
  <1>7. ASSUME NEW p \in Procs, BreadDone(p) PROVE Pins'
    BY <1>7
    DEF Types, ThreadTypes, BufTypes, LogTypes, RefInv, Pins, BreadDone,
        Return, None, Goto
  <1>8. ASSUME NEW p \in Procs, Modify(p) PROVE Pins'
    BY <1>8
    DEF Types, ThreadTypes, BufTypes, LogTypes, RefInv, Pins, Modify, Touch,
        Goto
  <1>9. ASSUME NEW p \in Procs, Bwrite(p) PROVE Pins'
    BY <1>9
    DEF Types, ThreadTypes, BufTypes, LogTypes, RefInv, Pins, Bwrite, Call,
        Goto
  <1>10. ASSUME NEW p \in Procs, LogWrite(p) PROVE Pins'
    <2>1. /\ buf[p] \in Bufs /\ blockno[buf[p]] \in Blocks
          /\ valid[buf[p]] = 1
      BY <1>10, HasBuf DEF LogWrite, DataInv, IOInv
    <2> QED
      BY <1>10, <2>1
      DEF LogWrite, Types, BufTypes, LogTypes, RefInv, Pins, OneBuffer
  <1>11. ASSUME NEW p \in Procs, BwriteDone(p) PROVE Pins'
    BY <1>11
    DEF Types, ThreadTypes, BufTypes, LogTypes, RefInv, Pins, BwriteDone,
        Return, Unpins, None, Goto
  <1>12. ASSUME NEW p \in Procs, Releasesleep(p) PROVE Pins'
    BY <1>12
    DEF Types, ThreadTypes, BufTypes, LogTypes, RefInv, Pins, Releasesleep,
        WakeLockers, dvars
  <1>13. ASSUME NEW p \in Procs, Unref(p) PROVE Pins'
    BY <1>13
    DEF Types, ThreadTypes, BufTypes, LogTypes, RefInv, Pins, Unref, ToFront,
        Goto, dvars
  <1>14. ASSUME NEW p \in Procs, KillWakes(p) PROVE Pins'
    BY <1>14
    DEF Types, ThreadTypes, BufTypes, LogTypes, RefInv, Pins, KillWakes, Goto,
        dvars
  <1>15. ASSUME NEW p \in Procs, Transfer(p) PROVE Pins'
    BY <1>15
    DEF Types, ThreadTypes, BufTypes, LogTypes, RefInv, Pins, Transfer, Serve
  <1>16. QED
    BY <1>1, <1>2, <1>3, <1>4, <1>5, <1>6, <1>7, <1>8, <1>9, <1>10, <1>11,
        <1>12, <1>13, <1>14, <1>15
    DEF Next, Bget, Use

LEMMA RefCountsStep ==
  ASSUME Types, LockInv, RefInv, [Next]_vars
  PROVE  RefCounts'
  <1>1. CASE UNCHANGED vars
    BY <1>1, SameRefs DEF RefInv, vars
  <1>2. ASSUME NEW p \in Procs, NEW n \in Blocks, BgetHit(p, n)
        PROVE RefCounts'
    <2> SUFFICES ASSUME NEW c \in Bufs PROVE refcnt'[c] = Users(c)' + Pin(c)'
      BY RefCountsAs DEF RefCounts, Users, Pin
    <2> DEFINE u == Users(c)
    <2>0. u \in Nat /\ refcnt[c] = u + Pin(c) /\ refcnt \in [Bufs -> Int]
      BY RefCountsAs DEF RefInv, Types, BufTypes
    <2>1. PICK b \in Bufs : /\ refcnt' = [refcnt EXCEPT ![b] = @ + 1]
                            /\ buf' = [buf EXCEPT ![p] = b]
      BY <1>2 DEF BgetHit, Cached
    <2>2. buf[p] = NoBuf
      BY <1>2 DEF BgetHit, LockInv
    <2>3. Users(c)' = u + (IF c = b THEN 1 ELSE 0)
      BY <2>1, <2>2, UserAdded
    <2>4. refcnt'[c] = refcnt[c] + (IF c = b THEN 1 ELSE 0) /\ Pin(c)' = Pin(c)
      BY <1>2, <2>0, <2>1 DEF BgetHit, Pin
    <2> HIDE DEF u
    <2> QED
      BY <2>0, <2>3, <2>4 DEF Pin
  <1>3. ASSUME NEW p \in Procs, NEW n \in Blocks, BgetRecycle(p, n)
        PROVE RefCounts'
    <2> SUFFICES ASSUME NEW c \in Bufs PROVE refcnt'[c] = Users(c)' + Pin(c)'
      BY RefCountsAs DEF RefCounts, Users, Pin
    <2> DEFINE u == Users(c)
    <2>0. u \in Nat /\ refcnt[c] = u + Pin(c) /\ refcnt \in [Bufs -> Int]
      BY RefCountsAs DEF RefInv, Types, BufTypes
    <2>1. PICK b \in Bufs : /\ Users(b) = 0
                            /\ blockno[b] \notin pinned
                            /\ blockno' = [blockno EXCEPT ![b] = n]
                            /\ valid' = [valid EXCEPT ![b] = 0]
                            /\ refcnt' = [refcnt EXCEPT ![b] = 1]
                            /\ buf' = [buf EXCEPT ![p] = b]
      BY <1>3, RecycleTakes DEF RefInv
    <2>2. \A q \in Procs : buf[q] # b
      BY <2>1, NoUsers
    <2>3. buf[p] = NoBuf
      BY <1>3 DEF BgetRecycle, LockInv
    <2>4. Users(c)' = u + (IF c = b THEN 1 ELSE 0)
      BY <2>1, <2>3, UserAdded
    <2>5. n \notin pinned /\ pinned' = pinned
      BY <1>3 DEF BgetRecycle, Cached, RefInv, Pins
    <2>6. refcnt'[c] = IF c = b THEN 1 ELSE refcnt[c]
      BY <2>0, <2>1
    <2>7. Pin(c)' = IF c = b THEN 0 ELSE Pin(c)
      BY <2>1, <2>5 DEF Pin, Types, BufTypes
    <2>8. c = b => u = 0
      BY <2>1
    <2> HIDE DEF u
    <2> QED
      BY <2>0, <2>4, <2>6, <2>7, <2>8
  <1>4. ASSUME NEW p \in Procs, NEW n \in Blocks, BgetPanic(p, n)
        PROVE RefCounts'
    BY <1>4, SameRefs DEF RefInv, BgetPanic
  <1>5. ASSUME NEW p \in Procs, LockSleep(p) PROVE RefCounts'
    BY <1>5, SameRefs DEF RefInv, LockSleep
  <1>6. ASSUME NEW p \in Procs, Lock(p) PROVE RefCounts'
    BY <1>6, SameRefs DEF RefInv, Lock
  <1>7. ASSUME NEW p \in Procs, BreadDone(p) PROVE RefCounts'
    BY <1>7, SameRefs DEF RefInv, BreadDone
  <1>8. ASSUME NEW p \in Procs, Modify(p) PROVE RefCounts'
    BY <1>8, SameRefs DEF RefInv, Modify
  <1>9. ASSUME NEW p \in Procs, Bwrite(p) PROVE RefCounts'
    BY <1>9, SameRefs DEF RefInv, Bwrite
  <1>10. ASSUME NEW p \in Procs, LogWrite(p) PROVE RefCounts'
    <2> SUFFICES ASSUME NEW c \in Bufs PROVE refcnt'[c] = Users(c)' + Pin(c)'
      BY RefCountsAs DEF RefCounts, Users, Pin
    <2> DEFINE u == Users(c)
    <2>0. u \in Nat /\ refcnt[c] = u + Pin(c) /\ refcnt \in [Bufs -> Int]
      BY RefCountsAs DEF RefInv, Types, BufTypes
    <2>1. buf[p] \in Bufs /\ blockno[buf[p]] \in Blocks
      BY <1>10, HasBuf DEF LogWrite
    <2>2. blockno'[c] \in pinned' <=> blockno[c] \in pinned \/ c = buf[p]
      <3>1. blockno[c] = blockno[buf[p]] => c = buf[p]
        BY <2>1, BcacheAssumption DEF RefInv, OneBuffer
      <3> QED
        BY <1>10, <3>1 DEF LogWrite
    <2>3. refcnt'[c] = IF c = buf[p] /\ blockno[c] \notin pinned
                      THEN refcnt[c] + 1 ELSE refcnt[c]
      BY <1>10, <2>0, <2>1 DEF LogWrite
    <2>4. Users(c)' = u
      BY <1>10 DEF LogWrite, Users
    <2> HIDE DEF u
    <2> QED
      BY <2>0, <2>2, <2>3, <2>4 DEF Pin
  <1>11. ASSUME NEW p \in Procs, BwriteDone(p) PROVE RefCounts'
    <2> SUFFICES ASSUME NEW c \in Bufs PROVE refcnt'[c] = Users(c)' + Pin(c)'
      BY RefCountsAs DEF RefCounts, Users, Pin
    <2> DEFINE u == Users(c)
    <2>0. u \in Nat /\ refcnt[c] = u + Pin(c) /\ refcnt \in [Bufs -> Int]
      BY RefCountsAs DEF RefInv, Types, BufTypes
    <2>1. buf[p] \in Bufs /\ blockno[buf[p]] \in Blocks
      BY <1>11, HasBuf DEF BwriteDone
    <2>2. blockno'[c] \in pinned' <=> blockno[c] \in pinned /\ c # buf[p]
      <3>1. blockno[c] = blockno[buf[p]] => c = buf[p]
        BY <2>1, BcacheAssumption DEF RefInv, OneBuffer
      <3> QED
        BY <1>11, <3>1 DEF BwriteDone
    <2>3. refcnt'[c] = IF c = buf[p] /\ blockno[c] \in pinned
                      THEN refcnt[c] - 1 ELSE refcnt[c]
      BY <1>11, <2>0, <2>1 DEF BwriteDone, Unpins
    <2>4. Users(c)' = u
      BY <1>11 DEF BwriteDone, Users
    <2> HIDE DEF u
    <2> QED
      BY <2>0, <2>2, <2>3, <2>4 DEF Pin
  <1>12. ASSUME NEW p \in Procs, Releasesleep(p) PROVE RefCounts'
    BY <1>12, SameRefs DEF RefInv, Releasesleep
  <1>13. ASSUME NEW p \in Procs, Unref(p) PROVE RefCounts'
    <2> SUFFICES ASSUME NEW c \in Bufs PROVE refcnt'[c] = Users(c)' + Pin(c)'
      BY RefCountsAs DEF RefCounts, Users, Pin
    <2> DEFINE u == Users(c)
    <2>0. u \in Nat /\ refcnt[c] = u + Pin(c) /\ refcnt \in [Bufs -> Int]
      BY RefCountsAs DEF RefInv, Types, BufTypes
    <2>1. buf[p] \in Bufs
      BY <1>13, HasBuf DEF Unref
    <2>2. Users(c)' = u - (IF c = buf[p] THEN 1 ELSE 0)
      BY <1>13, <2>1, UserGone DEF Unref
    <2>3. refcnt'[c] = refcnt[c] - (IF c = buf[p] THEN 1 ELSE 0)
      BY <1>13, <2>0 DEF Unref
    <2>4. Pin(c)' = Pin(c)
      BY <1>13 DEF Unref, Pin
    <2> HIDE DEF u
    <2> QED
      BY <2>0, <2>2, <2>3, <2>4 DEF Pin
  <1>14. ASSUME NEW p \in Procs, KillWakes(p) PROVE RefCounts'
    BY <1>14, SameRefs DEF RefInv, KillWakes
  <1>15. ASSUME NEW p \in Procs, Transfer(p) PROVE RefCounts'
    BY <1>15, SameRefs DEF RefInv, Transfer
  <1>16. QED
    BY <1>1, <1>2, <1>3, <1>4, <1>5, <1>6, <1>7, <1>8, <1>9, <1>10, <1>11,
        <1>12, <1>13, <1>14, <1>15
    DEF Next, Bget, Use

LEMMA AllUsedStep ==
  ASSUME Types, AllUsed, [Next]_vars
  PROVE  AllUsed'
  <1>1. CASE UNCHANGED vars
    BY <1>1 DEF Types, ThreadTypes, AllUsed, Panicked, vars, dvars
  <1>2. ASSUME ~Panicked, NEW p \in Procs, NEW n \in Blocks, BgetHit(p, n)
        PROVE AllUsed'
    BY <1>2
    DEF Types, ThreadTypes, AllUsed, Panicked, BgetHit, Cached, Goto, dvars
  <1>3. ASSUME ~Panicked, NEW p \in Procs, NEW n \in Blocks, BgetRecycle(p, n)
        PROVE AllUsed'
    BY <1>3
    DEF Types, ThreadTypes, AllUsed, Panicked, BgetRecycle, Recycled, Unused,
        Goto, dvars
  <1>4. ASSUME ~Panicked, NEW p \in Procs, NEW n \in Blocks, BgetPanic(p, n)
        PROVE AllUsed'
    <2>1. \A b \in Bufs : \E i \in DOMAIN lru : lru[i] = b
      BY DEF Types, ListTypes, Listed
    <2>2. \A b \in Bufs : refcnt[b] # 0
      BY <1>4, <2>1 DEF BgetPanic, Unused
    <2> QED
      BY <1>4, <2>2 DEF BgetPanic, AllUsed
  <1>5. ASSUME ~Panicked, NEW p \in Procs, LockSleep(p) PROVE AllUsed'
    BY <1>5
    DEF Types, ThreadTypes, AllUsed, Panicked, LockSleep, Acquiresleep, Goto,
        dvars
  <1>6. ASSUME ~Panicked, NEW p \in Procs, Lock(p) PROVE AllUsed'
    BY <1>6
    DEF Types, ThreadTypes, AllUsed, Panicked, Lock, Acquiresleep, Goto, Call,
        dvars
  <1>7. ASSUME ~Panicked, NEW p \in Procs, BreadDone(p) PROVE AllUsed'
    BY <1>7
    DEF Types, ThreadTypes, AllUsed, Panicked, BreadDone, Return, None, Goto
  <1>8. ASSUME ~Panicked, NEW p \in Procs, Modify(p) PROVE AllUsed'
    BY <1>8 DEF Types, ThreadTypes, AllUsed, Panicked, Modify, Touch, Goto
  <1>9. ASSUME ~Panicked, NEW p \in Procs, Bwrite(p) PROVE AllUsed'
    BY <1>9 DEF Types, ThreadTypes, AllUsed, Panicked, Bwrite, Call, Goto
  <1>10. ASSUME ~Panicked, NEW p \in Procs, LogWrite(p) PROVE AllUsed'
    BY <1>10 DEF Types, ThreadTypes, AllUsed, Panicked, LogWrite, Goto, dvars
  <1>11. ASSUME ~Panicked, NEW p \in Procs, BwriteDone(p) PROVE AllUsed'
    BY <1>11
    DEF Types, ThreadTypes, AllUsed, Panicked, BwriteDone, Return, Unpins,
        None, Goto
  <1>12. ASSUME ~Panicked, NEW p \in Procs, Releasesleep(p) PROVE AllUsed'
    BY <1>12
    DEF Types, ThreadTypes, AllUsed, Panicked, Releasesleep, WakeLockers, dvars
  <1>13. ASSUME ~Panicked, NEW p \in Procs, Unref(p) PROVE AllUsed'
    BY <1>13
    DEF Types, ThreadTypes, AllUsed, Panicked, Unref, ToFront, Goto, dvars
  <1>14. ASSUME ~Panicked, NEW p \in Procs, KillWakes(p) PROVE AllUsed'
    BY <1>14 DEF Types, ThreadTypes, AllUsed, Panicked, KillWakes, Goto, dvars
  <1>15. ASSUME ~Panicked, NEW p \in Procs, Transfer(p) PROVE AllUsed'
    BY <1>15 DEF Types, ThreadTypes, AllUsed, Panicked, Transfer, Serve
  <1>16. QED
    BY <1>1, <1>2, <1>3, <1>4, <1>5, <1>6, <1>7, <1>8, <1>9, <1>10, <1>11,
        <1>12, <1>13, <1>14, <1>15
    DEF Next, Bget, Use
=============================================================================
