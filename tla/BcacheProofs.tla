---------------------------- MODULE BcacheProofs ----------------------------
(***************************************************************************)
(* What the buffer cache promises, from the invariant of BcacheInv: the    *)
(* data part of the invariant is preserved, and with it the invariant      *)
(* implies Coherent, Written, LockSleepers and BuffersSuffice.             *)
(***************************************************************************)
EXTENDS BcacheInv

\* Two threads that have locked buffers of the same block are the same thread.
LEMMA Exclusive ==
  ASSUME Types, LockInv, RefInv, NEW p \in Procs, NEW q \in Procs,
         Owner(p), Owner(q), blockno[buf[p]] = blockno[buf[q]]
  PROVE  p = q
  <1>1. /\ buf[p] \in Bufs /\ blockno[buf[p]] \in Blocks
        /\ buf[q] \in Bufs
    BY HasBuf DEF Owner
  <1>2. buf[p] = buf[q]
    BY <1>1, BcacheAssumption DEF RefInv, OneBuffer
  <1> QED
    BY <1>2 DEF LockInv

\* What the disk does with a request: a read brings the current contents of the
\* block, because nobody has a newer one, and a write takes them to the disk.
LEMMA Served ==
  ASSUME Types, LockInv, RefInv, DataInv, NEW p \in Procs, Transfer(p)
  PROVE  /\ buf[p] \in Bufs /\ blockno[buf[p]] \in Blocks
         /\ Owner(p)
         /\ req' = [req EXCEPT ![p].op = "done"]
         /\ UNCHANGED <<blockno, valid, pc, buf, pinned, content>>
         /\ \/ /\ pc[p] = "read"
               /\ data' = [data EXCEPT ![buf[p]] = content[blockno[buf[p]]]]
               /\ disk' = disk
            \/ /\ pc[p] = "write"
               /\ disk' = [disk EXCEPT ![blockno[buf[p]]] = content[blockno[buf[p]]]]
               /\ data' = data
  <1>1. req[p].op \in {"read", "write"} /\ req[p] # None
    BY DEF Transfer, Serve, None
  <1>2. /\ pc[p] \in {"read", "write"}
        /\ req[p].b = buf[p] /\ req[p].n = blockno[buf[p]]
        /\ pc[p] = "read" <=> req[p].op = "read"
    BY <1>1 DEF DataInv, IOInv
  <1>3. buf[p] \in Bufs /\ blockno[buf[p]] \in Blocks /\ Owner(p)
    BY <1>2, HasBuf DEF Owner
  <1>4. CASE pc[p] = "read"
    <2>1. valid[buf[p]] = 0
      BY <1>4 DEF DataInv, IOInv
    <2>2. blockno[buf[p]] \notin pinned
      BY <1>3, <2>1 DEF RefInv, Pins
    <2>3. ASSUME NEW q \in Procs, pc[q] \in {"modified", "write"},
                 blockno[buf[q]] = blockno[buf[p]]
          PROVE  FALSE
      BY <1>3, <1>4, <2>3, Exclusive DEF Owner
    <2>4. disk[blockno[buf[p]]] = content[blockno[buf[p]]]
      BY <1>3, <2>2, <2>3 DEF DataInv, DiskInv
    <2> QED
      BY <1>2, <1>3, <1>4, <2>4 DEF Transfer, Serve
  <1>5. CASE pc[p] = "write"
    <2>1. data[buf[p]] = content[blockno[buf[p]]]
      BY <1>3, <1>5 DEF DataInv, IOInv, ValidInv
    <2> QED
      BY <1>1, <1>2, <1>3, <1>5, <2>1 DEF Transfer, Serve
  <1> QED
    BY <1>2, <1>4, <1>5

\* The data, one lemma for each conjunct of DataInv.
LEMMA ValidStep ==
  ASSUME Types, LockInv, RefInv, DataInv, [Next]_vars
  PROVE  ValidInv'
  <1>1. CASE UNCHANGED vars
    BY <1>1 DEF DataInv, ValidInv, vars, dvars
  <1>2. ASSUME NEW p \in Procs, NEW n \in Blocks, BgetHit(p, n) PROVE ValidInv'
    BY <1>2 DEF DataInv, ValidInv, BgetHit, Cached, Goto, dvars
  <1>3. ASSUME NEW p \in Procs, NEW n \in Blocks, BgetRecycle(p, n)
        PROVE ValidInv'
    <2>1. PICK b \in Bufs : /\ Users(b) = 0
                            /\ blockno[b] \notin pinned
                            /\ blockno' = [blockno EXCEPT ![b] = n]
                            /\ valid' = [valid EXCEPT ![b] = 0]
                            /\ refcnt' = [refcnt EXCEPT ![b] = 1]
                            /\ buf' = [buf EXCEPT ![p] = b]
      BY <1>3, RecycleTakes DEF RefInv
    <2>2. \A q \in Procs : buf[q] # b
      BY <2>1, NoUsers
    <2> QED
      BY <1>3, <2>1, <2>2
      DEF BgetRecycle, dvars, Types, BufTypes, DataInv, ValidInv
  <1>4. ASSUME NEW p \in Procs, NEW n \in Blocks, BgetPanic(p, n)
        PROVE ValidInv'
    BY <1>4 DEF DataInv, ValidInv, BgetPanic, Goto, dvars
  <1>5. ASSUME NEW p \in Procs, LockSleep(p) PROVE ValidInv'
    BY <1>5 DEF DataInv, ValidInv, LockSleep, Acquiresleep, Goto, dvars
  <1>6. ASSUME NEW p \in Procs, Lock(p) PROVE ValidInv'
    BY <1>6 DEF DataInv, ValidInv, Lock, Acquiresleep, Goto, Call, dvars
  <1>7. ASSUME NEW p \in Procs, BreadDone(p) PROVE ValidInv'
    <2>1. /\ buf[p] \in Bufs /\ blockno[buf[p]] \in Blocks
          /\ data[buf[p]] = content[blockno[buf[p]]]
      BY <1>7, HasBuf DEF BreadDone, Return, DataInv, IOInv
    <2> QED
      BY <1>7, <2>1 DEF BreadDone, Return, Types, BufTypes, DataInv, ValidInv
  <1>8. ASSUME NEW p \in Procs, Modify(p) PROVE ValidInv'
    <2>1. /\ buf[p] \in Bufs /\ blockno[buf[p]] \in Blocks
          /\ data[buf[p]] = content[blockno[buf[p]]]
      BY <1>8, HasBuf DEF Modify, DataInv, IOInv, ValidInv
    <2>2. ASSUME NEW c \in Bufs, c # buf[p] PROVE blockno[c] # blockno[buf[p]]
      BY <2>1, <2>2, BcacheAssumption DEF RefInv, OneBuffer
    <2>3. /\ UNCHANGED <<valid, blockno>>
          /\ data' = [data EXCEPT ![buf[p]] = -data[buf[p]]]
          /\ content' = [content EXCEPT ![blockno[buf[p]]] = -content[blockno[buf[p]]]]
      BY <1>8 DEF Modify, Touch
    <2>4. data'[buf[p]] = content'[blockno[buf[p]]]
      BY <2>1, <2>3 DEF Types, DataTypes
    <2>5. ASSUME NEW c \in Bufs, c # buf[p], valid[c] = 1
          PROVE  blockno[c] \in Blocks /\ data'[c] = content'[blockno[c]]
      BY <2>2, <2>3, <2>5 DEF Types, DataTypes, DataInv, ValidInv
    <2> QED
      BY <2>1, <2>3, <2>4, <2>5 DEF ValidInv
  <1>9. ASSUME NEW p \in Procs, Bwrite(p) PROVE ValidInv'
    BY <1>9 DEF DataInv, ValidInv, Bwrite, Call, Goto
  <1>10. ASSUME NEW p \in Procs, LogWrite(p) PROVE ValidInv'
    BY <1>10 DEF DataInv, ValidInv, LogWrite, Goto, dvars
  <1>11. ASSUME NEW p \in Procs, BwriteDone(p) PROVE ValidInv'
    BY <1>11 DEF DataInv, ValidInv, BwriteDone, Return, Unpins, None, Goto
  <1>12. ASSUME NEW p \in Procs, Releasesleep(p) PROVE ValidInv'
    BY <1>12 DEF DataInv, ValidInv, Releasesleep, WakeLockers, dvars
  <1>13. ASSUME NEW p \in Procs, Unref(p) PROVE ValidInv'
    BY <1>13 DEF DataInv, ValidInv, Unref, ToFront, Goto, dvars
  <1>14. ASSUME NEW p \in Procs, KillWakes(p) PROVE ValidInv'
    BY <1>14 DEF DataInv, ValidInv, KillWakes, Goto, dvars
  <1>15. ASSUME NEW p \in Procs, Transfer(p) PROVE ValidInv'
    BY <1>15, Served DEF Types, BufTypes, DataTypes, DataInv, ValidInv
  <1>16. QED
    BY <1>1, <1>2, <1>3, <1>4, <1>5, <1>6, <1>7, <1>8, <1>9, <1>10, <1>11,
        <1>12, <1>13, <1>14, <1>15
    DEF Next, Bget, Use

LEMMA IOStep ==
  ASSUME Types, LockInv, RefInv, DataInv, [Next]_vars
  PROVE  IOInv'
  <1>1. CASE UNCHANGED vars
    BY <1>1 DEF Types, ThreadTypes, DataTypes, DataInv, IOInv, vars, dvars
  <1>2. ASSUME NEW p \in Procs, NEW n \in Blocks, BgetHit(p, n) PROVE IOInv'
    BY <1>2
    DEF Types, ThreadTypes, DataTypes, DataInv, IOInv, BgetHit, Cached, Goto,
        dvars
  <1>3. ASSUME NEW p \in Procs, NEW n \in Blocks, BgetRecycle(p, n)
        PROVE IOInv'
    <2>1. PICK b \in Bufs : /\ Users(b) = 0
                            /\ blockno[b] \notin pinned
                            /\ blockno' = [blockno EXCEPT ![b] = n]
                            /\ valid' = [valid EXCEPT ![b] = 0]
                            /\ refcnt' = [refcnt EXCEPT ![b] = 1]
                            /\ buf' = [buf EXCEPT ![p] = b]
      BY <1>3, RecycleTakes DEF RefInv
    <2>2. \A q \in Procs : buf[q] # b
      BY <2>1, NoUsers
    <2> QED
      BY <1>3, <2>1, <2>2
      DEF BgetRecycle, Types, ThreadTypes, BufTypes, DataTypes, Goto, dvars,
          LockInv, DataInv, IOInv
  <1>4. ASSUME NEW p \in Procs, NEW n \in Blocks, BgetPanic(p, n) PROVE IOInv'
    BY <1>4
    DEF Types, ThreadTypes, DataTypes, DataInv, IOInv, BgetPanic, Goto, dvars
  <1>5. ASSUME NEW p \in Procs, LockSleep(p) PROVE IOInv'
    BY <1>5
    DEF Types, ThreadTypes, DataTypes, DataInv, IOInv, LockSleep, Acquiresleep,
        Goto, dvars
  <1>6. ASSUME NEW p \in Procs, Lock(p) PROVE IOInv'
    <2>1. buf[p] \in Bufs /\ valid[buf[p]] \in {0, 1}
      BY <1>6, HasBuf DEF Lock, Types, BufTypes
    <2>2. CASE valid[buf[p]] = 1
      BY <1>6, <2>2 DEF Lock, Goto, dvars, Types, ThreadTypes, DataInv, IOInv
    <2>3. CASE valid[buf[p]] = 0
      BY <1>6, <2>3
      DEF Lock, Goto, Call, Types, ThreadTypes, DataTypes, DataInv, IOInv
    <2> QED
      BY <2>1, <2>2, <2>3
  <1>7. ASSUME NEW p \in Procs, BreadDone(p) PROVE IOInv'
    <2>1. ASSUME NEW q \in Procs, q # p, Owner(q) PROVE buf[q] # buf[p]
      BY <1>7, <2>1 DEF BreadDone, LockInv, Owner
    <2>2. buf[p] \in Bufs
      BY <1>7, HasBuf DEF BreadDone
    <2>3. /\ valid'[buf[p]] = 1
          /\ \A q \in Procs : q # p /\ Owner(q) => valid'[buf[q]] = valid[buf[q]]
      BY <1>7, <2>1, <2>2 DEF BreadDone, Types, BufTypes
    <2>4. /\ UNCHANGED <<blockno, buf, content, data, disk>>
          /\ pc'[p] = "using" /\ req'[p] = None
          /\ \A q \in Procs : q # p => pc'[q] = pc[q] /\ req'[q] = req[q]
      BY <1>7 DEF BreadDone, Return, Goto, Types, ThreadTypes, DataTypes
    <2> QED
      BY <2>3, <2>4 DEF DataInv, IOInv, Owner
  <1>8. ASSUME NEW p \in Procs, Modify(p) PROVE IOInv'
    <2>1. ASSUME NEW q \in Procs, q # p, Owner(q)
          PROVE  buf[q] # buf[p] /\ blockno[buf[q]] # blockno[buf[p]]
      BY <1>8, <2>1, Exclusive DEF Modify, Owner
    <2>2. PICK v, w : /\ data' = [data EXCEPT ![buf[p]] = v]
                      /\ content' = [content EXCEPT ![blockno[buf[p]]] = w]
      BY <1>8 DEF Modify, Touch
    <2>3. ASSUME NEW q \in Procs, q # p, Owner(q)
          PROVE  /\ data'[buf[q]] = data[buf[q]]
                 /\ content'[blockno[buf[q]]] = content[blockno[buf[q]]]
      <3>1. buf[q] \in Bufs /\ blockno[buf[q]] \in Blocks
        BY <2>3, HasBuf DEF Owner
      <3> QED
        BY <2>1, <2>2, <2>3, <3>1 DEF Types, DataTypes
    <2>4. /\ UNCHANGED <<blockno, buf, valid, req, disk>>
          /\ pc[p] = "using" /\ pc'[p] = "modified"
          /\ \A q \in Procs : q # p => pc'[q] = pc[q]
      BY <1>8 DEF Modify, Touch, Goto, Types, ThreadTypes
    <2> QED
      BY <2>3, <2>4 DEF DataInv, IOInv, Owner
  <1>9. ASSUME NEW p \in Procs, Bwrite(p) PROVE IOInv'
    BY <1>9
    DEF Types, ThreadTypes, DataTypes, DataInv, IOInv, Bwrite, Call, Goto
  <1>10. ASSUME NEW p \in Procs, LogWrite(p) PROVE IOInv'
    BY <1>10
    DEF Types, ThreadTypes, DataTypes, DataInv, IOInv, LogWrite, Goto, dvars
  <1>11. ASSUME NEW p \in Procs, BwriteDone(p) PROVE IOInv'
    BY <1>11
    DEF Types, ThreadTypes, DataTypes, DataInv, IOInv, BwriteDone, Return,
        Unpins, None, Goto
  <1>12. ASSUME NEW p \in Procs, Releasesleep(p) PROVE IOInv'
    BY <1>12
    DEF Types, ThreadTypes, DataTypes, DataInv, IOInv, Releasesleep,
        WakeLockers, dvars
  <1>13. ASSUME NEW p \in Procs, Unref(p) PROVE IOInv'
    BY <1>13
    DEF Types, ThreadTypes, DataTypes, DataInv, IOInv, Unref, ToFront, Goto,
        dvars
  <1>14. ASSUME NEW p \in Procs, KillWakes(p) PROVE IOInv'
    BY <1>14
    DEF Types, ThreadTypes, DataTypes, DataInv, IOInv, KillWakes, Goto, dvars
  <1>15. ASSUME NEW p \in Procs, Transfer(p) PROVE IOInv'
    <2>1. ASSUME NEW q \in Procs, q # p, Owner(q)
          PROVE  buf[q] # buf[p] /\ blockno[buf[q]] # blockno[buf[p]]
      BY <1>15, <2>1, Served, Exclusive
    <2>2. \A q \in Procs : q # p => req'[q] = req[q]
      BY <1>15, Served DEF Types, DataTypes
    <2>3. /\ req'[p].op = "done" /\ req'[p].b = req[p].b /\ req'[p].n = req[p].n
      BY <1>15, Served DEF Types, DataTypes, Requests
    <2>4. ASSUME NEW q \in Procs, q # p, Owner(q)
          PROVE  /\ data'[buf[q]] = data[buf[q]]
                 /\ disk'[blockno[buf[q]]] = disk[blockno[buf[q]]]
      <3>1. buf[q] \in Bufs /\ blockno[buf[q]] \in Blocks
        BY <2>4, HasBuf DEF Owner
      <3> QED
        BY <1>15, <2>1, <2>4, <3>1, Served DEF Types, DataTypes
    <2>5. pc[p] = "read" => data'[buf[p]] = content[blockno[buf[p]]]
      BY <1>15, Served DEF Types, DataTypes
    <2>6. pc[p] = "write" => disk'[blockno[buf[p]]] = content[blockno[buf[p]]]
      BY <1>15, Served DEF Types, DataTypes
    <2>7. UNCHANGED <<blockno, valid, pc, buf, content>> /\ pc[p] \in {"read", "write"}
      BY <1>15, Served
    <2> QED
      BY <2>2, <2>3, <2>4, <2>5, <2>6, <2>7 DEF DataInv, IOInv, Owner
  <1>16. QED
    BY <1>1, <1>2, <1>3, <1>4, <1>5, <1>6, <1>7, <1>8, <1>9, <1>10, <1>11,
        <1>12, <1>13, <1>14, <1>15
    DEF Next, Bget, Use

LEMMA DiskStep ==
  ASSUME Types, LockInv, RefInv, DataInv, [Next]_vars
  PROVE  DiskInv'
  <1>1. CASE UNCHANGED vars
    BY <1>1 DEF DataInv, DiskInv, vars, dvars
  <1>2. ASSUME NEW p \in Procs, NEW n \in Blocks, BgetHit(p, n) PROVE DiskInv'
    BY <1>2
    DEF Types, ThreadTypes, DataInv, DiskInv, BgetHit, Cached, Goto, dvars
  <1>3. ASSUME NEW p \in Procs, NEW n \in Blocks, BgetRecycle(p, n)
        PROVE DiskInv'
    <2>1. PICK b \in Bufs : /\ Users(b) = 0
                            /\ blockno[b] \notin pinned
                            /\ blockno' = [blockno EXCEPT ![b] = n]
                            /\ valid' = [valid EXCEPT ![b] = 0]
                            /\ refcnt' = [refcnt EXCEPT ![b] = 1]
                            /\ buf' = [buf EXCEPT ![p] = b]
      BY <1>3, RecycleTakes DEF RefInv
    <2>2. \A q \in Procs : buf[q] # b
      BY <2>1, NoUsers
    <2> QED
      BY <1>3, <2>1, <2>2
      DEF BgetRecycle, Types, ThreadTypes, BufTypes, DataTypes, Goto, dvars,
          LockInv, DataInv, DiskInv
  <1>4. ASSUME NEW p \in Procs, NEW n \in Blocks, BgetPanic(p, n)
        PROVE DiskInv'
    BY <1>4 DEF Types, ThreadTypes, DataInv, DiskInv, BgetPanic, Goto, dvars
  <1>5. ASSUME NEW p \in Procs, LockSleep(p) PROVE DiskInv'
    BY <1>5
    DEF Types, ThreadTypes, DataInv, DiskInv, LockSleep, Acquiresleep, Goto,
        dvars
  <1>6. ASSUME NEW p \in Procs, Lock(p) PROVE DiskInv'
    BY <1>6
    DEF Types, ThreadTypes, DataInv, DiskInv, Lock, Acquiresleep, Goto, Call,
        dvars
  <1>7. ASSUME NEW p \in Procs, BreadDone(p) PROVE DiskInv'
    BY <1>7
    DEF Types, ThreadTypes, DataInv, DiskInv, BreadDone, Return, None, Goto
  <1>8. ASSUME NEW p \in Procs, Modify(p) PROVE DiskInv'
    <2>1. ASSUME NEW n \in Blocks, n # blockno[buf[p]]
          PROVE  content'[n] = content[n] /\ disk'[n] = disk[n]
      <3>1. disk' = disk
        BY <1>8 DEF Modify, Touch
      <3>2. PICK v : content' = [content EXCEPT ![blockno[buf[p]]] = v]
        BY <1>8 DEF Modify
      <3> QED
        BY <2>1, <3>1, <3>2 DEF Types, DataTypes
    <2>2. ASSUME NEW q \in Procs, pc[q] \in {"modified", "write"}
          PROVE  pc'[q] = pc[q]
      BY <1>8, <2>2 DEF Modify, Goto, Types, ThreadTypes
    <2>3. pc'[p] = "modified" /\ UNCHANGED <<blockno, buf, pinned>>
      BY <1>8 DEF Modify, Goto, Types, ThreadTypes
    <2> QED
      BY <2>1, <2>2, <2>3 DEF DataInv, DiskInv
  <1>9. ASSUME NEW p \in Procs, Bwrite(p) PROVE DiskInv'
    BY <1>9 DEF Types, ThreadTypes, DataInv, DiskInv, Bwrite, Call, Goto
  <1>10. ASSUME NEW p \in Procs, LogWrite(p) PROVE DiskInv'
    BY <1>10 DEF Types, ThreadTypes, DataInv, DiskInv, LogWrite, Goto, dvars
  <1>11. ASSUME NEW p \in Procs, BwriteDone(p) PROVE DiskInv'
    <2>1. disk[blockno[buf[p]]] = content[blockno[buf[p]]]
      BY <1>11 DEF BwriteDone, Return, DataInv, IOInv
    <2>2. /\ UNCHANGED <<disk, content, blockno, buf>>
          /\ pinned' = pinned \ {blockno[buf[p]]}
      BY <1>11 DEF BwriteDone, Return
    <2>3. \A q \in Procs : q # p => pc'[q] = pc[q]
      BY <1>11 DEF BwriteDone, Goto, Types, ThreadTypes
    <2> QED
      BY <2>1, <2>2, <2>3 DEF DataInv, DiskInv
  <1>12. ASSUME NEW p \in Procs, Releasesleep(p) PROVE DiskInv'
    <2>1. ASSUME NEW q \in Procs, pc[q] \in {"modified", "write"}
          PROVE  pc'[q] = pc[q]
      BY <1>12, <2>1 DEF Releasesleep, WakeLockers, Types, ThreadTypes
    <2> QED
      BY <1>12, <2>1 DEF Releasesleep, dvars, DataInv, DiskInv
  <1>13. ASSUME NEW p \in Procs, Unref(p) PROVE DiskInv'
    BY <1>13
    DEF Types, ThreadTypes, DataInv, DiskInv, Unref, ToFront, Goto, dvars
  <1>14. ASSUME NEW p \in Procs, KillWakes(p) PROVE DiskInv'
    BY <1>14 DEF Types, ThreadTypes, DataInv, DiskInv, KillWakes, Goto, dvars
  <1>15. ASSUME NEW p \in Procs, Transfer(p) PROVE DiskInv'
    <2>1. ASSUME NEW n \in Blocks, disk[n] = content[n] PROVE disk'[n] = content'[n]
      BY <1>15, <2>1, Served DEF Types, DataTypes
    <2> QED
      BY <1>15, <2>1, Served DEF DataInv, DiskInv
  <1>16. QED
    BY <1>1, <1>2, <1>3, <1>4, <1>5, <1>6, <1>7, <1>8, <1>9, <1>10, <1>11,
        <1>12, <1>13, <1>14, <1>15
    DEF Next, Bget, Use

\* binit() makes the invariant true.
LEMMA InitInv == Init => IInv
  <1> SUFFICES ASSUME Init PROVE IInv
    OBVIOUS
  <1>1. Types
    <2>1. ThreadTypes /\ ListTypes
      BY DEF Init, ThreadTypes, ListTypes, Labels
    <2>2. BufTypes
      BY DEF Init, BufTypes
    <2>3. LogTypes
      BY FS_EmptySet DEF Init, LogTypes
    <2>4. None \in Requests
      BY DEF None, Requests
    <2>5. DataTypes
      BY BcacheAssumption, <2>4 DEF Init, DataTypes
    <2> QED
      BY <2>1, <2>2, <2>3, <2>5 DEF Types
  <1>2. LockInv
    BY DEF Init, LockInv, Owner
  <1>3. RefInv
    <2>1. \A b \in Bufs : {p \in Procs : buf[p] = b} = {}
      BY BcacheAssumption DEF Init
    <2>2. \A b \in Bufs : Users(b) = 0
      BY <2>1, FS_EmptySet DEF Users
    <2>3. RefCounts
      BY <2>2, RefCountsAs DEF Init, Pin
    <2> QED
      BY <2>3 DEF Init, RefInv, InUse, OneBuffer, Pins, AllUsed, Panicked
  <1>4. DataInv
    BY DEF Init, DataInv, ValidInv, IOInv, DiskInv
  <1>5. LockSleepers
    BY DEF Init, LockSleepers
  <1> QED
    BY <1>1, <1>2, <1>3, <1>4, <1>5 DEF IInv

\* Every step of the cache, its users and the disk preserves it.
LEMMA NextInv == IInv /\ [Next]_vars => IInv'
  <1> SUFFICES ASSUME IInv, [Next]_vars PROVE IInv'
    OBVIOUS
  <1>1. Types'
    BY ThreadTypesStep, BufTypesStep, ListTypesStep, LogTypesStep,
        DataTypesStep
    DEF IInv, Types
  <1>2. LockInv' /\ LockSleepers'
    BY LockInvStep, LockSleepersStep DEF IInv
  <1>3. RefInv'
    BY InUseStep, OneBufferStep, RefCountsStep, PinsStep, AllUsedStep
    DEF IInv, RefInv
  <1>4. DataInv'
    BY ValidStep, IOStep, DiskStep DEF IInv, DataInv
  <1> QED
    BY <1>1, <1>2, <1>3, <1>4 DEF IInv

\* The inductive invariant holds throughout.
LEMMA Invariant == Spec => []IInv
  BY InitInv, NextInv, PTL DEF Spec

\* A user of a buffer sees what the last user of its block left there: bio.c
\* never shows a stale or a foreign block, whatever the number of buffers,
\* threads and blocks.
THEOREM CacheCoherent == Spec => []Coherent
  <1>1. IInv => Coherent
    BY HasBuf DEF IInv, DataInv, ValidInv, IOInv, Coherent
  <1> QED
    BY <1>1, Invariant, PTL

\* What bwrite() or the log did not write to the disk yet is in a buffer that
\* a thread holds or the log pins, so recycling loses no change.
THEOREM NothingLost == Spec => []Written
  <1>1. ASSUME IInv PROVE Written
    <2> SUFFICES ASSUME NEW n \in Blocks, disk[n] # content[n], n \notin pinned
                 PROVE  \E p \in Procs :
                          buf[p] \in Cached(n) /\ holder[buf[p]] = p
      BY DEF Written
    <2>1. PICK p \in Procs :
            pc[p] \in {"modified", "write"} /\ blockno[buf[p]] = n
      BY <1>1 DEF IInv, DataInv, DiskInv
    <2>2. buf[p] \in Bufs /\ holder[buf[p]] = p
      BY <1>1, <2>1, HasBuf DEF IInv, LockInv, Owner
    <2> QED
      BY <2>1, <2>2 DEF Cached
  <1> QED
    BY <1>1, Invariant, PTL

\* releasesleep() leaves no thread asleep on a lock that is free.
THEOREM NobodyForgotten == Spec => []LockSleepers
  <1>1. IInv => LockSleepers
    BY DEF IInv
  <1> QED
    BY <1>1, Invariant, PTL

\* With a buffer for each thread and for each block of the log, the panic of
\* bget() is out of reach.
THEOREM NoBufferPanic == Spec => []BuffersSuffice
  <1>1. ASSUME IInv PROVE BuffersSuffice
    <2> SUFFICES ASSUME NEW p \in Procs, pc[p] = "panic"
                 PROVE  Cardinality(Bufs)
                          < Cardinality(Procs) + Cardinality(pinned)
      <3>1. /\ Cardinality(Bufs) \in Nat /\ Cardinality(Procs) \in Nat
            /\ Cardinality(pinned) \in Nat
        BY <1>1, BcacheAssumption, FS_CardinalityType DEF IInv, Types, LogTypes
      <3> QED
        BY <3>1 DEF BuffersSuffice, Panicked
    <2> DEFINE Q == Procs \ {p}
               Q1 == {q \in Q : buf[q] # NoBuf}
               U == {b \in Bufs : \E q \in Procs : buf[q] = b}
               W == {b \in Bufs : blockno[b] \in pinned}
    <2>1. /\ IsFiniteSet(Procs) /\ IsFiniteSet(Bufs) /\ IsFiniteSet(pinned)
          /\ buf \in [Procs -> Bufs \cup {NoBuf}]
      BY <1>1, BcacheAssumption DEF IInv, Types, LogTypes, ThreadTypes
    <2>2. /\ IsFiniteSet(Q) /\ Cardinality(Q) = Cardinality(Procs) - 1
          /\ IsFiniteSet(Q1) /\ Cardinality(Q1) <= Cardinality(Q)
      <3>1. IsFiniteSet(Q) /\ Cardinality(Q) = Cardinality(Procs) - 1
        BY <2>1, FS_RemoveElement
      <3>2. Q1 \in SUBSET Q
        OBVIOUS
      <3> QED
        BY <3>1, <3>2, FS_Subset
    <2>3. buf[p] = NoBuf /\ NoBuf \notin Bufs
      BY <1>1, BcacheAssumption DEF IInv, LockInv
    <2>4. IsFiniteSet(U) /\ Cardinality(U) <= Cardinality(Q1)
      <3> DEFINE f == [q \in Q1 |-> buf[q]]
      <3>1. f \in [Q1 -> U]
        BY <2>1
      <3>2. \A b \in U : \E q \in Q1 : f[q] = b
        BY <2>3
      <3>3. f \in Surjection(Q1, U)
        BY <3>1, <3>2 DEF Surjection
      <3> QED
        BY <2>2, <3>3, FS_Surjection
    <2>5. IsFiniteSet(W) /\ Cardinality(W) <= Cardinality(pinned)
      <3> DEFINE f == [b \in W |-> blockno[b]]
      <3>1. f \in [W -> pinned]
        OBVIOUS
      <3>2. \A b, c \in W : f[b] = f[c] => b = c
        BY <1>1, BcacheAssumption DEF IInv, RefInv, OneBuffer, Types, LogTypes
      <3>3. f \in Injection(W, pinned)
        BY <3>1, <3>2 DEF Injection, IsInjective
      <3> QED
        BY <2>1, <3>3, FS_Injection
    <2>6. Bufs = U \cup W
      <3>1. ASSUME NEW b \in Bufs, b \notin W PROVE b \in U
        <4>1. refcnt[b] # 0
          BY <1>1 DEF IInv, RefInv, AllUsed, Panicked
        <4>2. Users(b) # 0
          BY <1>1, <3>1, <4>1, RefCountsAs DEF IInv, RefInv, Pin
        <4>3. {q \in Procs : buf[q] = b} # {}
          BY <4>2, FS_EmptySet DEF Users
        <4> QED
          BY <4>3
      <3> QED
        BY <3>1
    <2>7. Cardinality(Bufs) <= Cardinality(U) + Cardinality(W)
      <3>1. /\ Cardinality(U) \in Nat /\ Cardinality(W) \in Nat
            /\ IsFiniteSet(U \cap W) /\ Cardinality(U \cap W) \in Nat
        <4>1. U \cap W \in SUBSET U
          OBVIOUS
        <4> QED
          BY <2>4, <2>5, <4>1, FS_Subset, FS_CardinalityType
      <3>2. Cardinality(U \cup W)
              = Cardinality(U) + Cardinality(W) - Cardinality(U \cap W)
        BY <2>4, <2>5, FS_Union
      <3> HIDE DEF U, W
      <3> QED
        BY <2>6, <3>1, <3>2
    <2>8. /\ Cardinality(Bufs) \in Nat /\ Cardinality(Procs) \in Nat
          /\ Cardinality(pinned) \in Nat /\ Cardinality(Q) \in Nat
          /\ Cardinality(Q1) \in Nat /\ Cardinality(U) \in Nat
          /\ Cardinality(W) \in Nat
      BY <2>1, <2>2, <2>4, <2>5, FS_CardinalityType
    <2> HIDE DEF Q, Q1, U, W
    <2> QED
      BY <2>2, <2>4, <2>5, <2>7, <2>8
  <1> QED
    BY <1>1, Invariant, PTL

\* What bio.c promises to the driver: a thread hands virtio_disk_rw() or
\* changes only a buffer for which nobody has a request under way.  So the
\* conditions that DiskIO puts on its users hold wherever Bcache needs them.
OneRequest ==
  \A p, q \in Procs :
    \/ pc[p] \in {"using", "modified"}
    \/ pc[p] = "lock" /\ Acquiresleep(buf[p])
    => req[p] = None /\ req[q].b # buf[p]

\* The sleep locks of the buffers keep that promise.
THEOREM ContractKept == Spec => []OneRequest
  <1>1. IInv => OneRequest
    <2> SUFFICES ASSUME IInv, NEW p \in Procs, NEW q \in Procs,
                        \/ pc[p] \in {"using", "modified"}
                        \/ pc[p] = "lock" /\ Acquiresleep(buf[p])
                 PROVE  req[p] = None /\ req[q].b # buf[p]
      BY DEF OneRequest
    <2>1. buf[p] \in Bufs /\ buf[p] # NoBuf
      BY HasBuf, BcacheAssumption DEF IInv
    <2>2. req[p] = None
      BY DEF IInv, DataInv, IOInv
    <2>3. CASE pc[q] \notin {"read", "write"}
      BY <2>1, <2>2, <2>3 DEF IInv, DataInv, IOInv, None
    <2>4. CASE pc[q] \in {"read", "write"}
      <3>1. req[q].b = buf[q] /\ holder[buf[q]] = q
        BY <2>4 DEF IInv, DataInv, IOInv, LockInv, Owner
      <3>2. holder[buf[p]] \in {p, NoProc}
        BY DEF IInv, LockInv, Owner, Acquiresleep
      <3>3. p # q /\ q # NoProc
        BY <2>4, BcacheAssumption
      <3> QED
        BY <2>2, <3>1, <3>2, <3>3
    <2> QED
      BY <2>3, <2>4
  <1> QED
    BY <1>1, Invariant, PTL

\* bget() never caches a block twice, and b->refcnt is the number of threads
\* between bget() and brelse() plus the log's pin.
THEOREM References == Spec => [](OneBuffer /\ RefCounts)
  <1>1. IInv => OneBuffer /\ RefCounts
    BY DEF IInv, RefInv
  <1> QED
    BY <1>1, Invariant, PTL
=============================================================================
