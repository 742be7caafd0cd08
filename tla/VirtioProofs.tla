---------------------------- MODULE VirtioProofs ----------------------------
(***************************************************************************)
(* Proofs about Virtio, for every set of threads and blocks and every size *)
(* of the rings.  RingInv follows a request from the descriptors that are  *)
(* allocated for it through the avail ring, the device and the used ring   *)
(* to the thread that waits for it; the invariant of the run and the       *)
(* refinement of DiskIO follow from it.                                    *)
(***************************************************************************)
EXTENDS Virtio, FiniteSetTheorems, TLAPS

-----------------------------------------------------------------------------
(* The inductive invariant.                                                *)

\* Types.  desc is left open but for its domain: what the descriptors in use
\* hold is in ReqInv.
Types ==
  /\ free \in [Descs -> 0..1]
  /\ desc = [i \in Descs |-> desc[i]]
  /\ info \in [Descs -> [b : Procs \cup {NoBuf}, status : {0, 255}]]
  /\ avail \subseteq Descs
  /\ used \in Seq(Descs)
  /\ vlock \in {NoProc, "intr", "leave"}
  /\ pc \in [Procs -> {"idle", "alloc", "nodesc", "sleep", "awake"}]
  /\ arg \in [Procs -> [write : 0..1, n : Blocks \cup {0},
                        head : Descs \cup {NoHead}]]
  /\ owned \in [Procs -> 0..1]
  /\ data \in [Procs -> Values]
  /\ disk \in [Blocks -> Values]
  /\ due \in 0..1 /\ isr \in 0..1

\* Where a thread is, and what it has asked for.
PcInv(p) ==
  /\ pc[p] \in {"sleep", "awake"} <=> arg[p].head # NoHead
  /\ pc[p] = "sleep" => owned[p] = 1
  /\ pc[p] = "idle" => arg[p] = NoArg
  /\ pc[p] # "idle" => arg[p].n \in Blocks
  /\ owned[p] = 1 => arg[p].head # NoHead

\* The three descriptors of the request with head h, for thread p.
ChainInv(p, h) ==
  /\ h \in Descs /\ desc[h].next \in Descs
  /\ desc[desc[h].next].next \in Descs
  /\ desc[h].addr = [write |-> arg[p].write, sector |-> arg[p].n]
  /\ desc[desc[h].next].addr = p
  /\ info[h].b = p

\* The request is with the device, in the used ring, or seen by the handler.
StageInv(p, h) ==
  \/ /\ h \in avail /\ h \notin Range(used)
     /\ owned[p] = 1 /\ info[h].status = 255
  \/ /\ h \notin avail /\ h \in Range(used)
     /\ owned[p] = 1 /\ info[h].status = 0
  \/ /\ h \notin avail /\ h \notin Range(used)
     /\ owned[p] = 0 /\ info[h].status = 0

ReqInv == \A p \in Waiting : ChainInv(p, arg[p].head) /\ StageInv(p, arg[p].head)

\* The chains take the descriptors that are not free, each one once.
FreeInv ==
  /\ \A i \in Descs : free[i] = 0 <=> \E p \in Waiting : i \in ChainOf(arg[p].head)
  /\ \A p, q \in Waiting :
       p # q => ChainOf(arg[p].head) \cap ChainOf(arg[q].head) = {}

\* Every ring entry is the head of a request, and no request is in the used
\* ring twice.
EntryInv ==
  /\ \A h \in avail \cup Range(used) : \E p \in Waiting : arg[p].head = h
  /\ \A i, j \in 1..Len(used) : used[i] = used[j] => i = j

\* A completion will be looked at.
IntrInv == used # <<>> => isr = 1 \/ due = 1 \/ vlock = "intr"

RingInv ==
  /\ Types
  /\ \A p \in Procs : PcInv(p)
  /\ ReqInv /\ FreeInv /\ EntryInv /\ IntrInv

-----------------------------------------------------------------------------
(* Descriptors and ring entries.                                           *)

\* alloc_desc() finds the lowest free descriptor when there is one: a set of
\* naturals that is not empty has a least element.
LEMMA Lowest ==
  ASSUME NEW S, S \subseteq Nat, S # {}
  PROVE  alloc_desc(S) \in S
  <1>1. \E x \in S : \A y \in S : ~ (<<y, x>> \in OpToRel(<, Nat))
    BY NatLessThanWellFounded, WFMin, Zenon
  <1>2. PICK x \in S : \A y \in S : ~ (<<y, x>> \in OpToRel(<, Nat))
    BY <1>1
  <1>3. ASSUME NEW y \in S PROVE x <= y
    <2>1. x \in Nat /\ y \in Nat
      OBVIOUS
    <2>2. ~(y < x)
      BY <1>2, <2>1 DEF OpToRel
    <2> QED BY <2>1, <2>2
  <1>4. \E z \in S : \A y \in S : z <= y
    BY <1>3
  <1> QED BY <1>4 DEF alloc_desc

\* With three free descriptors alloc3_desc() returns three that differ.
LEMMA Allocated ==
  ASSUME VirtioAssumption, Cardinality(FreeDescs) >= 3
  PROVE  \E i0, i1, i2 \in FreeDescs :
           /\ i0 # i1 /\ i0 # i2 /\ i1 # i2
           /\ alloc3_desc = <<i0, i1, i2>>
  <1> DEFINE i0 == alloc_desc(FreeDescs)
             i1 == alloc_desc(FreeDescs \ {i0})
             i2 == alloc_desc(FreeDescs \ {i0, i1})
  <1>0. /\ FreeDescs \subseteq Nat /\ FreeDescs \subseteq Descs
        /\ NUM \in Nat
    BY DEF FreeDescs, Descs, VirtioAssumption
  <1>1. IsFiniteSet(FreeDescs)
    <2>1. IsFiniteSet(Descs)
      BY <1>0, FS_Interval, 0 \in Int, NUM - 1 \in Int DEF Descs
    <2> QED BY <1>0, <2>1, FS_Subset
  <1>2. Cardinality(FreeDescs) \in Nat
    BY <1>1, FS_CardinalityType
  <1>3. FreeDescs # {}
    BY <1>2, FS_EmptySet
  <1>4. i0 \in FreeDescs
    BY <1>0, <1>3, Lowest
  <1>5. /\ IsFiniteSet(FreeDescs \ {i0})
        /\ Cardinality(FreeDescs \ {i0}) = Cardinality(FreeDescs) - 1
    BY <1>1, <1>4, FS_RemoveElement
  <1>6. FreeDescs \ {i0} # {}
    BY <1>2, <1>5, FS_EmptySet
  <1>7. i1 \in FreeDescs \ {i0}
    BY <1>0, <1>6, Lowest
  <1>8. /\ IsFiniteSet((FreeDescs \ {i0}) \ {i1})
        /\ Cardinality((FreeDescs \ {i0}) \ {i1})
             = Cardinality(FreeDescs \ {i0}) - 1
    BY <1>5, <1>7, FS_RemoveElement
  <1>9. (FreeDescs \ {i0}) \ {i1} # {}
    <2>1. Cardinality((FreeDescs \ {i0}) \ {i1}) # 0
      BY <1>2, <1>5, <1>8
    <2> QED BY <2>1, FS_EmptySet
  <1>10. FreeDescs \ {i0, i1} # {}
    BY <1>9
  <1>11. i2 \in FreeDescs \ {i0, i1}
    BY <1>0, <1>10, Lowest
  <1>12. alloc3_desc = <<i0, i1, i2>>
    BY DEF alloc3_desc
  <1>13. /\ i0 \in FreeDescs /\ i1 \in FreeDescs /\ i2 \in FreeDescs
         /\ i0 # i1 /\ i0 # i2 /\ i1 # i2
    BY <1>4, <1>7, <1>11
  <1> HIDE DEF i0, i1, i2
  <1> QED BY <1>12, <1>13

\* The device adds an entry to the used ring.
LEMMA Reported ==
  ASSUME NEW s \in Seq(Descs), NEW h \in Descs, h \notin Range(s),
         \A i, j \in 1..Len(s) : s[i] = s[j] => i = j
  PROVE  /\ Append(s, h) \in Seq(Descs)
         /\ Range(Append(s, h)) = Range(s) \cup {h}
         /\ \A i, j \in 1..Len(Append(s, h)) :
              Append(s, h)[i] = Append(s, h)[j] => i = j
  <1> DEFINE t == Append(s, h)
  <1>1. /\ t \in Seq(Descs) /\ Len(t) = Len(s) + 1 /\ Len(s) \in Nat
        /\ \A i \in 1..Len(s) : t[i] = s[i]
        /\ t[Len(s) + 1] = h
    OBVIOUS
  <1>2. DOMAIN s = 1..Len(s) /\ DOMAIN t = 1..Len(t)
    BY <1>1
  <1>3. \A i \in 1..Len(s) : s[i] # h
    BY <1>2 DEF Range
  <1> HIDE DEF t
  <1>4. \A i \in 1..Len(t) : i \in 1..Len(s) \/ i = Len(s) + 1
    BY <1>1
  <1>5. Range(t) = Range(s) \cup {h}
    <2>1. Range(t) \subseteq Range(s) \cup {h}
      BY <1>1, <1>2, <1>4 DEF Range
    <2>2. \A i \in 1..Len(s) : i \in 1..Len(t)
      BY <1>1
    <2>3. Len(s) + 1 \in 1..Len(t)
      BY <1>1
    <2>4. Range(s) \cup {h} \subseteq Range(t)
      BY <1>1, <1>2, <2>2, <2>3 DEF Range
    <2> QED BY <2>1, <2>4
  <1>6. \A i, j \in 1..Len(t) : t[i] = t[j] => i = j
    BY <1>1, <1>3, <1>4
  <1> QED BY <1>1, <1>5, <1>6 DEF t

\* The handler takes the first entry of the used ring.
LEMMA Looked ==
  ASSUME NEW s \in Seq(Descs), s # <<>>,
         \A i, j \in 1..Len(s) : s[i] = s[j] => i = j
  PROVE  /\ Tail(s) \in Seq(Descs)
         /\ Head(s) \in Range(s)
         /\ Range(Tail(s)) = Range(s) \ {Head(s)}
         /\ \A i, j \in 1..Len(Tail(s)) : Tail(s)[i] = Tail(s)[j] => i = j
  <1> DEFINE t == Tail(s)
  <1>1. /\ t \in Seq(Descs) /\ Len(t) = Len(s) - 1 /\ Len(s) \in Nat
        /\ Len(s) >= 1 /\ Head(s) = s[1]
        /\ \A i \in 1..Len(t) : t[i] = s[i + 1]
    OBVIOUS
  <1>2. DOMAIN s = 1..Len(s) /\ DOMAIN t = 1..Len(t)
    BY <1>1
  <1> HIDE DEF t
  <1>3. \A i \in 1..Len(t) : i + 1 \in 1..Len(s) /\ i + 1 # 1
    BY <1>1
  <1>4. \A i \in 1..Len(s) : i = 1 \/ (i - 1 \in 1..Len(t) /\ (i - 1) + 1 = i)
    BY <1>1
  <1>5. 1 \in 1..Len(s)
    BY <1>1
  <1>6. Range(t) \subseteq Range(s) \ {s[1]}
    BY <1>1, <1>2, <1>3, <1>5 DEF Range
  <1>7. Range(s) \ {s[1]} \subseteq Range(t)
    <2> SUFFICES ASSUME NEW i \in 1..Len(s), s[i] # s[1]
                 PROVE  s[i] \in Range(t)
      BY <1>2 DEF Range
    <2>1. i - 1 \in 1..Len(t) /\ t[i - 1] = s[i]
      BY <1>1, <1>4
    <2> QED BY <1>2, <2>1 DEF Range
  <1>8. \A i, j \in 1..Len(t) : t[i] = t[j] => i = j
    <2> SUFFICES ASSUME NEW i \in 1..Len(t), NEW j \in 1..Len(t), t[i] = t[j]
                 PROVE  i = j
      OBVIOUS
    <2>1. i + 1 = j + 1
      BY <1>1, <1>3
    <2> QED BY <2>1, <1>1
  <1>9. s[1] \in Range(s)
    BY <1>2, <1>5 DEF Range
  <1> QED BY <1>1, <1>6, <1>7, <1>8, <1>9 DEF t

\* No entry of the used ring is overwritten: it has at most NUM.
LEMMA RingFits ==
  ASSUME VirtioAssumption, NEW s \in Seq(Descs),
         \A i, j \in 1..Len(s) : s[i] = s[j] => i = j
  PROVE  Len(s) <= NUM
  <1>1. /\ NUM \in Nat /\ NUM >= 3 /\ Len(s) \in Nat /\ DOMAIN s = 1..Len(s)
        /\ s \in [1..Len(s) -> Descs]
    BY DEF VirtioAssumption
  <1>2. s \in Injection(1..Len(s), Descs)
    BY <1>1 DEF Injection, IsInjective
  <1>3. 0 \in Int /\ NUM - 1 \in Int /\ 1 \in Int /\ Len(s) \in Int
    BY <1>1
  <1>4. /\ IsFiniteSet(Descs)
        /\ Cardinality(Descs) = IF 0 > NUM - 1 THEN 0 ELSE (NUM - 1) - 0 + 1
    BY <1>3, FS_Interval DEF Descs
  <1>5. Cardinality(1..Len(s)) = IF 1 > Len(s) THEN 0 ELSE Len(s) - 1 + 1
    BY <1>3, FS_Interval
  <1>6. Cardinality(1..Len(s)) <= Cardinality(Descs)
    BY <1>2, <1>4, FS_Injection
  <1> QED BY <1>1, <1>4, <1>5, <1>6

-----------------------------------------------------------------------------
(* Steps that leave the requests alone.                                    *)

\* A step that changes neither descriptors, rings nor the requests of the
\* threads that wait keeps what is said of them.
LEMMA RequestsKept ==
  ASSUME ReqInv, FreeInv, EntryInv,
         UNCHANGED <<free, desc, info, avail, used, owned>>,
         Waiting' = Waiting, \A q \in Waiting : arg'[q] = arg[q]
  PROVE  ReqInv' /\ FreeInv' /\ EntryInv'
  <1>1. ASSUME NEW q \in Waiting PROVE ChainInv(q, arg[q].head)'
    BY <1>1 DEF ReqInv, ChainInv
  <1>2. ASSUME NEW q \in Waiting PROVE StageInv(q, arg[q].head)'
    BY <1>2 DEF ReqInv, StageInv
  <1>3. ReqInv'
    BY <1>1, <1>2 DEF ReqInv
  <1>4. ASSUME NEW q \in Waiting
        PROVE  ChainOf(arg[q].head)' = ChainOf(arg[q].head)
    BY <1>4 DEF ChainOf
  <1>5. FreeInv'
    BY <1>4 DEF FreeInv
  <1>6. EntryInv'
    BY DEF EntryInv
  <1> QED BY <1>3, <1>5, <1>6

\* The same for the descriptors alone.
LEMMA ChainsKept ==
  ASSUME FreeInv, UNCHANGED <<free, desc, arg>>
  PROVE  FreeInv'
  <1>1. Waiting' = Waiting
    BY DEF Waiting
  <1>2. ASSUME NEW q \in Waiting
        PROVE  ChainOf(arg[q].head)' = ChainOf(arg[q].head)
    BY DEF ChainOf
  <1> QED BY <1>1, <1>2 DEF FreeInv

\* A thread calls virtio_disk_rw().
LEMMA CallStep ==
  ASSUME RingInv, NEW p \in Procs, NEW n \in Blocks, Call(p, n)
  PROVE  RingInv'
  <1> USE DEF RingInv
  <1>1. UNCHANGED <<free, desc, info, vlock, avail, used, data, owned, disk, due, isr>>
    BY DEF Call, driver, rings, device
  <1>2. PICK a : /\ a = [NoArg EXCEPT !.n = n,
                                      !.write = IF p \in Writers THEN 1 ELSE 0]
                 /\ arg' = [arg EXCEPT ![p] = a]
    BY DEF Call
  <1>a. a = [write |-> IF p \in Writers THEN 1 ELSE 0, n |-> n, head |-> NoHead]
    BY <1>2 DEF NoArg
  <1>3. pc[p] = "idle" /\ pc' = [pc EXCEPT ![p] = "alloc"]
    BY DEF Call, Goto
  <1>4. a \in [write : 0..1, n : Blocks \cup {0}, head : Descs \cup {NoHead}]
    BY <1>a
  <1>5. Types'
    BY <1>1, <1>2, <1>3, <1>4 DEF Types
  <1>6. arg[p].head = NoHead
    BY <1>3 DEF PcInv, NoArg
  <1>7. ASSUME NEW q \in Procs PROVE PcInv(q)'
    <2>1. CASE q = p
      <3>1. arg'[p] = a /\ pc'[p] = "alloc" /\ owned'[p] = owned[p]
        BY <1>1, <1>2, <1>3 DEF Types
      <3>2. owned[p] # 1
        BY <1>6 DEF PcInv
      <3> QED BY <2>1, <3>1, <3>2, <1>a DEF PcInv
    <2>2. CASE q # p
      <3>1. arg'[q] = arg[q] /\ pc'[q] = pc[q] /\ owned'[q] = owned[q]
        BY <2>2, <1>1, <1>2, <1>3 DEF Types
      <3> QED BY <3>1 DEF PcInv
    <2> QED BY <2>1, <2>2
  <1>8. /\ Waiting' = Waiting
        /\ \A q \in Waiting : arg'[q] = arg[q]
    <2>1. arg'[p] = a
      BY <1>2 DEF Types
    <2>3. arg'[p].head = NoHead
      BY <2>1, <1>a
    <2>2. \A q \in Procs : q # p => arg'[q] = arg[q]
      BY <1>2 DEF Types
    <2> QED BY <2>3, <2>2, <1>6 DEF Waiting
  <1>9. ReqInv' /\ FreeInv' /\ EntryInv'
    BY <1>1, <1>8, RequestsKept
  <1>10. IntrInv'
    BY <1>1 DEF IntrInv
  <1> QED BY <1>5, <1>7, <1>9, <1>10

\* A thread finds too few descriptors, goes back to sleep, or is woken by
\* kkill().
LEMMA SleepStep ==
  ASSUME RingInv, NEW p \in Procs, NoDescs(p) \/ Resleep(p) \/ KillWakes(p)
  PROVE  RingInv'
  <1> USE DEF RingInv
  <1>1. UNCHANGED <<free, desc, info, vlock, avail, used, arg, data, owned,
                    disk, due, isr>>
    BY DEF NoDescs, Resleep, KillWakes, driver, rings, device
  <1>2. /\ pc' \in [Procs -> {"idle", "alloc", "nodesc", "sleep", "awake"}]
        /\ \A q \in Procs :
             \/ pc'[q] = pc[q]
             \/ pc[q] \in {"alloc", "nodesc"} /\ pc'[q] \in {"alloc", "nodesc"}
             \/ pc[q] = "awake" /\ pc'[q] = "sleep" /\ owned[q] = 1
             \/ pc[q] = "sleep" /\ pc'[q] = "awake"
    <2>1. CASE NoDescs(p)
      <3>1. CASE FreeDescs = {}
        BY <2>1, <3>1 DEF NoDescs, Types
      <3>2. CASE FreeDescs # {}
        <4>1. PICK f : /\ f = [q \in Procs |-> IF pc[q] = "nodesc" THEN "alloc"
                                                                  ELSE pc[q]]
                       /\ pc' = [f EXCEPT ![p] = "nodesc"]
                       /\ pc[p] = "alloc"
          BY <2>1, <3>2 DEF NoDescs, DescWaiters
        <4> QED BY <4>1 DEF Types
      <3> QED BY <3>1, <3>2
    <2>2. CASE Resleep(p)
      BY <2>2 DEF Resleep, Goto, IsOwned, Types
    <2>3. CASE KillWakes(p)
      <3>1. \/ pc[p] = "sleep" /\ pc' = [pc EXCEPT ![p] = "awake"]
            \/ pc[p] = "nodesc" /\ pc' = [pc EXCEPT ![p] = "alloc"]
        BY <2>3 DEF KillWakes, Goto
      <3>2. pc \in [Procs -> {"idle", "alloc", "nodesc", "sleep", "awake"}]
        BY DEF Types
      <3> HIDE DEF RingInv
      <3>3. CASE pc[p] = "sleep" /\ pc' = [pc EXCEPT ![p] = "awake"]
        BY <3>2, <3>3
      <3>4. CASE pc[p] = "nodesc" /\ pc' = [pc EXCEPT ![p] = "alloc"]
        BY <3>2, <3>4
      <3> QED BY <3>1, <3>3, <3>4
    <2> QED BY <2>1, <2>2, <2>3
  <1>3. Types'
    BY <1>1, <1>2 DEF Types
  <1>4. ASSUME NEW q \in Procs PROVE PcInv(q)'
    BY <1>1, <1>2 DEF PcInv
  <1>5. Waiting' = Waiting
    BY <1>1 DEF Waiting
  <1>6. ReqInv' /\ FreeInv' /\ EntryInv'
    BY <1>1, <1>5, RequestsKept
  <1>7. IntrInv'
    BY <1>1 DEF IntrInv
  <1> QED BY <1>3, <1>4, <1>6, <1>7

\* The handler starts, has seen the last entry or ends, or the device
\* interrupts.  The acknowledgement comes before the ring is looked at, so an
\* entry that is added later has an interrupt of its own.
LEMMA HandlerStep ==
  ASSUME RingInv, Intr \/ IntrEmpty \/ IntrExit \/ DeviceInterrupt
  PROVE  RingInv'
  <1> USE DEF RingInv
  <1>1. UNCHANGED <<free, desc, info, avail, used, pc, arg, data, owned, disk>>
    BY DEF Intr, IntrEmpty, IntrExit, DeviceInterrupt, driver, rings, device
  <1>2. /\ vlock' \in {NoProc, "intr", "leave"}
        /\ due' \in 0..1 /\ isr' \in 0..1
        /\ IntrInv'
    BY DEF Intr, IntrEmpty, IntrExit, DeviceInterrupt, driver, rings, device,
           AckedAt, Types, IntrInv
  <1>3. Types'
    BY <1>1, <1>2 DEF Types
  <1>4. ASSUME NEW q \in Procs PROVE PcInv(q)'
    BY <1>1 DEF PcInv
  <1>5. Waiting' = Waiting
    BY <1>1 DEF Waiting
  <1>6. ReqInv' /\ FreeInv' /\ EntryInv'
    BY <1>1, <1>5, RequestsKept
  <1> QED BY <1>2, <1>3, <1>4, <1>6

-----------------------------------------------------------------------------
(* A request and its descriptors.                                          *)

\* What holds of a thread that waits for a request.
LEMMA Request3 ==
  ASSUME RingInv, NEW p \in Procs, arg[p].head # NoHead
  PROVE  /\ p \in Waiting
         /\ ChainInv(p, arg[p].head) /\ StageInv(p, arg[p].head)
         /\ ChainOf(arg[p].head) \subseteq Descs
         /\ \A i \in ChainOf(arg[p].head) : free[i] = 0
         /\ \A q \in Waiting : q # p =>
              /\ ChainOf(arg[p].head) \cap ChainOf(arg[q].head) = {}
              /\ arg[p].head # arg[q].head
         /\ arg[p].n \in Blocks
  <1> USE DEF RingInv
  <1>1. p \in Waiting
    BY DEF Waiting
  <1>2. ChainInv(p, arg[p].head) /\ StageInv(p, arg[p].head)
    BY <1>1 DEF ReqInv
  <1>3. ChainOf(arg[p].head) \subseteq Descs
    BY <1>2 DEF ChainInv, ChainOf
  <1>4. \A i \in ChainOf(arg[p].head) : free[i] = 0
    BY <1>1, <1>3 DEF FreeInv
  <1>5. \A q \in Waiting : arg[q].head \in ChainOf(arg[q].head)
    BY DEF ChainOf
  <1>6. \A q \in Waiting : q # p =>
          /\ ChainOf(arg[p].head) \cap ChainOf(arg[q].head) = {}
          /\ arg[p].head # arg[q].head
    BY <1>1, <1>5 DEF FreeInv
  <1>7. arg[p].n \in Blocks
    BY DEF PcInv
  <1> QED BY <1>1, <1>2, <1>3, <1>4, <1>6, <1>7

\* What Submit() does: three free descriptors are linked, and their head goes
\* into the avail ring.
LEMMA SubmitDoes ==
  ASSUME VirtioAssumption, RingInv, NEW p \in Procs, Submit(p)
  PROVE  \E i0, i1, i2 \in Descs :
           /\ i0 # i1 /\ i0 # i2 /\ i1 # i2
           /\ free[i0] = 1 /\ free[i1] = 1 /\ free[i2] = 1
           /\ free' = [i \in Descs |-> IF i \in {i0, i1, i2} THEN 0 ELSE free[i]]
           /\ desc' = [i \in Descs |-> desc'[i]]
           /\ \A i \in Descs \ {i0, i1, i2} : desc'[i] = desc[i]
           /\ desc'[i0].addr = [write |-> arg[p].write, sector |-> arg[p].n]
           /\ desc'[i0].next = i1 /\ desc'[i1].next = i2
           /\ desc'[i1].addr = p
           /\ info' = [info EXCEPT ![i0] = [b |-> p, status |-> 255]]
           /\ avail' = avail \cup {i0}
           /\ arg' = [arg EXCEPT ![p].head = i0]
  <1> USE DEF RingInv
  <1>1. PICK i0, i1, i2 \in FreeDescs :
           /\ i0 # i1 /\ i0 # i2 /\ i1 # i2
           /\ alloc3_desc = <<i0, i1, i2>>
    BY Allocated DEF Submit
  <1>2. /\ i0 \in Descs /\ i1 \in Descs /\ i2 \in Descs
        /\ free[i0] = 1 /\ free[i1] = 1 /\ free[i2] = 1
    BY DEF FreeDescs
  <1>3. PICK d : /\ d = <<i0, i1, i2>>
                 /\ free' = [i \in Descs |-> IF i \in Range(d) THEN 0 ELSE free[i]]
                 /\ desc' = Chain(d, p)
                 /\ info' = [info EXCEPT ![d[1]] = [b |-> p, status |-> 255]]
                 /\ avail' = avail \cup {d[1]}
                 /\ arg' = [arg EXCEPT ![p].head = d[1]]
    BY <1>1 DEF Submit
  <1>4. d[1] = i0 /\ d[2] = i1 /\ d[3] = i2 /\ DOMAIN d = 1..3
    BY <1>3
  <1>5. Range(d) = {i0, i1, i2}
    <2>1. 1..3 = {1, 2, 3}
      OBVIOUS
    <2> QED BY <1>4, <2>1 DEF Range
  <1>6. PICK h, b, s :
          /\ h = [addr |-> [write |-> arg[p].write, sector |-> arg[p].n],
                  write |-> 0, next |-> i1]
          /\ b = [addr |-> p, write |-> 1 - arg[p].write, next |-> i2]
          /\ s = [addr |-> "status", write |-> 1, next |-> NoHead]
          /\ desc' = [desc EXCEPT ![i0] = h, ![i1] = b, ![i2] = s]
    BY <1>3, <1>4 DEF Chain
  <1>7. DOMAIN desc = Descs
    BY DEF Types
  <1>8. /\ desc' = [i \in Descs |-> desc'[i]]
        /\ desc'[i0] = h /\ desc'[i1] = b
        /\ \A i \in Descs \ {i0, i1, i2} : desc'[i] = desc[i]
    BY <1>1, <1>2, <1>6, <1>7
  <1>9. /\ desc'[i0].addr = [write |-> arg[p].write, sector |-> arg[p].n]
        /\ desc'[i0].next = i1 /\ desc'[i1].next = i2 /\ desc'[i1].addr = p
    BY <1>6, <1>8
  <1>10. /\ free' = [i \in Descs |-> IF i \in {i0, i1, i2} THEN 0 ELSE free[i]]
         /\ info' = [info EXCEPT ![i0] = [b |-> p, status |-> 255]]
         /\ avail' = avail \cup {i0}
         /\ arg' = [arg EXCEPT ![p].head = i0]
    BY <1>3, <1>4, <1>5
  <1> HIDE DEF RingInv
  <1> QED BY <1>1, <1>2, <1>8, <1>9, <1>10

\* A thread submits its request.  No descriptor of another request is free, so
\* the other chains stay what they are.
LEMMA SubmitStep ==
  ASSUME VirtioAssumption, RingInv, NEW p \in Procs, Submit(p)
  PROVE  RingInv'
  <1> USE DEF RingInv
  <1>1. PICK i0, i1, i2 \in Descs :
           /\ i0 # i1 /\ i0 # i2 /\ i1 # i2
           /\ free[i0] = 1 /\ free[i1] = 1 /\ free[i2] = 1
           /\ free' = [i \in Descs |-> IF i \in {i0, i1, i2} THEN 0 ELSE free[i]]
           /\ desc' = [i \in Descs |-> desc'[i]]
           /\ \A i \in Descs \ {i0, i1, i2} : desc'[i] = desc[i]
           /\ desc'[i0].addr = [write |-> arg[p].write, sector |-> arg[p].n]
           /\ desc'[i0].next = i1 /\ desc'[i1].next = i2
           /\ desc'[i1].addr = p
           /\ info' = [info EXCEPT ![i0] = [b |-> p, status |-> 255]]
           /\ avail' = avail \cup {i0}
           /\ arg' = [arg EXCEPT ![p].head = i0]
    BY SubmitDoes
  <1>2. /\ pc[p] = "alloc" /\ pc' = [pc EXCEPT ![p] = "sleep"]
        /\ owned' = [owned EXCEPT ![p] = 1]
        /\ UNCHANGED <<used, vlock, data, disk, due, isr>>
    BY DEF Submit, Goto, device
  <1>3. i0 # NoHead
    BY DEF Descs, NoHead, VirtioAssumption
  <1>4. /\ arg'[p].head = i0 /\ arg'[p].n = arg[p].n
        /\ arg'[p].write = arg[p].write
        /\ \A q \in Procs : q # p => arg'[q] = arg[q]
    BY <1>1 DEF Types
  <1>5. arg[p].head = NoHead /\ arg[p].n \in Blocks /\ p \notin Waiting
    BY <1>2 DEF PcInv, Waiting
  <1>6. Waiting' = Waiting \cup {p}
    BY <1>3, <1>4, <1>5 DEF Waiting
  <1>7. Types'
    <2>1. [b |-> p, status |-> 255] \in [b : Procs \cup {NoBuf}, status : {0, 255}]
      OBVIOUS
    <2>2. info' \in [Descs -> [b : Procs \cup {NoBuf}, status : {0, 255}]]
      <3>1. PICK r : /\ r = [b |-> p, status |-> 255]
                     /\ info' = [info EXCEPT ![i0] = r]
        BY <1>1
      <3>2. r \in [b : Procs \cup {NoBuf}, status : {0, 255}]
        BY <3>1, <2>1
      <3> QED BY <3>1, <3>2 DEF Types
    <2>3. arg' \in [Procs -> [write : 0..1, n : Blocks \cup {0},
                              head : Descs \cup {NoHead}]]
      <3>1. PICK a : /\ a = [arg[p] EXCEPT !.head = i0]
                     /\ arg' = [arg EXCEPT ![p] = a]
        BY <1>1
      <3>2. arg[p] \in [write : 0..1, n : Blocks \cup {0},
                        head : Descs \cup {NoHead}]
        BY DEF Types
      <3>3. a \in [write : 0..1, n : Blocks \cup {0}, head : Descs \cup {NoHead}]
        BY <3>1, <3>2
      <3> QED BY <3>1, <3>3 DEF Types
    <2>4. free' \in [Descs -> 0..1]
      BY <1>1 DEF Types
    <2>5. avail' \subseteq Descs
      BY <1>1 DEF Types
    <2>6. /\ pc' \in [Procs -> {"idle", "alloc", "nodesc", "sleep", "awake"}]
          /\ owned' \in [Procs -> 0..1]
      BY <1>2 DEF Types
    <2> QED BY <1>1, <1>2, <2>2, <2>3, <2>4, <2>5, <2>6 DEF Types
  <1>8. ASSUME NEW q \in Procs PROVE PcInv(q)'
    <2>1. CASE q = p
      <3>1. pc'[p] = "sleep" /\ owned'[p] = 1
        BY <1>2 DEF Types
      <3> QED BY <2>1, <3>1, <1>3, <1>4, <1>5 DEF PcInv
    <2>2. CASE q # p
      <3>1. pc'[q] = pc[q] /\ owned'[q] = owned[q] /\ arg'[q] = arg[q]
        BY <1>2, <1>4, <2>2 DEF Types
      <3> QED BY <3>1 DEF PcInv
    <2> QED BY <2>1, <2>2
  <1>9. ASSUME NEW q \in Waiting
        PROVE  /\ q \in Procs /\ q # p /\ arg'[q] = arg[q]
               /\ ChainOf(arg[q].head)' = ChainOf(arg[q].head)
               /\ ChainOf(arg[q].head) \cap {i0, i1, i2} = {}
               /\ ChainInv(q, arg[q].head)'
               /\ StageInv(q, arg[q].head)'
    <2>1. /\ q \in Procs /\ q # p /\ arg'[q] = arg[q]
          /\ arg[q].head # NoHead
      BY <1>9, <1>4, <1>5 DEF Waiting
    <2>2. /\ ChainInv(q, arg[q].head) /\ StageInv(q, arg[q].head)
          /\ ChainOf(arg[q].head) \subseteq Descs
          /\ \A i \in ChainOf(arg[q].head) : free[i] = 0
      BY <2>1, Request3
    <2>3. ChainOf(arg[q].head) \cap {i0, i1, i2} = {}
      BY <2>2, <1>1
    <2>4. /\ arg[q].head \in Descs \ {i0, i1, i2}
          /\ desc[arg[q].head].next \in Descs \ {i0, i1, i2}
      BY <2>2, <2>3 DEF ChainOf
    <2>5. /\ desc'[arg[q].head] = desc[arg[q].head]
          /\ desc'[desc[arg[q].head].next] = desc[desc[arg[q].head].next]
          /\ info'[arg[q].head] = info[arg[q].head]
      BY <2>4, <1>1 DEF Types
    <2>6. ChainOf(arg[q].head)' = ChainOf(arg[q].head)
      BY <2>1, <2>5 DEF ChainOf
    <2>7. ChainInv(q, arg[q].head)'
      BY <2>1, <2>2, <2>5 DEF ChainInv
    <2>8. owned'[q] = owned[q] /\ (arg[q].head \in avail' <=> arg[q].head \in avail)
      BY <2>1, <2>4, <1>1, <1>2, SMTT(30) DEF Types
    <2>9. StageInv(q, arg[q].head)'
      BY <2>1, <2>2, <2>5, <2>8, <1>2 DEF StageInv
    <2> QED BY <2>1, <2>3, <2>6, <2>7, <2>9
  <1>10. ChainOf(arg[p].head)' = {i0, i1, i2}
    BY <1>1, <1>4 DEF ChainOf
  <1>11. i0 \notin Range(used)
    <2>1. ASSUME NEW q \in Waiting, arg[q].head = i0 PROVE FALSE
      BY <1>9, <2>1 DEF ChainOf
    <2> QED BY <2>1 DEF EntryInv
  <1>12. ChainInv(p, arg[p].head)' /\ StageInv(p, arg[p].head)'
    <2>1. info'[i0].b = p /\ info'[i0].status = 255 /\ owned'[p] = 1
      BY <1>1, <1>2 DEF Types
    <2>2. ChainInv(p, arg[p].head)'
      BY <2>1, <1>1, <1>4 DEF ChainInv
    <2>3. StageInv(p, arg[p].head)'
      BY <2>1, <1>1, <1>2, <1>4, <1>11 DEF StageInv
    <2> QED BY <2>2, <2>3
  <1>13. ReqInv'
    BY <1>6, <1>9, <1>12 DEF ReqInv
  <1>14. FreeInv'
    <2>1. ASSUME NEW i \in Descs
          PROVE  (free'[i] = 0) <=> \E q \in Waiting' : i \in ChainOf(arg[q].head)'
      <3>1. CASE i \in {i0, i1, i2}
        BY <3>1, <1>1, <1>6, <1>10
      <3>2. CASE i \notin {i0, i1, i2}
        <4>1. free'[i] = free[i]
          BY <3>2, <1>1
        <4>2. free[i] = 0 <=> \E q \in Waiting : i \in ChainOf(arg[q].head)
          BY DEF FreeInv
        <4> QED BY <3>2, <4>1, <4>2, <1>6, <1>9, <1>10
      <3> QED BY <3>1, <3>2
    <2>2. ASSUME NEW q \in Waiting', NEW r \in Waiting', q # r
          PROVE  (ChainOf(arg[q].head) \cap ChainOf(arg[r].head) = {})'
      <3>1. CASE q = p
        BY <3>1, <2>2, <1>6, <1>9, <1>10
      <3>2. CASE r = p
        BY <3>2, <2>2, <1>6, <1>9, <1>10
      <3>3. CASE q # p /\ r # p
        <4>1. q \in Waiting /\ r \in Waiting
          BY <3>3, <1>6
        <4> QED BY <4>1, <2>2, <1>9 DEF FreeInv
      <3> QED BY <3>1, <3>2, <3>3
    <2> QED BY <2>1, <2>2 DEF FreeInv
  <1>15. EntryInv'
    <2>1. ASSUME NEW h \in avail' \cup Range(used)'
          PROVE  \E q \in Waiting' : arg'[q].head = h
      <3>1. CASE h = i0
        BY <3>1, <1>4, <1>6
      <3>2. CASE h # i0
        <4>1. h \in avail \cup Range(used)
          BY <3>2, <1>1, <1>2
        <4>2. PICK q \in Waiting : arg[q].head = h
          BY <4>1 DEF EntryInv
        <4> QED BY <4>2, <1>6, <1>9
      <3> QED BY <3>1, <3>2
    <2> QED BY <2>1, <1>2 DEF EntryInv
  <1>16. IntrInv'
    BY <1>2 DEF IntrInv
  <1> QED BY <1>7, <1>8, <1>13, <1>14, <1>15, <1>16

\* The call returns, and its chain is freed.  The other chains have none of
\* these descriptors.
LEMMA FinishStep ==
  ASSUME VirtioAssumption, RingInv, NEW p \in Procs, Finish(p)
  PROVE  RingInv'
  <1> USE DEF RingInv
  <1>1. PICK h, chain :
           /\ h = arg[p].head /\ chain = ChainOf(h)
           /\ free' = [i \in Descs |-> IF i \in chain THEN 1 ELSE free[i]]
           /\ desc' = [i \in Descs |-> IF i \in chain THEN NoDesc ELSE desc[i]]
           /\ info' = [info EXCEPT ![h].b = NoBuf]
    BY DEF Finish
  <1>2. /\ pc[p] = "awake" /\ owned[p] # 1
        /\ arg' = [arg EXCEPT ![p] = NoArg]
        /\ UNCHANGED <<vlock, avail, used, data, owned, disk, due, isr>>
    BY DEF Finish, IsOwned, rings, device
  <1>3. /\ pc' \in [Procs -> {"idle", "alloc", "nodesc", "sleep", "awake"}]
        /\ pc'[p] = "idle"
        /\ \A q \in Procs \ {p} :
             \/ pc'[q] = pc[q]
             \/ pc[q] = "nodesc" /\ pc'[q] = "alloc"
    <2>1. PICK f : /\ f = [q \in Procs |-> IF pc[q] = "nodesc" THEN "alloc"
                                                              ELSE pc[q]]
                   /\ pc' = [f EXCEPT ![p] = "idle"]
      BY DEF Finish, DescWaiters
    <2> QED BY <2>1 DEF Types
  <1>4. arg[p].head # NoHead
    BY <1>2 DEF PcInv
  <1>5. /\ p \in Waiting
        /\ ChainInv(p, h) /\ StageInv(p, h)
        /\ chain \subseteq Descs
        /\ \A q \in Waiting : q # p => /\ chain \cap ChainOf(arg[q].head) = {}
                                       /\ h # arg[q].head
    BY <1>1, <1>4, Request3
  <1>6. h \in Descs /\ h \notin avail /\ h \notin Range(used)
    BY <1>2, <1>5 DEF ChainInv, StageInv
  <1>7. arg'[p] = NoArg /\ \A q \in Procs : q # p => arg'[q] = arg[q]
    BY <1>2 DEF Types
  <1>8. Waiting' = Waiting \ {p}
    BY <1>7 DEF Waiting, NoArg
  <1>9. Types'
    <2>1. NoArg \in [write : 0..1, n : Blocks \cup {0}, head : Descs \cup {NoHead}]
      BY DEF NoArg
    <2>2. arg' \in [Procs -> [write : 0..1, n : Blocks \cup {0},
                              head : Descs \cup {NoHead}]]
      BY <2>1, <1>2 DEF Types
    <2>3. PICK r : /\ r = [info[h] EXCEPT !.b = NoBuf]
                   /\ info' = [info EXCEPT ![h] = r]
      BY <1>1
    <2>4. info[h] \in [b : Procs \cup {NoBuf}, status : {0, 255}]
      BY <1>6 DEF Types
    <2>5. r \in [b : Procs \cup {NoBuf}, status : {0, 255}]
      BY <2>3, <2>4
    <2>6. info' \in [Descs -> [b : Procs \cup {NoBuf}, status : {0, 255}]]
      BY <2>3, <2>5 DEF Types
    <2>7. free' \in [Descs -> 0..1]
      BY <1>1 DEF Types
    <2>8. desc' = [i \in Descs |-> desc'[i]]
      BY <1>1
    <2> QED BY <1>2, <1>3, <2>2, <2>6, <2>7, <2>8 DEF Types
  <1>10. ASSUME NEW q \in Procs PROVE PcInv(q)'
    <2>1. CASE q = p
      <3>1. NoArg.head = NoHead
        BY DEF NoArg
      <3> QED BY <2>1, <3>1, <1>2, <1>3, <1>7 DEF PcInv
    <2>2. CASE q # p
      BY <2>2, <1>2, <1>3, <1>7 DEF PcInv
    <2> QED BY <2>1, <2>2
  <1>11. ASSUME NEW q \in Waiting, q # p
         PROVE  /\ arg'[q] = arg[q]
                /\ ChainOf(arg[q].head)' = ChainOf(arg[q].head)
                /\ ChainOf(arg[q].head) \cap chain = {}
                /\ ChainInv(q, arg[q].head)'
                /\ StageInv(q, arg[q].head)'
    <2>1. /\ q \in Procs /\ arg'[q] = arg[q] /\ arg[q].head # NoHead
      BY <1>11, <1>7 DEF Waiting
    <2>2. /\ ChainInv(q, arg[q].head) /\ StageInv(q, arg[q].head)
          /\ ChainOf(arg[q].head) \subseteq Descs
      BY <2>1, Request3
    <2>3. ChainOf(arg[q].head) \cap chain = {} /\ h # arg[q].head
      BY <1>5, <1>11
    <2>4. /\ arg[q].head \in Descs \ chain
          /\ desc[arg[q].head].next \in Descs \ chain
      BY <2>2, <2>3 DEF ChainOf
    <2>5. /\ desc'[arg[q].head] = desc[arg[q].head]
          /\ desc'[desc[arg[q].head].next] = desc[desc[arg[q].head].next]
      BY <2>4, <1>1
    <2>6. info'[arg[q].head] = info[arg[q].head]
      BY <2>3, <2>4, <1>1 DEF Types
    <2>7. ChainOf(arg[q].head)' = ChainOf(arg[q].head)
      BY <2>1, <2>5, SMTT(30) DEF ChainOf
    <2>8. ChainInv(q, arg[q].head)'
      BY <2>1, <2>2, <2>5, <2>6, SMTT(30) DEF ChainInv
    <2>9. StageInv(q, arg[q].head)'
      BY <2>1, <2>2, <2>6, <1>2 DEF StageInv
    <2> QED BY <2>1, <2>3, <2>7, <2>8, <2>9
  <1>12. ReqInv'
    BY <1>8, <1>11 DEF ReqInv
  <1>13. FreeInv'
    <2>1. ASSUME NEW i \in Descs
          PROVE  (free'[i] = 0) <=> \E q \in Waiting' : i \in ChainOf(arg[q].head)'
      <3>1. CASE i \in chain
        <4>1. free'[i] = 1
          BY <3>1, <1>1
        <4> QED BY <3>1, <4>1, <1>8, <1>11
      <3>2. CASE i \notin chain
        <4>1. free'[i] = free[i]
          BY <3>2, <1>1
        <4>2. free[i] = 0 <=> \E q \in Waiting : i \in ChainOf(arg[q].head)
          BY DEF FreeInv
        <4> QED BY <3>2, <4>1, <4>2, <1>1, <1>8, <1>11
      <3> QED BY <3>1, <3>2
    <2>2. ASSUME NEW q \in Waiting', NEW r \in Waiting', q # r
          PROVE  (ChainOf(arg[q].head) \cap ChainOf(arg[r].head) = {})'
      <3>1. q \in Waiting /\ r \in Waiting /\ q # p /\ r # p
        BY <1>8
      <3> QED BY <3>1, <2>2, <1>11 DEF FreeInv
    <2> QED BY <2>1, <2>2 DEF FreeInv
  <1>14. EntryInv'
    <2>1. ASSUME NEW e \in avail' \cup Range(used)'
          PROVE  \E q \in Waiting' : arg'[q].head = e
      <3>1. e \in avail \cup Range(used) /\ e # h
        BY <1>2, <1>6
      <3>2. PICK q \in Waiting : arg[q].head = e
        BY <3>1 DEF EntryInv
      <3> QED BY <3>1, <3>2, <1>1, <1>8, <1>11
    <2> QED BY <2>1, <1>2 DEF EntryInv
  <1>15. IntrInv'
    BY <1>2 DEF IntrInv
  <1> QED BY <1>9, <1>10, <1>12, <1>13, <1>14, <1>15

\* Requests in the rings belong to a thread that waits.
LEMMA Entry ==
  ASSUME RingInv, NEW h \in avail \cup Range(used)
  PROVE  \E p \in Procs :
           /\ p \in Waiting /\ arg[p].head = h /\ info[h].b = p
           /\ h \in Descs
           /\ ChainInv(p, h) /\ StageInv(p, h)
           /\ \A q \in Waiting : q # p => arg[q].head # h
  <1>1. PICK p \in Waiting : arg[p].head = h
    BY DEF RingInv, EntryInv
  <1>2. p \in Procs /\ arg[p].head # NoHead
    BY <1>1 DEF Waiting
  <1>3. /\ ChainInv(p, h) /\ StageInv(p, h)
        /\ \A q \in Waiting : q # p => arg[q].head # h
    BY <1>1, <1>2, Request3
  <1> QED BY <1>1, <1>2, <1>3 DEF ChainInv

\* The handler takes an entry of the used ring and gives the buffer back.
LEMMA EntryStep ==
  ASSUME RingInv, IntrEntry
  PROVE  RingInv'
  <1> USE DEF RingInv
  <1>1. /\ used \in Seq(Descs) /\ used # <<>>
        /\ \A i, j \in 1..Len(used) : used[i] = used[j] => i = j
    BY DEF IntrEntry, Types, EntryInv
  <1>2. PICK h : h = Head(used)
    OBVIOUS
  <1>3. /\ used' \in Seq(Descs) /\ h \in Range(used)
        /\ Range(used)' = Range(used) \ {h}
        /\ \A i, j \in 1..Len(used') : used'[i] = used'[j] => i = j
    <2>1. used' = Tail(used)
      BY DEF IntrEntry
    <2>2. /\ Tail(used) \in Seq(Descs) /\ Head(used) \in Range(used)
          /\ Range(Tail(used)) = Range(used) \ {Head(used)}
          /\ \A i, j \in 1..Len(Tail(used)) :
               Tail(used)[i] = Tail(used)[j] => i = j
      BY <1>1, Looked
    <2>3. Range(used)' = Range(Tail(used))
      BY <2>1
    <2> QED BY <2>1, <2>2, <2>3, <1>2
  <1>4. PICK p \in Procs :
          /\ p \in Waiting /\ arg[p].head = h /\ info[h].b = p /\ h \in Descs
          /\ ChainInv(p, h) /\ StageInv(p, h)
          /\ \A q \in Waiting : q # p => arg[q].head # h
    BY <1>3, Entry
  <1>5. /\ owned' = [owned EXCEPT ![p] = 0]
        /\ pc' = [pc EXCEPT ![p] = IF @ = "sleep" THEN "awake" ELSE @]
        /\ vlock = "intr"
        /\ UNCHANGED <<free, desc, info, vlock, avail, arg, data, disk, due, isr>>
    BY <1>2, <1>4 DEF IntrEntry, driver, device
  <1>6. Types'
    BY <1>3, <1>5 DEF Types
  <1>7. ASSUME NEW q \in Procs PROVE PcInv(q)'
    <2>1. CASE q = p
      <3>1. /\ owned'[p] = 0
            /\ pc'[p] = IF pc[p] = "sleep" THEN "awake" ELSE pc[p]
        BY <1>5 DEF Types
      <3> QED BY <2>1, <3>1, <1>5 DEF PcInv
    <2>2. CASE q # p
      <3>1. owned'[q] = owned[q] /\ pc'[q] = pc[q]
        BY <2>2, <1>5 DEF Types
      <3> QED BY <3>1, <1>5 DEF PcInv
    <2> QED BY <2>1, <2>2
  <1>8. Waiting' = Waiting /\ Waiting \subseteq Procs
    BY <1>5 DEF Waiting
  <1>9. ASSUME NEW q \in Waiting
        PROVE  ChainInv(q, arg[q].head)' /\ StageInv(q, arg[q].head)'
    <2>1. ChainInv(q, arg[q].head) /\ StageInv(q, arg[q].head)
      BY <1>9, SMTT(30) DEF ReqInv
    <2>2. ChainInv(q, arg[q].head)'
      BY <2>1, <1>5 DEF ChainInv
    <2>3. CASE q = p
      <3>1. owned'[p] = 0
        BY <1>5, SMTT(30) DEF Types
      <3>2. StageInv(p, h)'
        BY <3>1, <1>3, <1>4, <1>5 DEF StageInv
      <3> QED BY <2>2, <2>3, <3>2, <1>4, <1>5
    <2>4. CASE q # p
      <3>1. owned'[q] = owned[q] /\ arg[q].head # h
        BY <2>4, <1>4, <1>5, <1>8 DEF Types
      <3>2. StageInv(q, arg[q].head)'
        BY <3>1, <2>1, <1>3, <1>5 DEF StageInv
      <3> QED BY <2>2, <3>2
    <2> QED BY <2>3, <2>4
  <1>10. ReqInv'
    BY <1>8, <1>9, <1>5 DEF ReqInv
  <1>11. FreeInv'
    BY <1>5, ChainsKept
  <1>12. EntryInv'
    BY <1>3, <1>5, <1>8 DEF EntryInv
  <1>13. IntrInv'
    BY <1>5 DEF IntrInv
  <1> QED BY <1>6, <1>7, <1>10, <1>11, <1>12, <1>13

\* What the device does with the request of thread p: it transfers p's block
\* to or from p's buffer.
LEMMA ServeDoes ==
  ASSUME RingInv, NEW h \in Descs, DeviceServe(h)
  PROVE  \E p \in Procs :
           /\ p \in Waiting /\ arg[p].head = h /\ info[h].b = p
           /\ \A q \in Waiting : q # p => arg[q].head # h
           /\ arg[p].n \in Blocks /\ arg[p].write \in 0..1
           /\ h \in avail /\ h \notin Range(used)
           /\ owned[p] = 1 /\ info[h].status = 255
           /\ IF arg[p].write = 1
              THEN disk' = [disk EXCEPT ![arg[p].n] = data[p]] /\ data' = data
              ELSE data' = [data EXCEPT ![p] = disk[arg[p].n]] /\ disk' = disk
  <1>1. h \in avail
    BY DEF DeviceServe
  <1>2. PICK p \in Procs :
          /\ p \in Waiting /\ arg[p].head = h /\ info[h].b = p /\ h \in Descs
          /\ ChainInv(p, h) /\ StageInv(p, h)
          /\ \A q \in Waiting : q # p => arg[q].head # h
    BY <1>1, Entry
  <1>3. arg[p].head # NoHead
    BY <1>2 DEF Waiting
  <1>4. arg[p].n \in Blocks /\ arg[p].write \in 0..1
    <2>1. arg[p].n \in Blocks
      BY <1>3, Request3
    <2>2. arg[p] \in [write : 0..1, n : Blocks \cup {0}, head : Descs \cup {NoHead}]
      BY DEF RingInv, Types
    <2> QED BY <2>1, <2>2
  <1>5. h \notin Range(used) /\ owned[p] = 1 /\ info[h].status = 255
    BY <1>1, <1>2 DEF StageInv
  <1>6. PICK op, b :
          /\ op = desc[h].addr /\ b = desc[desc[h].next].addr
          /\ IF op.write = 1
             THEN disk' = [disk EXCEPT ![op.sector] = data[b]] /\ data' = data
             ELSE data' = [data EXCEPT ![b] = disk[op.sector]] /\ disk' = disk
    BY DEF DeviceServe
  <1>7. op.write = arg[p].write /\ op.sector = arg[p].n /\ b = p
    <2>1. op = [write |-> arg[p].write, sector |-> arg[p].n] /\ b = p
      BY <1>2, <1>6 DEF ChainInv
    <2> QED BY <2>1
  <1>8. IF arg[p].write = 1
        THEN disk' = [disk EXCEPT ![arg[p].n] = data[p]] /\ data' = data
        ELSE data' = [data EXCEPT ![p] = disk[arg[p].n]] /\ disk' = disk
    BY <1>6, <1>7
  <1> QED BY <1>1, <1>2, <1>4, <1>5, <1>8

\* The device serves a request and reports it.
LEMMA ServeStep ==
  ASSUME RingInv, NEW h \in Descs, DeviceServe(h)
  PROVE  RingInv'
  <1> USE DEF RingInv
  <1>1. PICK p \in Procs :
           /\ p \in Waiting /\ arg[p].head = h /\ info[h].b = p
           /\ \A q \in Waiting : q # p => arg[q].head # h
           /\ arg[p].n \in Blocks /\ arg[p].write \in 0..1
           /\ h \in avail /\ h \notin Range(used)
           /\ owned[p] = 1 /\ info[h].status = 255
           /\ IF arg[p].write = 1
              THEN disk' = [disk EXCEPT ![arg[p].n] = data[p]] /\ data' = data
              ELSE data' = [data EXCEPT ![p] = disk[arg[p].n]] /\ disk' = disk
    BY ServeDoes
  <1>2. /\ info' = [info EXCEPT ![h].status = 0]
        /\ avail' = avail \ {h} /\ used' = Append(used, h) /\ due' = 1
        /\ UNCHANGED <<free, desc, vlock, pc, arg, owned, isr>>
    BY DEF DeviceServe
  <1>3. /\ used' \in Seq(Descs)
        /\ Range(used)' = Range(used) \cup {h}
        /\ \A i, j \in 1..Len(used') : used'[i] = used'[j] => i = j
    <2>1. /\ used \in Seq(Descs) /\ h \notin Range(used)
          /\ \A i, j \in 1..Len(used) : used[i] = used[j] => i = j
      BY <1>1, SMTT(30) DEF Types, EntryInv
    <2>2. /\ Append(used, h) \in Seq(Descs)
          /\ Range(Append(used, h)) = Range(used) \cup {h}
          /\ \A i, j \in 1..Len(Append(used, h)) :
               Append(used, h)[i] = Append(used, h)[j] => i = j
      BY <2>1, Reported
    <2>3. Range(used)' = Range(Append(used, h))
      BY <1>2
    <2> QED BY <1>2, <2>2, <2>3
  <1>4. info[h] \in [b : Procs \cup {NoBuf}, status : {0, 255}]
    BY DEF Types
  <1>5. PICK r : /\ r = [info[h] EXCEPT !.status = 0]
                 /\ info' = [info EXCEPT ![h] = r]
    BY <1>2
  <1>6. /\ r \in [b : Procs \cup {NoBuf}, status : {0, 255}]
        /\ r.b = p /\ r.status = 0
    BY <1>1, <1>4, <1>5
  <1>7. Types'
    <2>1. info' \in [Descs -> [b : Procs \cup {NoBuf}, status : {0, 255}]]
      BY <1>5, <1>6 DEF Types
    <2>2. data' \in [Procs -> Values] /\ disk' \in [Blocks -> Values]
      <3>1. data[p] \in Values /\ disk[arg[p].n] \in Values
        BY <1>1 DEF Types
      <3>2. CASE arg[p].write = 1
        <4>1. PICK n, v : /\ n = arg[p].n /\ v = data[p]
                          /\ disk' = [disk EXCEPT ![n] = v] /\ data' = data
          BY <3>2, <1>1
        <4> QED BY <3>1, <4>1, <1>1 DEF Types
      <3>3. CASE arg[p].write # 1
        BY <3>1, <3>3, <1>1 DEF Types
      <3> QED BY <3>2, <3>3
    <2>3. avail' \subseteq Descs /\ due' \in 0..1
      BY <1>2 DEF Types
    <2> QED BY <1>2, <1>3, <2>1, <2>2, <2>3 DEF Types
  <1>8. ASSUME NEW q \in Procs PROVE PcInv(q)'
    BY <1>2 DEF PcInv
  <1>9. Waiting' = Waiting /\ Waiting \subseteq Procs
    BY <1>2 DEF Waiting
  <1>10. /\ info'[h] = r
         /\ \A i \in Descs : i # h => info'[i] = info[i]
    BY <1>5 DEF Types
  <1>11. ASSUME NEW q \in Waiting
         PROVE  ChainInv(q, arg[q].head)' /\ StageInv(q, arg[q].head)'
    <2>1. ChainInv(q, arg[q].head) /\ StageInv(q, arg[q].head)
      BY <1>11 DEF ReqInv
    <2>2. CASE q = p
      <3>1. ChainInv(p, h)'
        BY <2>1, <2>2, <1>1, <1>2, <1>6, <1>10 DEF ChainInv
      <3>2. StageInv(p, h)'
        BY <1>1, <1>2, <1>3, <1>6, <1>10 DEF StageInv
      <3> QED BY <2>2, <3>1, <3>2, <1>1, <1>2
    <2>3. CASE q # p
      <3>1. arg[q].head # h /\ info'[arg[q].head] = info[arg[q].head]
        BY <2>1, <2>3, <1>1, <1>10 DEF ChainInv
      <3>2. ChainInv(q, arg[q].head)'
        BY <2>1, <3>1, <1>2 DEF ChainInv
      <3>3. StageInv(q, arg[q].head)'
        BY <2>1, <3>1, <1>2, <1>3 DEF StageInv
      <3> QED BY <3>2, <3>3, SMTT(30)
    <2> QED BY <2>2, <2>3
  <1>12. ReqInv'
    BY <1>2, <1>9, <1>11 DEF ReqInv
  <1>13. FreeInv'
    BY <1>2, ChainsKept
  <1>14. EntryInv'
    <2>1. ASSUME NEW e \in avail' \cup Range(used)'
          PROVE  \E q \in Waiting' : arg'[q].head = e
      BY <1>1, <1>2, <1>3, <1>9 DEF EntryInv
    <2> QED BY <2>1, <1>3 DEF EntryInv
  <1>15. IntrInv'
    BY <1>2 DEF IntrInv
  <1> QED BY <1>7, <1>8, <1>12, <1>13, <1>14, <1>15, SMTT(30)

-----------------------------------------------------------------------------
(* The theorems.                                                           *)

\* virtio_disk_init() establishes the invariant.
LEMMA RingInit == VirtioAssumption /\ Init => RingInv
  <1> SUFFICES ASSUME VirtioAssumption, Init PROVE RingInv
    OBVIOUS
  <1> USE DEF Init
  <1>1. Types
    <2>1. NoArg \in [write : 0..1, n : Blocks \cup {0}, head : Descs \cup {NoHead}]
      BY DEF NoArg
    <2>2. [b |-> NoBuf, status |-> 0] \in [b : Procs \cup {NoBuf}, status : {0, 255}]
      OBVIOUS
    <2>3. /\ arg \in [Procs -> [write : 0..1, n : Blocks \cup {0},
                                head : Descs \cup {NoHead}]]
          /\ info \in [Descs -> [b : Procs \cup {NoBuf}, status : {0, 255}]]
      BY <2>1, <2>2
    <2>4. data \in [Procs -> Values] /\ disk \in [Blocks -> Values]
      BY DEF Values
    <2> QED BY <2>3, <2>4 DEF Types
  <1>2. Waiting = {}
    BY DEF Waiting, NoArg
  <1>3. ASSUME NEW p \in Procs PROVE PcInv(p)
    BY DEF PcInv, NoArg
  <1>4. ReqInv /\ FreeInv
    BY <1>2 DEF ReqInv, FreeInv
  <1>5. EntryInv
    <2>1. Range(used) = {} /\ Len(used) = 0
      BY DEF Range
    <2> QED BY <2>1 DEF EntryInv
  <1>6. IntrInv
    BY DEF IntrInv
  <1> QED BY <1>1, <1>3, <1>4, <1>5, <1>6 DEF RingInv

\* Every step keeps it.
LEMMA RingStep ==
  ASSUME VirtioAssumption, RingInv, [Next]_vars
  PROVE  RingInv'
  <1>1. CASE UNCHANGED vars
    <2>1. UNCHANGED <<free, desc, info, vlock, avail, used, pc, arg, data, owned,
                      disk, due, isr>>
      BY <1>1 DEF vars, driver, rings, device
    <2>2. Types' /\ IntrInv'
      BY <2>1 DEF RingInv, Types, IntrInv
    <2>3. ASSUME NEW p \in Procs PROVE PcInv(p)'
      BY <2>1 DEF RingInv, PcInv
    <2>4. Waiting' = Waiting
      BY <2>1 DEF Waiting
    <2>5. ReqInv' /\ FreeInv' /\ EntryInv'
      BY <2>1, <2>4, RequestsKept DEF RingInv
    <2> QED BY <2>2, <2>3, <2>5 DEF RingInv
  <1>2. CASE Handler
    BY <1>2, HandlerStep, EntryStep DEF Handler
  <1>3. CASE Device
    BY <1>3, HandlerStep, ServeStep DEF Device
  <1>4. ASSUME NEW p \in Procs, Thread(p) \/ KillWakes(p) PROVE RingInv'
    BY <1>4, SleepStep, SubmitStep, FinishStep DEF Thread
  <1>5. ASSUME NEW p \in Procs, NEW n \in Blocks, Call(p, n) PROVE RingInv'
    BY <1>5, CallStep
  <1> QED BY <1>1, <1>2, <1>3, <1>4, <1>5 DEF Next

\* RingInv is an invariant of the driver and the device.
LEMMA Rings == Spec => []RingInv
  <1>1. VirtioAssumption /\ Init => RingInv
    BY RingInit
  <1>2. VirtioAssumption /\ RingInv /\ [Next]_vars => RingInv'
    BY RingStep
  <1> QED BY <1>1, <1>2, VirtioAssumption, PTL DEF Spec

\* RingInv implies the invariant that the run checks.
LEMMA RingsAccount ==
  ASSUME VirtioAssumption, RingInv
  PROVE  Accounted
  <1> USE DEF RingInv
  <1>1. Len(used) <= NUM
    BY RingFits DEF Types, EntryInv
  <1>2. ASSUME NEW p \in Procs, pc[p] = "idle" PROVE owned[p] = 0 /\ arg[p] = NoArg
    <2>1. arg[p] = NoArg /\ NoArg.head = NoHead
      BY <1>2 DEF PcInv, NoArg
    <2>2. owned[p] \in 0..1 /\ owned[p] # 1
      BY <2>1 DEF PcInv, Types
    <2> QED BY <2>1, <2>2
  <1>3. TypeOK
    BY <1>1, <1>2 DEF TypeOK, Types
  <1>4. DescsAccounted
    <2>1. ASSUME NEW p \in Waiting PROVE ChainOf(arg[p].head) \subseteq Descs
      BY <2>1, Request3 DEF Waiting
    <2>2. {i \in Descs : free[i] = 0} = UNION {ChainOf(arg[p].head) : p \in Waiting}
      BY <2>1 DEF FreeInv
    <2> QED BY <2>2 DEF DescsAccounted, FreeInv
  <1>5. NoLostCompletion
    <2>1. ASSUME NEW h \in Range(used)
          PROVE  /\ info[h].status = 0
                 /\ \E p \in Waiting : arg[p].head = h /\ info[h].b = p
      BY Entry DEF StageInv
    <2> QED BY <2>1 DEF NoLostCompletion, IntrInv
  <1> QED BY <1>3, <1>4, <1>5 DEF Accounted

\* No descriptor of the driver is leaked or handed out twice, the rings never
\* overflow, and every completion belongs to a thread that waits for it and
\* has an interrupt that is pending, to come, or being handled.
THEOREM RingsSound == Spec => []Accounted
  <1>1. VirtioAssumption /\ RingInv => Accounted
    BY RingsAccount
  <1> QED BY <1>1, Rings, VirtioAssumption, PTL

\* A thread sleeps on its buffer only while the disk owns the buffer: the
\* wakeup in virtio_disk_intr() is not lost.
THEOREM BufferSleepers == Spec => [](\A p \in Procs : pc[p] = "sleep" => IsOwned(p))
  <1>1. RingInv => \A p \in Procs : pc[p] = "sleep" => IsOwned(p)
    BY DEF RingInv, PcInv, IsOwned
  <1> QED BY <1>1, Rings, PTL

-----------------------------------------------------------------------------
(* The driver implements DiskIO.                                           *)

\* The request of a thread changes only with its own pc, arg or status.
LEMMA RequestKept ==
  ASSUME RingInv, NEW q \in Procs,
         pc[q] = "idle" <=> pc'[q] = "idle",
         pc[q] # "idle" =>
           /\ arg'[q].write = arg[q].write /\ arg'[q].n = arg[q].n
           /\ (q \in Waiting /\ info[arg[q].head].status = 0)
                <=> (q \in Waiting' /\ info'[arg'[q].head].status = 0)
  PROVE  Request(q)' = Request(q)
  <1>1. CASE pc[q] = "idle"
    BY <1>1 DEF Request
  <1>2. CASE pc[q] # "idle"
    BY <1>2 DEF Request, Op
  <1> QED BY <1>1, <1>2

\* Descriptors, entries of the rings and wakeups are nothing to bio.c.
LEMMA Unseen ==
  ASSUME RingInv, UNCHANGED <<data, disk>>,
         \A q \in Procs : Request(q)' = Request(q)
  PROVE  UNCHANGED D!dvars
  BY DEF D!dvars

\* The rest of the requests, when one of them changes.
LEMMA OneChanges ==
  ASSUME NEW p \in Procs, NEW r, Request(p)' = r,
         \A q \in Procs : q # p => Request(q)' = Request(q)
  PROVE  [q \in Procs |-> Request(q)]'
           = [[q \in Procs |-> Request(q)] EXCEPT ![p] = r]
  OBVIOUS

\* A call of virtio_disk_rw() is a Call of DiskIO: its buffer is in no other
\* request.
LEMMA CallMaps ==
  ASSUME VirtioAssumption, RingInv, NEW p \in Procs, NEW n \in Blocks, Call(p, n)
  PROVE  D!DiskNext
  <1>1. /\ pc[p] = "idle" /\ pc' = [pc EXCEPT ![p] = "alloc"]
        /\ UNCHANGED <<info, data, disk>>
    BY DEF Call, Goto, driver, device
  <1>2. PICK a : /\ a = [NoArg EXCEPT !.n = n,
                                      !.write = IF p \in Writers THEN 1 ELSE 0]
                 /\ arg' = [arg EXCEPT ![p] = a]
    BY DEF Call
  <1>3. a = [write |-> IF p \in Writers THEN 1 ELSE 0, n |-> n, head |-> NoHead]
    BY <1>2 DEF NoArg
  <1>4. /\ arg'[p] = a /\ pc'[p] = "alloc"
        /\ \A q \in Procs : q # p => arg'[q] = arg[q] /\ pc'[q] = pc[q]
    BY <1>1, <1>2 DEF RingInv, Types
  <1>5. ASSUME NEW q \in Procs, q # p PROVE Request(q)' = Request(q)
    <2>1. q \in Waiting' <=> q \in Waiting
      BY <1>4, <1>5 DEF Waiting
    <2> QED BY <2>1, <1>1, <1>4, <1>5, RequestKept
  <1>6. PICK op : op = IF p \in Writers THEN "write" ELSE "read"
    OBVIOUS
  <1>7. Request(p)' = [op |-> op, b |-> p, n |-> n]
    <2>1. a.write = (IF p \in Writers THEN 1 ELSE 0) /\ a.n = n /\ a.head = NoHead
      BY <1>3
    <2>2. Op(p)' = op
      BY <2>1, <1>4, <1>6 DEF Op
    <2>3. p \notin Waiting'
      BY <2>1, <1>4 DEF Waiting
    <2> QED BY <2>1, <2>2, <2>3, <1>4 DEF Request
  <1>8. Request(p) = D!None
    BY <1>1 DEF Request, D!None
  <1>9. \A q \in Procs : Request(q).b # p
    <2> SUFFICES ASSUME NEW q \in Procs PROVE Request(q).b # p
      OBVIOUS
    <2>1. CASE q = p
      BY <2>1, <1>1, VirtioAssumption DEF Request, VirtioAssumption
    <2>2. CASE q # p
      BY <2>2 DEF Request, VirtioAssumption
    <2> QED BY <2>1, <2>2
  <1>10. D!Call(p, op, p, n)
    <2>1. [q \in Procs |-> Request(q)]'
            = [[q \in Procs |-> Request(q)] EXCEPT ![p] = [op |-> op, b |-> p, n |-> n]]
      BY <1>5, <1>7, OneChanges
    <2> QED BY <2>1, <1>1, <1>8, <1>9 DEF D!Call
  <1>11. op \in {"read", "write"}
    BY <1>6
  <1> QED BY <1>10, <1>11 DEF D!DiskNext

\* What the device does with a request is the transfer of DiskIO.
LEMMA ServeMaps ==
  ASSUME RingInv, NEW h \in Descs, DeviceServe(h)
  PROVE  D!DiskNext
  <1>1. PICK p \in Procs :
           /\ p \in Waiting /\ arg[p].head = h /\ info[h].b = p
           /\ \A q \in Waiting : q # p => arg[q].head # h
           /\ arg[p].n \in Blocks /\ arg[p].write \in 0..1
           /\ h \in avail /\ h \notin Range(used)
           /\ owned[p] = 1 /\ info[h].status = 255
           /\ IF arg[p].write = 1
              THEN disk' = [disk EXCEPT ![arg[p].n] = data[p]] /\ data' = data
              ELSE data' = [data EXCEPT ![p] = disk[arg[p].n]] /\ disk' = disk
    BY ServeDoes
  <1>2. /\ info' = [info EXCEPT ![h].status = 0]
        /\ UNCHANGED <<pc, arg>>
    BY DEF DeviceServe
  <1>3. Waiting' = Waiting
    BY <1>2 DEF Waiting
  <1>4. ASSUME NEW q \in Procs, q # p PROVE Request(q)' = Request(q)
    <2>1. ASSUME q \in Waiting PROVE info'[arg[q].head] = info[arg[q].head]
      <3>1. arg[q].head \in Descs /\ arg[q].head # h
        BY <2>1, <1>1, <1>4, ZenonT(40) DEF RingInv, ReqInv, ChainInv
      <3> QED BY <3>1, <1>2 DEF RingInv, Types
    <2> QED BY <2>1, <1>2, <1>3, RequestKept
  <1>5. pc[p] # "idle"
    BY <1>1 DEF RingInv, PcInv, NoArg, Waiting
  <1>6. Request(p) = [op |-> Op(p), b |-> p, n |-> arg[p].n]
    BY <1>1, <1>5 DEF Request
  <1>7. Request(p)' = [op |-> "done", b |-> p, n |-> arg[p].n]
    <2>1. info'[h].status = 0
      BY <1>2 DEF RingInv, Types
    <2> QED BY <2>1, <1>1, <1>2, <1>3, <1>5 DEF Request
  <1>8. D!Serve(p)
    <2>1. [q \in Procs |-> Request(q)]'
            = [[q \in Procs |-> Request(q)] EXCEPT
                 ![p] = [op |-> "done", b |-> p, n |-> arg[p].n]]
      BY <1>4, <1>7, OneChanges
    <2>2. [Request(p) EXCEPT !.op = "done"] = [op |-> "done", b |-> p, n |-> arg[p].n]
      BY <1>6
    <2>3. [q \in Procs |-> Request(q)]'
            = [[q \in Procs |-> Request(q)] EXCEPT ![p].op = "done"]
      BY <2>1, <2>2
    <2>4. /\ Request(p).op = Op(p) /\ Request(p).b = p /\ Request(p).n = arg[p].n
      BY <1>6
    <2>5. CASE arg[p].write = 1
      <3>1. Request(p).op = "write"
        BY <2>4, <2>5 DEF Op
      <3> QED BY <3>1, <2>3, <2>4, <2>5, <1>1 DEF D!Serve
    <2>6. CASE arg[p].write # 1
      <3>1. Request(p).op = "read"
        BY <2>4, <2>6 DEF Op
      <3> QED BY <3>1, <2>3, <2>4, <2>6, <1>1 DEF D!Serve
    <2> QED BY <2>5, <2>6
  <1> QED BY <1>8 DEF D!DiskNext

\* The return of virtio_disk_rw() is the Return of DiskIO: the thread gets
\* past its loop only after the device has served the request.
LEMMA FinishMaps ==
  ASSUME RingInv, NEW p \in Procs, Finish(p)
  PROVE  D!DiskNext
  <1>1. /\ pc[p] = "awake" /\ owned[p] # 1
        /\ arg' = [arg EXCEPT ![p] = NoArg]
        /\ info' = [info EXCEPT ![arg[p].head].b = NoBuf]
        /\ UNCHANGED <<data, disk>>
    BY DEF Finish, IsOwned, device
  <1>2. /\ pc'[p] = "idle"
        /\ \A q \in Procs \ {p} : pc'[q] = "idle" <=> pc[q] = "idle"
    <2>1. PICK f : /\ f = [q \in Procs |-> IF pc[q] = "nodesc" THEN "alloc"
                                                              ELSE pc[q]]
                   /\ pc' = [f EXCEPT ![p] = "idle"]
      BY DEF Finish, DescWaiters
    <2> QED BY <2>1 DEF RingInv, Types
  <1>3. arg[p].head # NoHead
    BY <1>1 DEF RingInv, PcInv
  <1>4. /\ p \in Waiting
        /\ ChainInv(p, arg[p].head) /\ StageInv(p, arg[p].head)
        /\ \A q \in Waiting : q # p => arg[p].head # arg[q].head
    BY <1>3, Request3
  <1>5. info[arg[p].head].status = 0
    BY <1>1, <1>4 DEF StageInv
  <1>6. ASSUME NEW q \in Procs, q # p PROVE Request(q)' = Request(q)
    <2>1. arg'[q] = arg[q]
      BY <1>1, <1>6 DEF RingInv, Types
    <2>2. q \in Waiting' <=> q \in Waiting
      BY <2>1 DEF Waiting
    <2>3. ASSUME q \in Waiting PROVE info'[arg[q].head] = info[arg[q].head]
      <3>1. arg[q].head \in Descs /\ arg[q].head # arg[p].head
        BY <2>3, <1>4, <1>6, ZenonT(40) DEF RingInv, ReqInv, ChainInv
      <3> QED BY <3>1, <1>1, SMTT(30) DEF RingInv, Types
    <2> QED BY <2>1, <2>2, <2>3, <1>2, <1>6, RequestKept
  <1>7. Request(p).op = "done"
    BY <1>1, <1>4, <1>5 DEF Request
  <1>8. Request(p)' = D!None
    BY <1>2 DEF Request, D!None
  <1>9. D!Return(p)
    <2>1. [q \in Procs |-> Request(q)]'
            = [[q \in Procs |-> Request(q)] EXCEPT ![p] = D!None]
      BY <1>6, <1>8, OneChanges
    <2> QED BY <2>1, <1>1, <1>7 DEF D!Return
  <1> QED BY <1>9 DEF D!DiskNext

\* A thread that submits its request, sleeps or wakes up.
LEMMA ThreadMaps ==
  ASSUME VirtioAssumption, RingInv, NEW p \in Procs,
         NoDescs(p) \/ Submit(p) \/ Resleep(p) \/ KillWakes(p)
  PROVE  UNCHANGED D!dvars
  <1>1. CASE Submit(p)
    <2>1. PICK i0, i1, i2 \in Descs :
            /\ i0 # i1 /\ i0 # i2 /\ i1 # i2
            /\ free[i0] = 1 /\ free[i1] = 1 /\ free[i2] = 1
            /\ free' = [i \in Descs |-> IF i \in {i0, i1, i2} THEN 0 ELSE free[i]]
            /\ desc' = [i \in Descs |-> desc'[i]]
            /\ \A i \in Descs \ {i0, i1, i2} : desc'[i] = desc[i]
            /\ desc'[i0].addr = [write |-> arg[p].write, sector |-> arg[p].n]
            /\ desc'[i0].next = i1 /\ desc'[i1].next = i2
            /\ desc'[i1].addr = p
            /\ info' = [info EXCEPT ![i0] = [b |-> p, status |-> 255]]
            /\ avail' = avail \cup {i0}
            /\ arg' = [arg EXCEPT ![p].head = i0]
      BY <1>1, SubmitDoes
    <2>2. /\ pc[p] = "alloc" /\ pc' = [pc EXCEPT ![p] = "sleep"]
          /\ UNCHANGED <<data, disk>>
      BY <1>1 DEF Submit, Goto, device
    <2>3. arg[p].head = NoHead /\ p \notin Waiting
      BY <2>2 DEF RingInv, PcInv, Waiting
    <2>4. /\ arg'[p].write = arg[p].write /\ arg'[p].n = arg[p].n
          /\ arg'[p].head = i0
          /\ \A q \in Procs : q # p => arg'[q] = arg[q] /\ pc'[q] = pc[q]
      BY <2>1, <2>2 DEF RingInv, Types
    <2>5. info'[i0].status = 255 /\ pc'[p] = "sleep"
      BY <2>1, <2>2 DEF RingInv, Types
    <2>6. Request(p)' = Request(p)
      BY <2>2, <2>3, <2>4, <2>5, RequestKept
    <2>7. ASSUME NEW q \in Procs, q # p PROVE Request(q)' = Request(q)
      <3>1. q \in Waiting' <=> q \in Waiting
        BY <2>4, <2>7 DEF Waiting
      <3>2. ASSUME q \in Waiting PROVE info'[arg[q].head] = info[arg[q].head]
        <4>1. arg[q].head # NoHead
          BY <3>2 DEF Waiting
        <4>2. arg[q].head \in Descs /\ free[arg[q].head] = 0
          BY <4>1, Request3, ZenonT(40) DEF ChainInv, ChainOf
        <4> QED BY <4>2, <2>1 DEF RingInv, Types
      <3> QED BY <3>1, <3>2, <2>4, <2>7, RequestKept
    <2> QED BY <2>2, <2>6, <2>7, Unseen
  <1>2. CASE NoDescs(p) \/ Resleep(p) \/ KillWakes(p)
    <2>1. UNCHANGED <<info, arg, data, disk>>
      BY <1>2 DEF NoDescs, Resleep, KillWakes, driver, device
    <2>2. \A q \in Procs : pc'[q] = "idle" <=> pc[q] = "idle"
      <3>1. CASE NoDescs(p)
        <4>1. CASE FreeDescs = {}
          BY <3>1, <4>1 DEF NoDescs, RingInv, Types
        <4>2. CASE FreeDescs # {}
          <5>1. PICK f : /\ f = [q \in Procs |-> IF pc[q] = "nodesc"
                                                THEN "alloc" ELSE pc[q]]
                         /\ pc' = [f EXCEPT ![p] = "nodesc"]
                         /\ pc[p] = "alloc"
            BY <3>1, <4>2 DEF NoDescs, DescWaiters
          <5> QED BY <5>1 DEF RingInv, Types
        <4> QED BY <4>1, <4>2
      <3>2. CASE Resleep(p)
        BY <3>2 DEF Resleep, Goto, RingInv, Types
      <3>3. CASE KillWakes(p)
        BY <3>3 DEF KillWakes, Goto, RingInv, Types
      <3> QED BY <1>2, <3>1, <3>2, <3>3
    <2>3. Waiting' = Waiting
      BY <2>1 DEF Waiting
    <2>4. ASSUME NEW q \in Procs PROVE Request(q)' = Request(q)
      BY <2>1, <2>2, <2>3, RequestKept
    <2> QED BY <2>1, <2>4, Unseen
  <1> QED BY <1>1, <1>2

\* The interrupt and its handler: the request was done when the device had
\* served it.
LEMMA HandlerMaps ==
  ASSUME RingInv, Handler \/ DeviceInterrupt \/ UNCHANGED vars
  PROVE  UNCHANGED D!dvars
  <1>1. UNCHANGED <<info, arg, data, disk>>
    BY DEF Handler, Intr, IntrEntry, IntrEmpty, IntrExit, DeviceInterrupt,
           driver, device, vars
  <1>2. \A q \in Procs : pc'[q] = "idle" <=> pc[q] = "idle"
    <2>1. CASE IntrEntry
      <3>1. PICK b : pc' = [pc EXCEPT ![b] = IF @ = "sleep" THEN "awake" ELSE @]
        BY <2>1 DEF IntrEntry
      <3> QED BY <3>1 DEF RingInv, Types
    <2>2. CASE ~IntrEntry
      <3>1. pc' = pc
        BY <2>2 DEF Handler, Intr, IntrEmpty, IntrExit, DeviceInterrupt, vars
      <3> QED BY <3>1
    <2> QED BY <2>1, <2>2
  <1>3. Waiting' = Waiting
    BY <1>1 DEF Waiting
  <1>4. ASSUME NEW q \in Procs PROVE Request(q)' = Request(q)
    BY <1>1, <1>2, <1>3, RequestKept
  <1> QED BY <1>1, <1>4, Unseen

\* virtio_disk_rw(), its interrupt handler and the device together implement
\* DiskIO: each call transfers its own buffer from or to its own block, once,
\* before it returns, in whatever order the device serves the requests.
THEOREM DriverRefines == Spec => Implements
  <1>1. Init => D!DiskInit
    <2> SUFFICES ASSUME Init PROVE D!DiskInit
      OBVIOUS
    <2>1. disk \in [Blocks -> Values] /\ data \in [Procs -> Values]
      BY DEF Init, Values
    <2>2. ASSUME NEW p \in Procs PROVE Request(p) = D!None
      BY DEF Init, Request, D!None
    <2> QED BY <2>1, <2>2 DEF D!DiskInit
  <1>2. VirtioAssumption /\ RingInv /\ [Next]_vars => [D!DiskNext]_D!dvars
    <2> SUFFICES ASSUME VirtioAssumption, RingInv, [Next]_vars
                 PROVE  D!DiskNext \/ UNCHANGED D!dvars
      OBVIOUS
    <2>1. CASE Handler \/ DeviceInterrupt \/ UNCHANGED vars
      BY <2>1, HandlerMaps
    <2>2. ASSUME NEW h \in Descs, DeviceServe(h) PROVE D!DiskNext
      BY <2>2, ServeMaps
    <2>3. ASSUME NEW p \in Procs, Thread(p) \/ KillWakes(p)
          PROVE  D!DiskNext \/ UNCHANGED D!dvars
      BY <2>3, ThreadMaps, FinishMaps DEF Thread
    <2>4. ASSUME NEW p \in Procs, NEW n \in Blocks, Call(p, n) PROVE D!DiskNext
      BY <2>4, CallMaps
    <2> QED BY <2>1, <2>2, <2>3, <2>4 DEF Next, Device
  <1> QED BY <1>1, <1>2, Rings, VirtioAssumption, PTL
        DEF Spec, Implements, D!DiskSpec
=============================================================================
