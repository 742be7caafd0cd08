--------------------------- MODULE LogSpaceProofs ---------------------------
(***************************************************************************)
(* Proofs that the reservations of begin_op() are enough, for every size   *)
(* of the log.  The argument counts reserved slots: <<p, i>> stands for    *)
(* the i-th block that the active operation p may still add.  begin_op()   *)
(* admits p only when the slots of all active operations, p's included,    *)
(* fit behind what the log already holds; a new block uses one slot up.    *)
(***************************************************************************)
EXTENDS LogProofs

UsedInv == \A p \in Ops : used[p] <= Quota[p]

\* Operations stay within the reservation, or strictly within it.
QuotaWithin == \A p \in Ops : Quota[p] <= MAXOPBLOCKS
QuotaBelowMax == \A p \in Ops : Quota[p] < MAXOPBLOCKS

LEMMA ReservedFinite ==
  ASSUME NEW f, NEW u
  PROVE  /\ IsFiniteSet(ReservedOf(f, u))
         /\ Cardinality(ReservedOf(f, u)) \in Nat
         /\ ReservedOf(f, u) = {} <=> Cardinality(ReservedOf(f, u)) = 0
  <1>1. IsFiniteSet(Slots)
    BY LogAssumption, FS_Interval DEF Slots
  <1>2. IsFiniteSet(Ops \X Slots)
    BY <1>1, LogAssumption, FS_Product
  <1>3. IsFiniteSet(ReservedOf(f, u))
    BY <1>2, FS_Subset DEF ReservedOf
  <1>4. QED
    BY <1>3, FS_CardinalityType, FS_EmptySet

\* An operation that has not used its reservation up still owns a slot.
LEMMA SlotLeft ==
  ASSUME TypeOK, NEW p \in Ops, pc[p] = "active", used[p] < MAXOPBLOCKS
  PROVE  /\ <<p, used[p] + 1>> \in Reserved
         /\ Cardinality(Reserved) >= 1
  <1>1. used[p] \in Nat /\ MAXOPBLOCKS \in Nat
    BY LogAssumption DEF TypeOK
  <1>2. <<p, used[p] + 1>> \in Reserved
    BY <1>1 DEF Reserved, ReservedOf, Slots
  <1>3. Cardinality(Reserved) # 0 /\ Cardinality(Reserved) \in Nat
    BY <1>2, ReservedFinite DEF Reserved
  <1>4. QED
    BY <1>2, <1>3

\* The slots are among the ones begin_op() counts.
LEMMA ReservedBound ==
  ASSUME NEW f, NEW u, NEW A \in SUBSET Ops, A = {p \in Ops : f[p] = "active"}
  PROVE  Cardinality(ReservedOf(f, u)) <= Cardinality(A) * MAXOPBLOCKS
  <1>1. IsFiniteSet(A)
    BY LogAssumption, FS_Subset
  <1>2. IsFiniteSet(Slots) /\ Cardinality(Slots) = MAXOPBLOCKS
    BY LogAssumption, FS_Interval DEF Slots
  <1>3. /\ IsFiniteSet(A \X Slots)
        /\ Cardinality(A \X Slots) = Cardinality(A) * MAXOPBLOCKS
    BY <1>1, <1>2, FS_Product
  <1>4. ReservedOf(f, u) \in SUBSET (A \X Slots)
    BY DEF ReservedOf
  <1>5. Cardinality(ReservedOf(f, u)) <= Cardinality(A \X Slots)
    BY <1>3, <1>4, FS_Subset
  <1>6. QED
    BY <1>3, <1>5

LEMMA SpaceInit == Init => ReservationHolds /\ UsedInv
  <1> SUFFICES ASSUME Init PROVE ReservationHolds /\ UsedInv
    OBVIOUS
  <1>1. Reserved = {}
    BY DEF Init, Reserved, ReservedOf
  <1>2. Cardinality(Reserved) = 0
    BY <1>1, ReservedFinite DEF Reserved
  <1>3. lh = <<>>
    BY DEF Init
  <1>4. ReservationHolds
    BY <1>2, <1>3, LogAssumption DEF ReservationHolds
  <1>5. UsedInv
    BY LogAssumption DEF Init, UsedInv
  <1>6. QED
    BY <1>4, <1>5

\* used[p] counts up to the quota, where LogWrite stops the operation.
LEMMA UsedStep ==
  ASSUME TypeOK, UsedInv, Outcome
  PROVE  UsedInv'
  <1>1. used \in [Ops -> Nat] /\ Quota \in [Ops -> Nat]
    BY LogAssumption DEF TypeOK
  <1>2. ASSUME NEW p \in Ops, BeginOpOutcome(p)
        PROVE UsedInv'
    BY <1>1, <1>2 DEF BeginOpOutcome, UsedInv
  <1>3. ASSUME NEW p \in Ops, NEW b \in Blocks, NEW v \in Values,
               LogWriteOutcome(p, b, v)
        PROVE UsedInv'
    <2>1. CASE used' = used
      BY <2>1 DEF UsedInv
    <2>2. CASE used[p] < Quota[p] /\ used' = [used EXCEPT ![p] = used[p] + 1]
      BY <1>1, <2>2 DEF UsedInv
    <2>3. QED
      BY <1>3, <2>1, <2>2 DEF LogWriteOutcome
  <1>4. CASE CrashOutcome
    BY <1>1, <1>4 DEF CrashOutcome, UsedInv
  <1>5. CASE used' = used
    BY <1>5 DEF UsedInv
  <1>6. QED
    BY <1>2, <1>3, <1>4, <1>5
       DEF Outcome, EndOpOutcome, EndCommit, Bread, Recycle, WriteLogOutcome,
           WriteHead, InstallOutcome, Clear, ReadHead, RecoverBlockOutcome,
           RecoverClear, opVars, vars

\* While nothing is admitted, slots only disappear.
LEMMA SpaceShrinks ==
  ASSUME TypeOK, ReservationHolds, lh' = lh, Reserved' \subseteq Reserved
  PROVE  ReservationHolds'
  <1>1. Cardinality(Reserved') <= Cardinality(Reserved)
    BY ReservedFinite, FS_Subset DEF Reserved
  <1>2. Cardinality(Reserved') \in Nat /\ Cardinality(Reserved) \in Nat
    BY ReservedFinite DEF Reserved
  <1>3. Len(lh) \in Nat /\ LOGBLOCKS \in Nat
    BY LogAssumption DEF TypeOK
  <1>4. QED
    BY <1>1, <1>2, <1>3 DEF ReservationHolds

LEMMA SpaceStep ==
  ASSUME IInv, IInv', ReservationHolds, QuotaWithin, Outcome
  PROVE  ReservationHolds'
  <1>1. /\ TypeOK /\ QuietInv /\ HeaderInv
        /\ TypeOK' /\ QuietInv' /\ HeaderInv'
    BY DEF IInv, CrashInv
  <1>2. /\ Len(lh) \in Nat /\ Len(lh') \in Nat /\ LOGBLOCKS \in Nat
        /\ MAXOPBLOCKS \in Nat /\ used \in [Ops -> Nat]
    BY <1>1, LogAssumption DEF TypeOK
  <1>3. CASE Active' = {}
    <2>1. Reserved' = {}
      BY <1>3 DEF Reserved, ReservedOf, Active
    <2>2. Cardinality(Reserved') = 0
      BY <2>1, ReservedFinite DEF Reserved
    <2>3. QED
      BY <1>1, <1>2, <2>2 DEF ReservationHolds, HeaderInv
  <1>4. ASSUME NEW p \in Ops, BeginOpOutcome(p)
        PROVE ReservationHolds'
    <2>1. CASE /\ ~LogFull /\ outstanding' = outstanding + 1
      <3>1. Cardinality(Reserved') <= Cardinality(Active') * MAXOPBLOCKS
        BY ReservedBound DEF Reserved, Active
      <3>2. Cardinality(Active') = outstanding + 1
        BY <1>1, <2>1 DEF QuietInv
      <3>3. Len(lh) + (outstanding + 1) * MAXOPBLOCKS <= LOGBLOCKS
        <4>1. outstanding \in Int
          BY <1>1 DEF TypeOK
        <4>2. QED
          BY <1>2, <2>1, <4>1 DEF LogFull
      <3>4. lh' = lh /\ Cardinality(Reserved') \in Nat
        BY <1>4, ReservedFinite DEF BeginOpOutcome, Reserved
      <3>5. outstanding \in Int
        BY <1>1 DEF TypeOK
      <3>6. (outstanding + 1) * MAXOPBLOCKS \in Int
        BY <1>2, <3>5
      <3>7. Cardinality(Reserved') <= (outstanding + 1) * MAXOPBLOCKS
        BY <3>1, <3>2
      <3>8. QED
        BY <1>2, <3>3, <3>4, <3>6, <3>7 DEF ReservationHolds
    <2>2. CASE pc' = [pc EXCEPT ![p] = "sleep"] /\ used' = used
      <3>1. Reserved' \subseteq Reserved
        BY <1>1, <2>2 DEF Reserved, ReservedOf, TypeOK
      <3>2. QED
        BY <1>1, <1>4, <3>1, SpaceShrinks DEF BeginOpOutcome
    <2>3. QED
      BY <1>4, <2>1, <2>2 DEF BeginOpOutcome
  <1>5. ASSUME NEW p \in Ops, NEW b \in Blocks, NEW v \in Values,
               LogWriteOutcome(p, b, v)
        PROVE ReservationHolds'
    <2>1. pc' = pc /\ pc[p] = "active"
      BY <1>5 DEF LogWriteOutcome
    <2>2. CASE lh' = lh /\ used' = used
      BY <1>1, <2>1, <2>2, SpaceShrinks DEF Reserved, ReservedOf
    <2>3. CASE /\ used[p] < Quota[p] /\ lh' = Append(lh, b)
               /\ used' = [used EXCEPT ![p] = used[p] + 1]
      <3>1. used[p] < MAXOPBLOCKS
        <4>1. Quota[p] \in Nat /\ Quota[p] <= MAXOPBLOCKS /\ used[p] \in Nat
          BY <1>2, LogAssumption DEF QuotaWithin
        <4>2. QED
          BY <1>2, <2>3, <4>1
      <3>2. <<p, used[p] + 1>> \in Reserved
        BY <1>1, <2>1, <3>1, SlotLeft
      <3>3. Reserved' \subseteq Reserved \ {<<p, used[p] + 1>>}
        <4>1. ASSUME NEW q \in Ops, NEW i \in Slots,
                     pc[q] = "active", i > used'[q]
              PROVE  i > used[q] /\ <<q, i>> # <<p, used[p] + 1>>
          <5>1. i \in Nat
            BY <1>2 DEF Slots
          <5>2. CASE q = p
            BY <1>2, <2>3, <4>1, <5>1, <5>2
          <5>3. CASE q # p
            BY <1>2, <2>3, <4>1, <5>1, <5>3
          <5>4. QED
            BY <5>2, <5>3
        <4>2. QED
          BY <2>1, <4>1 DEF Reserved, ReservedOf
      <3>4. Cardinality(Reserved \ {<<p, used[p] + 1>>})
              = Cardinality(Reserved) - 1
        BY <3>2, ReservedFinite, FS_RemoveElement DEF Reserved
      <3>5. IsFiniteSet(Reserved \ {<<p, used[p] + 1>>})
        BY ReservedFinite, FS_RemoveElement DEF Reserved
      <3>6. Cardinality(Reserved') <= Cardinality(Reserved) - 1
        BY <3>3, <3>4, <3>5, FS_Subset
      <3>7. Len(lh') = Len(lh) + 1
        BY <1>1, <2>3 DEF TypeOK
      <3>8. Cardinality(Reserved') \in Nat /\ Cardinality(Reserved) \in Nat
        BY ReservedFinite DEF Reserved
      <3>9. QED
        BY <1>2, <3>6, <3>7, <3>8 DEF ReservationHolds
    <2>4. QED
      BY <1>5, <2>2, <2>3 DEF LogWriteOutcome
  <1>6. ASSUME NEW p \in Ops, EndOpOutcome(p)
        PROVE ReservationHolds'
    <2>1. lh' = lh /\ used' = used
      BY <1>6 DEF EndOpOutcome
    <2>2. \A q \in Ops : pc'[q] = "active" => pc[q] = "active"
      <3>1. CASE pc' = pc
        BY <3>1
      <3>2. CASE pc' = [pc EXCEPT ![p] = "commit"]
        BY <1>1, <3>2 DEF TypeOK
      <3>3. CASE pc' = Woken([pc EXCEPT ![p] = "idle"])
        <4>1. [pc EXCEPT ![p] = "idle"]
                \in [Ops -> {"idle", "begin", "sleep", "active", "commit"}]
          BY <1>1 DEF TypeOK
        <4>2. \A q \in Ops : pc'[q] = "active"
                                <=> [pc EXCEPT ![p] = "idle"][q] = "active"
          BY <3>3, <4>1, WokenType
        <4>3. QED
          BY <1>1, <4>2 DEF TypeOK
      <3>4. QED
        BY <1>6, <3>1, <3>2, <3>3 DEF EndOpOutcome
    <2>3. Reserved' \subseteq Reserved
      BY <2>1, <2>2 DEF Reserved, ReservedOf
    <2>4. QED
      BY <1>1, <2>1, <2>3, SpaceShrinks
  <1>7. CASE UNCHANGED <<lh, pc, used>>
    BY <1>1, <1>7, SpaceShrinks DEF Reserved, ReservedOf
  <1>8. ASSUME NEW p \in Ops, EndCommit(p)
        PROVE ReservationHolds'
    <2>1. lh' = lh /\ used' = used /\ Active = {}
      BY <1>1, <1>8 DEF EndCommit, QuietInv
    <2>2. [pc EXCEPT ![p] = "idle"]
            \in [Ops -> {"idle", "begin", "sleep", "active", "commit"}]
      BY <1>1 DEF TypeOK
    <2>3. \A q \in Ops : pc'[q] = "active"
                            <=> [pc EXCEPT ![p] = "idle"][q] = "active"
      BY <1>8, <2>2, WokenType DEF EndCommit
    <2>4. Active' = {}
      BY <1>1, <2>1, <2>3 DEF Active, TypeOK
    <2>5. QED
      BY <1>3, <2>4
  <1>9. CASE WriteLogOutcome \/ WriteHead \/ InstallOutcome \/ Clear
    <2>1. phase' \notin {"up", "panic"}
      BY <1>9 DEF WriteLogOutcome, WriteHead, InstallOutcome, Clear
    <2>2. QED
      BY <1>1, <1>3, <2>1 DEF QuietInv
  <1>10. CASE ReadHead \/ RecoverBlockOutcome \/ CrashOutcome
    <2>1. phase' \notin {"up", "panic"}
      BY <1>10 DEF ReadHead, RecoverBlockOutcome, CrashOutcome
    <2>2. QED
      BY <1>1, <1>3, <2>1 DEF QuietInv
  <1>11. CASE RecoverClear
    <2>1. Active' = {}
      BY <1>1, <1>11 DEF RecoverClear, opVars, Active, QuietInv
    <2>2. QED
      BY <1>3, <2>1
  <1>12. CASE UNCHANGED vars
    BY <1>7, <1>12 DEF vars
  <1>13. ASSUME NEW b \in Blocks, Bread(b) \/ Recycle(b)
         PROVE ReservationHolds'
    BY <1>7, <1>13 DEF Bread, Recycle, opVars
  <1>14. QED
    BY <1>4, <1>5, <1>6, <1>8, <1>9, <1>10, <1>11, <1>12, <1>13 DEF Outcome

\* begin_op() reserves enough: with operations of at most MAXOPBLOCKS blocks,
\* the log and all that is still to come always fit, however many operations
\* run and whatever is left in the log.
THEOREM Reservation ==
  ASSUME QuotaWithin
  PROVE  Spec => []ReservationHolds
  <1>1. Init => IInv /\ ReservationHolds
    BY InvInit, SpaceInit
  <1>2. IInv /\ ReservationHolds /\ [Next]_vars => (IInv /\ ReservationHolds)'
    <2> SUFFICES ASSUME IInv, ReservationHolds, [Next]_vars PROVE (IInv /\ ReservationHolds)'
      OBVIOUS
    <2>1. IInv'
      BY InvStep
    <2>2. Outcome
      BY NextOutcome DEF IInv, CrashInv
    <2>3. QED
      BY <2>1, <2>2, SpaceStep
  <1>3. QED
    BY <1>1, <1>2, PTL DEF Spec

\* One block less than the reservation is enough for log_write() and
\* end_op() never to panic, absorbed writes included.
THEOREM PanicFree ==
  ASSUME QuotaBelowMax
  PROVE  Spec => []NoPanic
  <1> DEFINE J == IInv /\ ReservationHolds /\ UsedInv /\ NoPanic
  <1>1. Init => J
    BY InvInit, SpaceInit DEF Init, NoPanic
  <1>2. QuotaWithin
    <2>1. ASSUME NEW p \in Ops PROVE Quota[p] <= MAXOPBLOCKS
      BY LogAssumption DEF QuotaBelowMax
    <2>2. QED
      BY <2>1 DEF QuotaWithin
  <1>3. J /\ [Next]_vars => J'
    <2> SUFFICES ASSUME J, [Next]_vars PROVE J'
      OBVIOUS
    <2>1. IInv' /\ Outcome /\ TypeOK /\ QuietInv
      BY InvStep, NextOutcome DEF IInv, CrashInv
    <2>2. ReservationHolds' /\ UsedInv'
      BY <1>2, <2>1, SpaceStep, UsedStep
    <2>3. ASSUME NEW p \in Ops, NEW b \in Blocks, NEW v \in Values,
                 LogWriteOutcome(p, b, v)
          PROVE NoPanic'
      <3>1. pc[p] = "active"
        BY <2>3 DEF LogWriteOutcome
      <3>2. /\ used[p] \in Nat /\ Quota[p] \in Nat /\ MAXOPBLOCKS \in Nat
            /\ used[p] <= Quota[p] /\ Quota[p] < MAXOPBLOCKS
        BY <2>1, LogAssumption DEF TypeOK, UsedInv, QuotaBelowMax
      <3>3. Cardinality(Reserved) >= 1 /\ Cardinality(Reserved) \in Nat
        <4>1. used[p] < MAXOPBLOCKS
          BY <3>2
        <4>2. Cardinality(Reserved) >= 1
          BY <2>1, <3>1, <4>1, SlotLeft
        <4>3. QED
          BY <4>2, ReservedFinite DEF Reserved
      <3>4. Len(lh) \in Nat /\ LOGBLOCKS \in Nat
        BY <2>1, LogAssumption DEF TypeOK
      <3>5. ~(Len(lh) >= LOGBLOCKS)
        BY <3>3, <3>4 DEF ReservationHolds
      <3>6. outstanding >= 1
        <4>1. IsFiniteSet(Active) /\ Active # {}
          BY <3>1, LogAssumption, FS_Subset DEF Active
        <4>2. Cardinality(Active) \in Nat /\ Cardinality(Active) # 0
          BY <4>1, FS_CardinalityType, FS_EmptySet
        <4>3. QED
          BY <2>1, <4>2 DEF QuietInv
      <3>7. ~(outstanding < 1)
        BY <2>1, <3>6 DEF TypeOK
      <3>8. QED
        BY <2>3, <3>5, <3>7 DEF LogWriteOutcome, NoPanic
    <2>4. ASSUME NEW p \in Ops, EndOpOutcome(p)
          PROVE NoPanic'
      <3>1. committing # 1
        BY <2>1, <2>4, ActiveUp DEF EndOpOutcome, Active
      <3>2. QED
        BY <2>4, <3>1 DEF EndOpOutcome, NoPanic
    <2>5. NoPanic'
      BY <2>1, <2>3, <2>4
         DEF Outcome, BeginOpOutcome, EndCommit, Bread, Recycle,
             WriteLogOutcome, WriteHead, InstallOutcome, Clear, ReadHead,
             RecoverBlockOutcome, RecoverClear, CrashOutcome, vars, NoPanic
    <2>6. QED
      BY <2>1, <2>2, <2>5
  <1>4. QED
    BY <1>1, <1>3, PTL DEF Spec
=============================================================================
