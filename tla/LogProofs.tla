----------------------------- MODULE LogProofs -----------------------------
(***************************************************************************)
(* Proofs about Log, for every set of threads, blocks and values and every *)
(* size of the log.                                                        *)
(***************************************************************************)
EXTENDS Log, FiniteSetTheorems, TLAPS

-----------------------------------------------------------------------------
(* What the actions with several outcomes do, in the form proofs use.      *)

BeginOpOutcome(p) ==
  /\ Running /\ pc[p] \in {"idle", "begin"}
  /\ UNCHANGED <<disk, dlog, dhead, cache, pins, lh, committing,
                 phase, tail>>
  /\ \/ /\ pc' = [pc EXCEPT ![p] = "sleep"]
        /\ outstanding' = outstanding
        /\ used' = used
     \/ /\ pc' = [pc EXCEPT ![p] = "active"]
        /\ outstanding' = outstanding + 1
        /\ used' = [used EXCEPT ![p] = 0]
        /\ committing # 1 /\ ~LogFull

LEMMA BeginOpEffect ==
  ASSUME NEW p \in Ops, BeginOp(p)
  PROVE  BeginOpOutcome(p)
  <1>1. CASE committing = 1 \/ LogFull
    BY <1>1, Zenon DEF BeginOpOutcome, BeginOp, diskVars
  <1>2. CASE ~(committing = 1 \/ LogFull)
    BY <1>2, Zenon DEF BeginOpOutcome, BeginOp, diskVars
  <1>3. QED
    BY <1>1, <1>2

LogWriteOutcome(p, b, v) ==
  /\ Running /\ pc[p] = "active"
  /\ UNCHANGED <<disk, dlog, dhead, outstanding, committing, tail, pc>>
  /\ cache' = [cache EXCEPT ![b] = v]
  /\ \/ /\ phase' = "panic"
        /\ Len(lh) >= LOGBLOCKS \/ outstanding < 1
        /\ lh' = lh /\ pins' = pins /\ used' = used
     \/ /\ phase' = phase
        /\ ~(Len(lh) >= LOGBLOCKS)
        /\ b \in Entries(lh)
        /\ lh' = lh /\ pins' = pins /\ used' = used
     \/ /\ phase' = phase
        /\ ~(Len(lh) >= LOGBLOCKS)
        /\ b \notin Entries(lh)
        /\ used[p] < Quota[p]
        /\ lh' = Append(lh, b)
        /\ pins' = [pins EXCEPT ![b] = pins[b] + 1]
        /\ used' = [used EXCEPT ![p] = used[p] + 1]

LEMMA LogWriteEffect ==
  ASSUME NEW p \in Ops, NEW b \in Blocks, NEW v \in Values, LogWrite(p, b, v)
  PROVE  LogWriteOutcome(p, b, v)
  <1>1. CASE Len(lh) >= LOGBLOCKS \/ outstanding < 1
    BY <1>1, Zenon DEF LogWriteOutcome, LogWrite, diskVars
  <1>2. CASE ~(Len(lh) >= LOGBLOCKS \/ outstanding < 1) /\ b \in Entries(lh)
    BY <1>2, Zenon DEF LogWriteOutcome, LogWrite, diskVars
  <1>3. CASE ~(Len(lh) >= LOGBLOCKS \/ outstanding < 1) /\ b \notin Entries(lh)
    BY <1>3, Zenon DEF LogWriteOutcome, LogWrite, diskVars
  <1>4. QED
    BY <1>1, <1>2, <1>3

EndOpOutcome(p) ==
  /\ Running /\ pc[p] = "active"
  /\ outstanding' = outstanding - 1
  /\ UNCHANGED <<disk, dlog, dhead, cache, pins, lh, used>>
  /\ \/ /\ committing = 1
        /\ phase' = "panic"
        /\ pc' = pc /\ committing' = committing /\ tail' = tail
     \/ /\ committing # 1
        /\ outstanding' = 0
        /\ committing' = 1 /\ tail' = 0
        /\ pc' = [pc EXCEPT ![p] = "commit"]
        /\ \/ Len(lh) > 0 /\ phase' = "write_log"
           \/ ~(Len(lh) > 0) /\ phase' = "done"
     \/ /\ committing # 1
        /\ outstanding' # 0
        /\ pc' = Woken([pc EXCEPT ![p] = "idle"])
        /\ committing' = committing /\ phase' = phase /\ tail' = tail

LEMMA EndOpEffect ==
  ASSUME NEW p \in Ops, EndOp(p)
  PROVE  EndOpOutcome(p)
  <1>1. CASE committing = 1
    BY <1>1, Zenon DEF EndOpOutcome, EndOp, diskVars
  <1>2. CASE committing # 1 /\ outstanding' = 0
    <2>1. CASE Len(lh) > 0
      BY <1>2, <2>1, Zenon DEF EndOpOutcome, EndOp, diskVars
    <2>2. CASE ~(Len(lh) > 0)
      BY <1>2, <2>2, Zenon DEF EndOpOutcome, EndOp, diskVars
    <2>3. QED
      BY <2>1, <2>2
  <1>3. CASE committing # 1 /\ outstanding' # 0
    BY <1>3, Zenon DEF EndOpOutcome, EndOp, diskVars
  <1>4. QED
    BY <1>1, <1>2, <1>3

LEMMA WokenType ==
  ASSUME NEW f \in [Ops -> {"idle", "begin", "sleep", "active", "commit"}]
  PROVE  /\ Woken(f) \in [Ops -> {"idle", "begin", "sleep", "active", "commit"}]
         /\ \A p \in Ops : Woken(f)[p] = "active" <=> f[p] = "active"
  BY DEF Woken

\* While a copying loop runs, its block is one of the transaction's.
LEMMA TailFacts ==
  ASSUME TypeOK, HeaderInv, tail < Len(lh)
  PROVE  /\ tail + 1 \in DOMAIN lh
         /\ lh[tail + 1] \in Blocks
         /\ tail + 1 \in 1..LOGBLOCKS
  BY LogAssumption DEF TypeOK, HeaderInv

WriteLogOutcome ==
  /\ phase = "write_log" /\ tail < Len(lh)
  /\ UNCHANGED <<disk, dhead, pins, lh, outstanding, committing, pc,
                 used>>
  /\ dlog' = [dlog EXCEPT ![tail + 1] = View(lh[tail + 1])]
  /\ cache' = [cache EXCEPT ![lh[tail + 1]] = View(lh[tail + 1])]
  /\ \/ tail + 1 = Len(lh) /\ tail' = 0 /\ phase' = "write_head"
     \/ tail + 1 # Len(lh) /\ tail' = tail + 1 /\ phase' = phase

LEMMA WriteLogEffect ==
  ASSUME TypeOK, HeaderInv, WriteLog
  PROVE  WriteLogOutcome
  BY Zenon DEF WriteLogOutcome, WriteLog, HeaderInv, opVars, AfterWriteLog

InstallOutcome ==
  /\ phase = "install" /\ tail < Len(lh)
  /\ UNCHANGED <<dlog, dhead, lh, outstanding, committing, pc, used>>
  /\ disk' = [disk EXCEPT ![lh[tail + 1]] = dlog[tail + 1]]
  /\ cache' = [cache EXCEPT ![lh[tail + 1]] = dlog[tail + 1]]
  /\ pins' = [pins EXCEPT ![lh[tail + 1]] = pins[lh[tail + 1]] - 1]
  /\ tail' = tail + 1
  /\ \/ tail + 1 = Len(lh) /\ phase' = "clear"
     \/ tail + 1 # Len(lh) /\ phase' = phase

LEMMA InstallEffect ==
  ASSUME TypeOK, HeaderInv, Install
  PROVE  InstallOutcome
  <1>1. phase = "install" /\ phase # "recover" /\ tail < Len(lh)
    BY DEF Install, HeaderInv
  <1>2. QED
    BY <1>1, Zenon DEF InstallOutcome, Install, InstallBlock, Unpin, opVars

RecoverBlockOutcome ==
  /\ phase = "recover" /\ tail < Len(lh)
  /\ UNCHANGED <<dlog, dhead, lh, outstanding, committing, pc, used,
                 phase, pins>>
  /\ disk' = [disk EXCEPT ![lh[tail + 1]] = dlog[tail + 1]]
  /\ cache' = [cache EXCEPT ![lh[tail + 1]] = dlog[tail + 1]]
  /\ tail' = tail + 1

LEMMA RecoverBlockEffect ==
  ASSUME RecoverBlock
  PROVE  RecoverBlockOutcome
  BY Zenon DEF RecoverBlockOutcome, RecoverBlock, InstallBlock, Unpin, opVars,
               MoreToInstall

\* A crash tears at most the block that commit() or recovery is writing.
CrashOutcome ==
  /\ \/ dlog' = dlog
     \/ /\ phase = "write_log"
        /\ dlog' = [dlog EXCEPT ![tail + 1] = Torn]
  /\ \/ disk' = disk
     \/ /\ phase \in {"install", "recover"} /\ tail < Len(lh)
        /\ disk' = [disk EXCEPT ![lh[tail + 1]] = Torn]
  /\ cache' = [b \in Blocks |-> NoBuf]
  /\ pins' = [b \in Blocks |-> 0]
  /\ lh' = <<>> /\ dhead' = dhead
  /\ outstanding' = 0 /\ committing' = 0
  /\ phase' = "read_head" /\ tail' = 0
  /\ pc' = [p \in Ops |-> "idle"]
  /\ used' = [p \in Ops |-> 0]

LEMMA CrashEffect ==
  ASSUME TypeOK, HeaderInv, Crash
  PROVE  CrashOutcome
  <1>1. \/ dlog' = dlog
        \/ /\ phase = "write_log"
           /\ dlog' = [dlog EXCEPT ![tail + 1] = Torn]
    BY Zenon DEF Crash, Tear
  <1>2. \/ disk' = disk
        \/ /\ phase = "install" \/ (phase = "recover" /\ tail < Len(lh))
           /\ disk' = [disk EXCEPT ![lh[tail + 1]] = Torn]
    BY Zenon DEF Crash, Tear
  <1>3. phase = "install" => tail < Len(lh)
    BY DEF HeaderInv
  <1>4. QED
    BY <1>1, <1>2, <1>3, Zenon DEF CrashOutcome, Crash

Outcome ==
  \/ \E p \in Ops : BeginOpOutcome(p) \/ EndOpOutcome(p) \/ EndCommit(p)
  \/ \E p \in Ops, b \in Blocks, v \in Values : LogWriteOutcome(p, b, v)
  \/ \E b \in Blocks : Bread(b) \/ Recycle(b)
  \/ WriteLogOutcome \/ WriteHead \/ InstallOutcome \/ Clear
  \/ ReadHead \/ RecoverBlockOutcome \/ RecoverClear
  \/ CrashOutcome
  \/ UNCHANGED vars

LEMMA NextOutcome ==
  ASSUME TypeOK, HeaderInv, [Next]_vars
  PROVE  Outcome
  BY BeginOpEffect, EndOpEffect, LogWriteEffect, WriteLogEffect, InstallEffect,
     RecoverBlockEffect, CrashEffect, Zenon DEF Next, Outcome

-----------------------------------------------------------------------------
(* Type correctness.                                                       *)

LEMMA TypeInit == Init => TypeOK
  BY DEF Init, TypeOK, Contents, Recovery

LEMMA TypeStep ==
  ASSUME TypeOK, HeaderInv, CacheInv, Outcome
  PROVE  TypeOK'
  <1>1. ASSUME NEW p \in Ops, BeginOpOutcome(p)
        PROVE TypeOK'
    <2>1. /\ \/ pc' = [pc EXCEPT ![p] = "sleep"]
             \/ pc' = [pc EXCEPT ![p] = "active"]
          /\ used' = used \/ used' = [used EXCEPT ![p] = 0]
          /\ outstanding' = outstanding \/ outstanding' = outstanding + 1
      BY <1>1, Zenon DEF BeginOpOutcome
    <2>2. UNCHANGED <<disk, dlog, dhead, cache, pins, lh, committing, phase,
                      tail>>
      BY <1>1 DEF BeginOpOutcome
    <2>3. used' \in [Ops -> Nat]
      <3>1. used \in [Ops -> Nat]
        BY DEF TypeOK
      <3>2. QED
        BY <2>1, <3>1
    <2>4. pc' \in [Ops -> {"idle", "begin", "sleep", "active", "commit"}]
      BY <2>1 DEF TypeOK
    <2>5. QED
      BY <2>1, <2>2, <2>3, <2>4 DEF TypeOK
  <1>2. ASSUME NEW p \in Ops, EndOpOutcome(p)
        PROVE TypeOK'
    <2>1. pc' \in [Ops -> {"idle", "begin", "sleep", "active", "commit"}]
      <3>1. /\ pc \in [Ops -> {"idle", "begin", "sleep", "active", "commit"}]
            /\ \/ pc' = pc
               \/ pc' = [pc EXCEPT ![p] = "commit"]
               \/ pc' = Woken([pc EXCEPT ![p] = "idle"])
        BY <1>2, Zenon DEF EndOpOutcome, TypeOK
      <3>2. [pc EXCEPT ![p] = "idle"]
              \in [Ops -> {"idle", "begin", "sleep", "active", "commit"}]
        BY <3>1
      <3>3. Woken([pc EXCEPT ![p] = "idle"])
              \in [Ops -> {"idle", "begin", "sleep", "active", "commit"}]
        BY <3>2, WokenType
      <3>4. QED
        BY <3>1, <3>3
    <2>2. QED
      BY <1>2, <2>1 DEF EndOpOutcome, TypeOK, CommitPhase
  <1>3. ASSUME NEW p \in Ops, EndCommit(p)
        PROVE TypeOK'
    <2>1. pc' \in [Ops -> {"idle", "begin", "sleep", "active", "commit"}]
      BY <1>3, WokenType DEF TypeOK, EndCommit
    <2>2. QED
      BY <1>3, <2>1 DEF TypeOK, EndCommit, diskVars
  <1>4. ASSUME NEW p \in Ops, NEW b \in Blocks, NEW v \in Values,
               LogWriteOutcome(p, b, v)
        PROVE TypeOK'
    <2>1. lh \in Seq(Blocks) /\ lh' \in {lh, Append(lh, b)}
      BY <1>4 DEF LogWriteOutcome, TypeOK
    <2>2. lh' \in Seq(Blocks)
      BY <2>1
    <2>3. pins' \in [Blocks -> Nat] /\ used' \in [Ops -> Nat]
      <3>1. pins' = pins \/ pins' = [pins EXCEPT ![b] = pins[b] + 1]
        BY <1>4, Zenon DEF LogWriteOutcome
      <3>2. used' = used \/ used' = [used EXCEPT ![p] = used[p] + 1]
        BY <1>4, Zenon DEF LogWriteOutcome
      <3>3. pins \in [Blocks -> Nat] /\ used \in [Ops -> Nat]
        BY DEF TypeOK
      <3>4. QED
        BY <3>1, <3>2, <3>3
    <2>4. QED
      BY <1>4, <2>2, <2>3 DEF LogWriteOutcome, TypeOK, Contents
  <1>5. ASSUME NEW b \in Blocks, Bread(b)
        PROVE TypeOK'
    BY <1>5 DEF TypeOK, Bread, View, Contents, diskVars, opVars
  <1>6. ASSUME NEW b \in Blocks, Recycle(b)
        PROVE TypeOK'
    BY <1>6 DEF TypeOK, Recycle, Contents, diskVars, opVars
  <1>7. CASE WriteLogOutcome
    <2>1. tail < Len(lh) /\ phase = "write_log"
      BY <1>7 DEF WriteLogOutcome
    <2>2. tail + 1 \in 1..LOGBLOCKS /\ lh[tail + 1] \in Blocks
      BY <2>1, TailFacts
    <2>3. View(lh[tail + 1]) \in Contents
      BY <2>2 DEF TypeOK, View
    <2>4. /\ dlog' \in [1..LOGBLOCKS -> Contents]
          /\ cache' \in [Blocks -> Contents \cup {NoBuf}]
      BY <2>2, <2>3, <1>7 DEF WriteLogOutcome, TypeOK
    <2>5. QED
      BY <1>7, <2>4 DEF WriteLogOutcome, TypeOK, CommitPhase
  <1>8. CASE WriteHead
    BY <1>8 DEF TypeOK, WriteHead, CommitPhase, opVars
  <1>9. CASE InstallOutcome
    <2>1. tail < Len(lh) /\ phase = "install"
      BY <1>9 DEF InstallOutcome
    <2>2. /\ tail + 1 \in DOMAIN lh
          /\ tail + 1 \in 1..LOGBLOCKS
          /\ lh[tail + 1] \in Blocks
      BY <2>1, TailFacts
    <2>3. lh[tail + 1] \in Uninstalled
      <3>1. tail + 1 > tail
        BY DEF TypeOK
      <3>2. QED
        BY <2>2, <3>1 DEF Uninstalled
    <2>4. pins[lh[tail + 1]] = 1
      BY <2>1, <2>2, <2>3 DEF CacheInv, Recovery
    <2>5. pins' \in [Blocks -> Nat]
      BY <1>9, <2>2, <2>4 DEF InstallOutcome, TypeOK
    <2>6. /\ disk' \in [Blocks -> Contents]
          /\ cache' \in [Blocks -> Contents \cup {NoBuf}]
      BY <1>9, <2>2 DEF InstallOutcome, TypeOK
    <2>7. QED
      BY <1>9, <2>5, <2>6 DEF InstallOutcome, TypeOK, CommitPhase
  <1>10. CASE Clear
    BY <1>10 DEF TypeOK, Clear, CommitPhase, opVars
  <1>11. CASE ReadHead
    BY <1>11 DEF TypeOK, ReadHead, Recovery, diskVars, opVars
  <1>12. CASE RecoverBlockOutcome
    <2>1. tail + 1 \in 1..LOGBLOCKS /\ lh[tail + 1] \in Blocks
      BY <1>12, TailFacts DEF RecoverBlockOutcome
    <2>2. /\ disk' \in [Blocks -> Contents]
          /\ cache' \in [Blocks -> Contents \cup {NoBuf}]
      BY <1>12, <2>1 DEF RecoverBlockOutcome, TypeOK
    <2>3. QED
      BY <1>12, <2>2 DEF RecoverBlockOutcome, TypeOK
  <1>13. CASE RecoverClear
    BY <1>13 DEF TypeOK, RecoverClear, opVars
  <1>14. CASE CrashOutcome
    <2>1. dlog' \in [1..LOGBLOCKS -> Contents]
      BY <1>14 DEF CrashOutcome, TypeOK, Contents
    <2>2. disk' \in [Blocks -> Contents]
      BY <1>14 DEF CrashOutcome, TypeOK, Contents
    <2>3. QED
      BY <2>1, <2>2, <1>14 DEF CrashOutcome, TypeOK, Recovery, Contents
  <1>15. CASE UNCHANGED vars
    BY <1>15 DEF TypeOK, vars
  <1>16. QED
    BY <1>1, <1>2, <1>3, <1>4, <1>5, <1>6, <1>7, <1>8, <1>9, <1>10, <1>11,
       <1>12, <1>13, <1>14, <1>15 DEF Outcome

-----------------------------------------------------------------------------
(* The inductive invariant, one lemma per conjunct.                        *)

\* Between begin_op() and end_op() the log neither commits nor recovers.
LEMMA ActiveUp ==
  ASSUME QuietInv, Running, NEW p \in Ops, pc[p] = "active"
  PROVE  phase = "up" /\ committing # 1
  BY DEF QuietInv, Active, Running, CommitPhase

LEMMA AppendDistinct ==
  ASSUME NEW s \in Seq(Blocks), Distinct(s), NEW b \in Blocks,
         b \notin Entries(s)
  PROVE  Distinct(Append(s, b))
  BY DEF Distinct, Entries

LEMMA AppendEntries ==
  ASSUME NEW s \in Seq(Blocks), NEW b \in Blocks
  PROVE  Entries(Append(s, b)) = Entries(s) \cup {b}
  <1>1. /\ DOMAIN s = 1..Len(s) /\ Len(s) \in Nat
        /\ DOMAIN Append(s, b) = 1..(Len(s) + 1)
        /\ \A i \in 1..Len(s) : Append(s, b)[i] = s[i]
        /\ Append(s, b)[Len(s) + 1] = b
    OBVIOUS
  <1>2. \A i \in DOMAIN Append(s, b) : i \in DOMAIN s \/ i = Len(s) + 1
    BY <1>1
  <1>3. \A i \in DOMAIN s : i \in DOMAIN Append(s, b)
    BY <1>1
  <1>4. Len(s) + 1 \in DOMAIN Append(s, b)
    BY <1>1
  <1>5. QED
    BY <1>1, <1>2, <1>3, <1>4, Zenon DEF Entries

LEMMA EmptyDistinct == Distinct(<<>>)
  BY DEF Distinct

LEMMA HeaderStep ==
  ASSUME TypeOK, HeaderInv, QuietInv, Outcome
  PROVE  HeaderInv'
  <1> USE LogAssumption
  <1>1. ASSUME NEW p \in Ops, BeginOpOutcome(p)
        PROVE HeaderInv'
    <2>1. UNCHANGED <<dhead, lh, phase, tail>>
      BY <1>1 DEF BeginOpOutcome
    <2>2. QED
      BY <2>1 DEF HeaderInv, Distinct
  <1>2. ASSUME NEW p \in Ops, EndOpOutcome(p)
        PROVE HeaderInv'
    <2>1. phase = "up" /\ committing # 1
      BY <1>2, ActiveUp DEF EndOpOutcome
    <2>2. /\ UNCHANGED <<dhead, lh>>
          /\ \/ phase' = "write_log" /\ Len(lh) > 0 /\ tail' = 0
             \/ phase' = "done" /\ ~(Len(lh) > 0)
             \/ phase' = "up"
      BY <1>2, <2>1 DEF EndOpOutcome
    <2>3. Len(lh) = 0 => lh = <<>>
      BY DEF TypeOK
    <2>4. Len(lh) \in Nat
      BY DEF TypeOK
    <2>5. QED
      BY <2>1, <2>2, <2>3, <2>4 DEF HeaderInv, Distinct
  <1>3. ASSUME NEW p \in Ops, EndCommit(p)
        PROVE HeaderInv'
    <2>1. UNCHANGED <<dhead, lh, tail>> /\ phase = "done" /\ phase' = "up"
      BY <1>3 DEF EndCommit, diskVars
    <2>2. QED
      BY <2>1 DEF HeaderInv, Distinct
  <1>4. ASSUME NEW p \in Ops, NEW b \in Blocks, NEW v \in Values,
               LogWriteOutcome(p, b, v)
        PROVE HeaderInv'
    <2>1. phase = "up" /\ phase' \in {"up", "panic"} /\ dhead' = dhead
      BY <1>4, ActiveUp DEF LogWriteOutcome
    <2>2. dhead = <<>>
      BY <2>1 DEF HeaderInv
    <2>3. CASE lh' = lh
      BY <2>1, <2>2, <2>3 DEF HeaderInv, Distinct
    <2>4. CASE lh' # lh
      <3>1. /\ b \notin Entries(lh) /\ lh' = Append(lh, b)
            /\ ~(Len(lh) >= LOGBLOCKS)
        BY <1>4, <2>4 DEF LogWriteOutcome
      <3>2. lh \in Seq(Blocks) /\ Len(lh) \in Nat
        BY DEF TypeOK
      <3>3. Distinct(lh')
        BY <3>1, <3>2, AppendDistinct DEF HeaderInv
      <3>4. Len(lh') <= LOGBLOCKS
        BY <3>1, <3>2
      <3>5. QED
        BY <2>1, <2>2, <3>3, <3>4, EmptyDistinct DEF HeaderInv
    <2>5. QED
      BY <2>3, <2>4
  <1>5. ASSUME NEW b \in Blocks, Bread(b)
        PROVE HeaderInv'
    BY <1>5 DEF HeaderInv, Distinct, Bread, diskVars
  <1>6. ASSUME NEW b \in Blocks, Recycle(b)
        PROVE HeaderInv'
    BY <1>6 DEF HeaderInv, Distinct, Recycle, diskVars
  <1>7. CASE WriteLogOutcome
    <2>1. UNCHANGED <<dhead, lh>> /\ phase = "write_log" /\ tail < Len(lh)
      BY <1>7 DEF WriteLogOutcome
    <2>2. \/ phase' = "write_head" /\ tail' = 0
          \/ phase' = "write_log" /\ tail' = tail + 1 /\ tail + 1 # Len(lh)
      BY <1>7 DEF WriteLogOutcome
    <2>3. Len(lh) \in Nat /\ tail \in Nat
      BY DEF TypeOK
    <2>4. QED
      BY <2>1, <2>2, <2>3 DEF HeaderInv, Distinct
  <1>8. CASE WriteHead
    <2>1. /\ phase = "write_head" /\ phase' = "install" /\ dhead' = lh
          /\ UNCHANGED <<lh, tail>>
      BY <1>8 DEF WriteHead
    <2>2. tail = 0 /\ Len(lh) > 0
      BY <2>1 DEF HeaderInv
    <2>3. QED
      BY <2>1, <2>2 DEF HeaderInv, Distinct
  <1>9. CASE InstallOutcome
    <2>1. /\ UNCHANGED <<dhead, lh>> /\ phase = "install" /\ tail < Len(lh)
          /\ tail' = tail + 1
      BY <1>9 DEF InstallOutcome
    <2>2. \/ phase' = "clear" /\ tail + 1 = Len(lh)
          \/ phase' = "install" /\ tail + 1 # Len(lh)
      BY <1>9 DEF InstallOutcome
    <2>3. Len(lh) \in Nat /\ tail \in Nat
      BY DEF TypeOK
    <2>4. QED
      BY <2>1, <2>2, <2>3 DEF HeaderInv, Distinct
  <1>10. CASE Clear
    BY <1>10, EmptyDistinct DEF HeaderInv, Clear
  <1>11. CASE ReadHead
    <2>1. lh' = dhead /\ dhead' = dhead /\ tail' = 0 /\ phase' = "recover"
      BY <1>11 DEF ReadHead, diskVars
    <2>2. Len(dhead) \in Nat
      BY DEF TypeOK
    <2>3. QED
      BY <2>1, <2>2 DEF HeaderInv, Distinct
  <1>12. CASE RecoverBlockOutcome
    <2>1. /\ UNCHANGED <<dhead, lh, phase>> /\ phase = "recover"
          /\ tail < Len(lh) /\ tail' = tail + 1
      BY <1>12 DEF RecoverBlockOutcome
    <2>2. Len(lh) \in Nat /\ tail \in Nat
      BY DEF TypeOK
    <2>3. QED
      BY <2>1, <2>2 DEF HeaderInv, Distinct
  <1>13. CASE RecoverClear
    BY <1>13, EmptyDistinct DEF HeaderInv, RecoverClear
  <1>14. CASE CrashOutcome
    BY <1>14, EmptyDistinct DEF HeaderInv, CrashOutcome, Distinct
  <1>15. CASE UNCHANGED vars
    BY <1>15 DEF HeaderInv, Distinct, vars
  <1>16. QED
    BY <1>1, <1>2, <1>3, <1>4, <1>5, <1>6, <1>7, <1>8, <1>9, <1>10, <1>11,
       <1>12, <1>13, <1>14, <1>15 DEF Outcome

\* Operations starting, ending, and doing neither.
LEMMA ActiveChange ==
  ASSUME TypeOK, QuietInv, NEW p \in Ops
  PROVE  /\ IsFiniteSet(Active)
         /\ Cardinality(Active) \in Nat
         /\ p \notin Active =>
              Cardinality(Active \cup {p}) = Cardinality(Active) + 1
         /\ p \in Active =>
              Cardinality(Active \ {p}) = Cardinality(Active) - 1
         /\ Cardinality(Active \ {p}) = 0 => Active \ {p} = {}
  <1>1. IsFiniteSet(Active)
    BY LogAssumption, FS_Subset DEF Active
  <1>2. IsFiniteSet(Active \ {p})
    BY <1>1, FS_Subset
  <1>3. Cardinality(Active) \in Nat
    BY <1>1, FS_CardinalityType
  <1>4. p \notin Active => Cardinality(Active \cup {p}) = Cardinality(Active) + 1
    BY <1>1, FS_AddElement
  <1>5. p \in Active => Cardinality(Active \ {p}) = Cardinality(Active) - 1
    BY <1>1, FS_RemoveElement
  <1>6. Cardinality(Active \ {p}) = 0 => Active \ {p} = {}
    BY <1>2, FS_EmptySet
  <1>7. QED
    BY <1>1, <1>3, <1>4, <1>5, <1>6

LEMMA QuietStep ==
  ASSUME TypeOK, QuietInv, Outcome
  PROVE  QuietInv'
  <1>1. ASSUME NEW p \in Ops, BeginOpOutcome(p)
        PROVE QuietInv'
    <2>1. UNCHANGED <<phase, committing>> /\ p \notin Active
      BY <1>1 DEF BeginOpOutcome, Active
    <2>2. CASE pc' = [pc EXCEPT ![p] = "sleep"] /\ outstanding' = outstanding
      <3>1. Active' = Active
        BY <2>1, <2>2 DEF Active, TypeOK
      <3>2. QED
        BY <2>1, <2>2, <3>1 DEF QuietInv
    <2>3. CASE /\ pc' = [pc EXCEPT ![p] = "active"]
               /\ outstanding' = outstanding + 1 /\ committing # 1
      <3>1. Active' = Active \cup {p}
        BY <2>3 DEF Active, TypeOK
      <3>2. phase \in {"up"}
        BY <1>1, <2>3 DEF QuietInv, BeginOpOutcome, Running, TypeOK
      <3>3. outstanding' = Cardinality(Active')
        BY <2>1, <2>3, <3>1, ActiveChange DEF QuietInv
      <3>4. QED
        BY <2>1, <3>2, <3>3 DEF QuietInv
    <2>4. QED
      BY <1>1, <2>2, <2>3 DEF BeginOpOutcome
  <1>2. ASSUME NEW p \in Ops, EndOpOutcome(p)
        PROVE QuietInv'
    <2>1. phase = "up" /\ committing # 1 /\ p \in Active
      BY <1>2, ActiveUp DEF EndOpOutcome, Active
    <2>2. Active' = Active \ {p}
      <3>1. CASE pc' = [pc EXCEPT ![p] = "commit"]
        BY <3>1 DEF Active, TypeOK
      <3>2. CASE pc' = Woken([pc EXCEPT ![p] = "idle"])
        <4>1. [pc EXCEPT ![p] = "idle"]
                \in [Ops -> {"idle", "begin", "sleep", "active", "commit"}]
          BY DEF TypeOK
        <4>2. \A q \in Ops : pc'[q] = "active"
                                <=> [pc EXCEPT ![p] = "idle"][q] = "active"
          BY <3>2, <4>1, WokenType
        <4>3. QED
          BY <4>2 DEF Active, TypeOK
      <3>3. QED
        BY <1>2, <2>1, <3>1, <3>2 DEF EndOpOutcome
    <2>3. outstanding' = Cardinality(Active')
      BY <1>2, <2>1, <2>2, ActiveChange DEF QuietInv, EndOpOutcome
    <2>4. \/ /\ outstanding' = 0 /\ committing' = 1
             /\ phase' \in {"write_log", "done"}
          \/ committing' = committing /\ phase' = "up"
      BY <1>2, <2>1 DEF EndOpOutcome
    <2>5. outstanding' = 0 => Active' = {}
      BY <2>2, <2>3, ActiveChange
    <2>6. QED
      BY <2>1, <2>3, <2>4, <2>5 DEF QuietInv, CommitPhase
  <1>3. ASSUME NEW p \in Ops, EndCommit(p)
        PROVE QuietInv'
    <2>1. /\ phase = "done" /\ phase' = "up" /\ committing' = 0
          /\ pc[p] = "commit" /\ outstanding' = outstanding
          /\ pc' = Woken([pc EXCEPT ![p] = "idle"])
      BY <1>3 DEF EndCommit
    <2>2. [pc EXCEPT ![p] = "idle"]
            \in [Ops -> {"idle", "begin", "sleep", "active", "commit"}]
      BY DEF TypeOK
    <2>3. \A q \in Ops : pc'[q] = "active"
                            <=> [pc EXCEPT ![p] = "idle"][q] = "active"
      BY <2>1, <2>2, WokenType
    <2>4. Active' = Active
      BY <2>1, <2>3 DEF Active, TypeOK
    <2>5. QED
      BY <2>1, <2>4 DEF QuietInv, CommitPhase
  <1>4. ASSUME NEW p \in Ops, NEW b \in Blocks, NEW v \in Values,
               LogWriteOutcome(p, b, v)
        PROVE QuietInv'
    <2>1. phase = "up" /\ committing # 1
      BY <1>4, ActiveUp DEF LogWriteOutcome
    <2>2. /\ phase' \in {"up", "panic"}
          /\ UNCHANGED <<committing, outstanding, pc>>
      BY <1>4, <2>1 DEF LogWriteOutcome
    <2>3. QED
      BY <2>1, <2>2 DEF QuietInv, CommitPhase, Active
  <1>5. ASSUME NEW b \in Blocks, Bread(b)
        PROVE QuietInv'
    BY <1>5 DEF QuietInv, Active, Bread, opVars
  <1>6. ASSUME NEW b \in Blocks, Recycle(b)
        PROVE QuietInv'
    BY <1>6 DEF QuietInv, Active, Recycle, opVars
  <1>7. CASE WriteLogOutcome
    <2>1. /\ phase = "write_log" /\ phase' \in {"write_head", "write_log"}
          /\ UNCHANGED <<committing, outstanding, pc>>
      BY <1>7 DEF WriteLogOutcome
    <2>2. QED
      BY <2>1 DEF QuietInv, Active, CommitPhase
  <1>8. CASE WriteHead
    BY <1>8 DEF QuietInv, Active, WriteHead, CommitPhase, opVars
  <1>9. CASE InstallOutcome
    <2>1. /\ phase = "install" /\ phase' \in {"clear", "install"}
          /\ UNCHANGED <<committing, outstanding, pc>>
      BY <1>9 DEF InstallOutcome
    <2>2. QED
      BY <2>1 DEF QuietInv, Active, CommitPhase
  <1>10. CASE Clear
    BY <1>10 DEF QuietInv, Active, Clear, CommitPhase, opVars
  <1>11. CASE ReadHead
    BY <1>11 DEF QuietInv, Active, ReadHead, CommitPhase, opVars
  <1>12. CASE RecoverBlockOutcome
    BY <1>12 DEF QuietInv, Active, RecoverBlockOutcome, CommitPhase
  <1>13. CASE RecoverClear
    BY <1>13 DEF QuietInv, Active, RecoverClear, CommitPhase, opVars
  <1>14. CASE CrashOutcome
    <2>1. Active' = {}
      BY <1>14 DEF CrashOutcome, Active
    <2>2. QED
      BY <1>14, <2>1, FS_EmptySet DEF CrashOutcome, QuietInv, CommitPhase
  <1>15. CASE UNCHANGED vars
    BY <1>15 DEF QuietInv, Active, vars
  <1>16. QED
    BY <1>1, <1>2, <1>3, <1>4, <1>5, <1>6, <1>7, <1>8, <1>9, <1>10, <1>11,
       <1>12, <1>13, <1>14, <1>15 DEF Outcome

LEMMA UninstalledFacts ==
  ASSUME TypeOK, HeaderInv
  PROVE  /\ phase \notin {"install", "clear"} => Uninstalled = Entries(lh)
         /\ phase = "clear" => Uninstalled = {}
         /\ phase = "install" => lh[tail + 1] \in Uninstalled
         /\ Uninstalled \subseteq Entries(lh)
  <1>1. phase \notin {"install", "clear"} => Uninstalled = Entries(lh)
    BY DEF Uninstalled, Entries
  <1>2. phase = "clear" => Uninstalled = {}
    <2>1. DOMAIN lh = 1..Len(lh) /\ Len(lh) \in Nat
      BY DEF TypeOK
    <2>2. QED
      BY <2>1 DEF Uninstalled, HeaderInv
  <1>3. phase = "install" => lh[tail + 1] \in Uninstalled
    <2>1. tail \in Nat
      BY DEF TypeOK
    <2>2. phase = "install" => tail + 1 \in DOMAIN lh
      BY TailFacts DEF HeaderInv
    <2>3. QED
      BY <2>1, <2>2 DEF Uninstalled
  <1>4. Uninstalled \subseteq Entries(lh)
    BY DEF Uninstalled, Entries
  <1>5. QED
    BY <1>1, <1>2, <1>3, <1>4

\* Copying a pinned block to the log leaves the cache as it is.
LEMMA WriteLogCache ==
  ASSUME TypeOK, HeaderInv, CacheInv, WriteLogOutcome
  PROVE  /\ cache' = cache
         /\ dlog' = [dlog EXCEPT ![tail + 1] = cache[lh[tail + 1]]]
  <1>1. phase = "write_log" /\ tail < Len(lh)
    BY DEF WriteLogOutcome
  <1>2. tail + 1 \in DOMAIN lh /\ lh[tail + 1] \in Blocks
    BY <1>1, TailFacts
  <1>3. lh[tail + 1] \in Uninstalled
    BY <1>1, <1>2, UninstalledFacts DEF Entries
  <1>4. pins[lh[tail + 1]] = 1
    BY <1>1, <1>2, <1>3 DEF CacheInv, Recovery
  <1>5. cache[lh[tail + 1]] # NoBuf
    BY <1>1, <1>2, <1>4 DEF CacheInv
  <1>6. View(lh[tail + 1]) = cache[lh[tail + 1]]
    BY <1>5 DEF View
  <1>7. QED
    BY <1>2, <1>6 DEF WriteLogOutcome, TypeOK

\* install_trans(0) installs a block and is done with it.
LEMMA InstallUninstalled ==
  ASSUME TypeOK, HeaderInv, InstallOutcome
  PROVE  /\ Uninstalled' = Uninstalled \ {lh[tail + 1]}
         /\ phase' \in {"install", "clear"}
  <1>1. /\ lh' = lh /\ tail' = tail + 1 /\ phase = "install"
        /\ tail < Len(lh) /\ phase' \in {"install", "clear"}
    BY DEF InstallOutcome
  <1>2. tail + 1 \in DOMAIN lh /\ DOMAIN lh \subseteq Nat /\ tail \in Nat
    BY <1>1, TailFacts DEF TypeOK
  <1>3. \A i \in DOMAIN lh : lh[i] = lh[tail + 1] => i = tail + 1
    BY <1>2 DEF HeaderInv, Distinct
  <1>4. Uninstalled = {lh[i] : i \in {j \in DOMAIN lh : j > tail}}
    BY <1>1 DEF Uninstalled
  <1>5. Uninstalled' = {lh[i] : i \in {j \in DOMAIN lh : j > tail + 1}}
    BY <1>1 DEF Uninstalled
  <1>6. \A j \in DOMAIN lh : j > tail <=> j > tail + 1 \/ j = tail + 1
    BY <1>2
  <1>7. QED
    BY <1>1, <1>2, <1>3, <1>4, <1>5, <1>6

LEMMA CacheStep ==
  ASSUME TypeOK, HeaderInv, HeaderInv', TypeOK', QuietInv, CacheInv, Outcome
  PROVE  CacheInv'
  <1> USE LogAssumption
  <1>1. ASSUME NEW p \in Ops, BeginOpOutcome(p)
        PROVE CacheInv'
    BY <1>1 DEF BeginOpOutcome, CacheInv, Uninstalled
  <1>2. ASSUME NEW p \in Ops, EndOpOutcome(p)
        PROVE CacheInv'
    <2>1. phase = "up" /\ committing # 1
      BY <1>2, ActiveUp DEF EndOpOutcome
    <2>2. /\ UNCHANGED <<disk, cache, pins, lh>>
          /\ phase' \in {"write_log", "done", "up"}
      BY <1>2, <2>1 DEF EndOpOutcome
    <2>3. Uninstalled' = Uninstalled
      BY <2>1, <2>2, UninstalledFacts DEF Uninstalled
    <2>4. QED
      BY <2>1, <2>2, <2>3 DEF CacheInv, Recovery
  <1>3. ASSUME NEW p \in Ops, EndCommit(p)
        PROVE CacheInv'
    <2>1. /\ UNCHANGED <<disk, cache, pins, lh>>
          /\ phase = "done" /\ phase' = "up"
      BY <1>3 DEF EndCommit, diskVars
    <2>2. Uninstalled' = Uninstalled
      BY <2>1 DEF Uninstalled
    <2>3. QED
      BY <2>1, <2>2 DEF CacheInv, Recovery
  <1>4. ASSUME NEW p \in Ops, NEW b \in Blocks, NEW v \in Values,
               LogWriteOutcome(p, b, v)
        PROVE CacheInv'
    <2>1. phase = "up"
      BY <1>4, ActiveUp DEF LogWriteOutcome
    <2>2. /\ cache' = [cache EXCEPT ![b] = v] /\ disk' = disk
          /\ cache \in [Blocks -> Contents \cup {NoBuf}]
          /\ pins \in [Blocks -> Nat]
          /\ v # NoBuf /\ Uninstalled = Entries(lh)
      BY <1>4, <2>1, UninstalledFacts DEF LogWriteOutcome, TypeOK
    <2>3. CASE /\ phase' \in {"panic"} /\ lh' = lh /\ pins' = pins
      <3>1. Uninstalled' = Uninstalled
        BY <2>1, <2>3 DEF Uninstalled
      <3>2. QED
        BY <2>1, <2>3, <3>1 DEF CacheInv, Recovery
    <2>4. CASE /\ phase' = phase /\ lh' = lh /\ pins' = pins
               /\ b \in Entries(lh)
      <3>1. Uninstalled' = Uninstalled
        BY <2>1, <2>4 DEF Uninstalled
      <3>2. pins[b] = 1
        BY <2>1, <2>2, <2>4 DEF CacheInv, Recovery
      <3>3. QED
        BY <2>1, <2>2, <2>4, <3>1, <3>2 DEF CacheInv, Recovery
    <2>5. CASE /\ phase' = phase /\ lh' = Append(lh, b)
               /\ pins' = [pins EXCEPT ![b] = pins[b] + 1]
               /\ b \notin Entries(lh)
      <3>1. Uninstalled' = Uninstalled \cup {b}
        <4>1. Uninstalled' = Entries(lh')
          BY <2>1, <2>5 DEF Uninstalled, Entries
        <4>2. lh \in Seq(Blocks)
          BY DEF TypeOK
        <4>3. Entries(Append(lh, b)) = Entries(lh) \cup {b}
          BY <4>2, AppendEntries
        <4>4. QED
          BY <2>2, <2>5, <4>1, <4>3
      <3>2. pins[b] = 0
        BY <2>1, <2>2, <2>5 DEF CacheInv, Recovery
      <3>3. pins'[b] = 1 /\ \A c \in Blocks \ {b} : pins'[c] = pins[c]
        BY <2>2, <2>5, <3>2
      <3>4. cache'[b] = v /\ \A c \in Blocks \ {b} : cache'[c] = cache[c]
        BY <2>2
      <3>5. QED
        BY <2>1, <2>2, <2>5, <3>1, <3>3, <3>4 DEF CacheInv, Recovery
    <2>6. QED
      BY <1>4, <2>3, <2>4, <2>5 DEF LogWriteOutcome
  <1>5. ASSUME NEW b \in Blocks, Bread(b)
        PROVE CacheInv'
    <2>1. /\ UNCHANGED <<disk, pins, lh, phase, tail>>
          /\ cache' = [cache EXCEPT ![b] = disk[b]]
          /\ cache[b] = NoBuf /\ phase \notin Recovery \cup {"panic"}
      BY <1>5 DEF Bread, View, diskVars, Running
    <2>2. Uninstalled' = Uninstalled
      BY <2>1 DEF Uninstalled
    <2>3. pins[b] = 0
      BY <2>1 DEF CacheInv
    <2>4. QED
      BY <2>1, <2>2, <2>3 DEF CacheInv, Recovery, TypeOK
  <1>6. ASSUME NEW b \in Blocks, Recycle(b)
        PROVE CacheInv'
    <2>1. /\ UNCHANGED <<disk, pins, lh, phase, tail>>
          /\ cache' = [cache EXCEPT ![b] = NoBuf]
          /\ pins[b] = 0
      BY <1>6 DEF Recycle, Recyclable, diskVars
    <2>2. Uninstalled' = Uninstalled
      BY <2>1 DEF Uninstalled
    <2>3. QED
      BY <2>1, <2>2 DEF CacheInv, TypeOK
  <1>7. CASE WriteLogOutcome
    <2>1. /\ UNCHANGED <<disk, pins, lh, cache>> /\ phase = "write_log"
          /\ phase' \in {"write_log", "write_head"}
      BY <1>7, WriteLogCache DEF WriteLogOutcome
    <2>2. Uninstalled' = Uninstalled
      BY <2>1 DEF Uninstalled
    <2>3. QED
      BY <2>1, <2>2 DEF CacheInv, Recovery
  <1>8. CASE WriteHead
    <2>1. /\ UNCHANGED <<disk, pins, lh, cache, tail>> /\ phase = "write_head"
          /\ phase' = "install" /\ tail = 0
      BY <1>8 DEF WriteHead, HeaderInv
    <2>2. DOMAIN lh = 1..Len(lh)
      BY DEF TypeOK
    <2>3. Uninstalled' = Uninstalled
      BY <2>1, <2>2 DEF Uninstalled
    <2>4. QED
      BY <2>1, <2>3 DEF CacheInv, Recovery
  <1>9. CASE InstallOutcome
    <2>1. /\ phase = "install" /\ phase' \in {"install", "clear"}
          /\ Uninstalled' = Uninstalled \ {lh[tail + 1]}
          /\ lh[tail + 1] \in Uninstalled /\ lh[tail + 1] \in Blocks
      BY <1>9, InstallUninstalled, UninstalledFacts, TailFacts
         DEF InstallOutcome
    <2>2. pins[lh[tail + 1]] = 1
      BY <2>1 DEF CacheInv, Recovery
    <2>3. /\ pins'[lh[tail + 1]] = 0
          /\ cache'[lh[tail + 1]] = disk'[lh[tail + 1]]
          /\ \A c \in Blocks \ {lh[tail + 1]} :
               /\ pins'[c] = pins[c]
               /\ cache'[c] = cache[c] /\ disk'[c] = disk[c]
      BY <1>9, <2>1, <2>2 DEF InstallOutcome, TypeOK
    <2>4. QED
      BY <2>1, <2>3 DEF CacheInv, Recovery
  <1>10. CASE Clear
    <2>1. /\ UNCHANGED <<disk, pins, cache>> /\ phase = "clear"
          /\ phase' = "done" /\ lh' = <<>>
      BY <1>10 DEF Clear
    <2>2. Uninstalled = {} /\ Uninstalled' = {}
      BY <2>1, UninstalledFacts DEF Uninstalled
    <2>3. QED
      BY <2>1, <2>2 DEF CacheInv, Recovery
  <1>11. CASE ReadHead
    BY <1>11 DEF ReadHead, CacheInv, Recovery, diskVars
  <1>12. CASE RecoverBlockOutcome
    <2>1. lh[tail + 1] \in Blocks /\ phase = "recover" /\ phase' = "recover"
          /\ pins' = pins
      BY <1>12, TailFacts DEF RecoverBlockOutcome
    <2>2. /\ cache'[lh[tail + 1]] = disk'[lh[tail + 1]]
          /\ \A c \in Blocks \ {lh[tail + 1]} :
               cache'[c] = cache[c] /\ disk'[c] = disk[c]
      BY <1>12, <2>1 DEF RecoverBlockOutcome, TypeOK
    <2>3. QED
      BY <2>1, <2>2 DEF CacheInv, Recovery
  <1>13. CASE RecoverClear
    <2>1. /\ UNCHANGED <<disk, pins, cache>> /\ phase = "recover"
          /\ phase' = "up" /\ lh' = <<>>
      BY <1>13 DEF RecoverClear
    <2>2. Uninstalled' = {}
      BY <2>1 DEF Uninstalled
    <2>3. QED
      BY <2>1, <2>2 DEF CacheInv, Recovery
  <1>14. CASE CrashOutcome
    BY <1>14 DEF CrashOutcome, CacheInv, Recovery
  <1>15. CASE UNCHANGED vars
    BY <1>15 DEF CacheInv, Uninstalled, vars
  <1>16. QED
    BY <1>1, <1>2, <1>3, <1>4, <1>5, <1>6, <1>7, <1>8, <1>9, <1>10, <1>11,
       <1>12, <1>13, <1>14, <1>15 DEF Outcome

\* A pinned block is neither read in nor recycled.
LEMMA PinnedCached ==
  ASSUME TypeOK, HeaderInv, CacheInv, NEW i \in DOMAIN lh,
         phase \in {"write_log", "write_head"} \/ (phase = "install" /\ i > tail)
  PROVE  /\ lh[i] \in Blocks
         /\ pins[lh[i]] = 1
         /\ cache[lh[i]] # NoBuf
  <1>1. lh[i] \in Blocks
    BY DEF TypeOK
  <1>2. lh[i] \in Uninstalled
    BY DEF Uninstalled
  <1>3. pins[lh[i]] = 1
    BY <1>1, <1>2 DEF CacheInv, Recovery
  <1>4. QED
    BY <1>1, <1>3 DEF CacheInv

LEMMA CopyStep ==
  ASSUME TypeOK, HeaderInv, QuietInv, CacheInv, CopyInv, Outcome
  PROVE  CopyInv'
  <1>1. ASSUME NEW p \in Ops, BeginOpOutcome(p)
        PROVE CopyInv'
    BY <1>1 DEF BeginOpOutcome, CopyInv
  <1>2. ASSUME NEW p \in Ops, EndOpOutcome(p)
        PROVE CopyInv'
    <2>1. phase = "up" /\ committing # 1
      BY <1>2, ActiveUp DEF EndOpOutcome
    <2>2. \/ phase' = "write_log" /\ tail' = 0
          \/ phase' \in {"done", "up"}
      BY <1>2, <2>1 DEF EndOpOutcome
    <2>3. lh' = lh /\ DOMAIN lh = 1..Len(lh)
      BY <1>2 DEF EndOpOutcome, TypeOK
    <2>4. QED
      BY <2>2, <2>3 DEF CopyInv
  <1>3. ASSUME NEW p \in Ops, EndCommit(p)
        PROVE CopyInv'
    BY <1>3 DEF EndCommit, CopyInv
  <1>4. ASSUME NEW p \in Ops, NEW b \in Blocks, NEW v \in Values,
               LogWriteOutcome(p, b, v)
        PROVE CopyInv'
    <2>1. phase' \in {"up", "panic"}
      BY <1>4, ActiveUp DEF LogWriteOutcome
    <2>2. QED
      BY <2>1 DEF CopyInv
  <1>5. ASSUME NEW b \in Blocks, Bread(b)
        PROVE CopyInv'
    <2>1. /\ UNCHANGED <<disk, dlog, lh, phase, tail>> /\ cache[b] = NoBuf
          /\ cache' = [cache EXCEPT ![b] = View(b)]
      BY <1>5 DEF Bread, diskVars
    <2>2. ASSUME NEW i \in DOMAIN lh,
                 \/ phase \in {"write_log", "write_head"}
                 \/ phase = "install" /\ i > tail
          PROVE cache'[lh[i]] = cache[lh[i]]
      <3>1. lh[i] \in Blocks /\ lh[i] # b
        BY <2>1, <2>2, PinnedCached
      <3>2. QED
        BY <2>1, <3>1 DEF TypeOK
    <2>3. QED
      BY <2>1, <2>2 DEF CopyInv
  <1>6. ASSUME NEW b \in Blocks, Recycle(b)
        PROVE CopyInv'
    <2>1. /\ UNCHANGED <<disk, dlog, lh, phase, tail>> /\ pins[b] = 0
          /\ cache' = [cache EXCEPT ![b] = NoBuf]
      BY <1>6 DEF Recycle, Recyclable, diskVars
    <2>2. ASSUME NEW i \in DOMAIN lh,
                 \/ phase \in {"write_log", "write_head"}
                 \/ phase = "install" /\ i > tail
          PROVE cache'[lh[i]] = cache[lh[i]]
      <3>1. lh[i] \in Blocks /\ lh[i] # b
        BY <2>1, <2>2, PinnedCached
      <3>2. QED
        BY <2>1, <3>1 DEF TypeOK
    <2>3. QED
      BY <2>1, <2>2 DEF CopyInv
  <1>7. CASE WriteLogOutcome
    <2>1. /\ cache' = cache /\ lh' = lh /\ phase = "write_log"
          /\ dlog' = [dlog EXCEPT ![tail + 1] = cache[lh[tail + 1]]]
          /\ tail + 1 \in 1..LOGBLOCKS
      BY <1>7, WriteLogCache, TailFacts DEF WriteLogOutcome
    <2>2. \/ phase' = "write_head" /\ tail + 1 = Len(lh)
          \/ phase' = "write_log" /\ tail' = tail + 1
      BY <1>7 DEF WriteLogOutcome
    <2>3. /\ dlog \in [1..LOGBLOCKS -> Contents] /\ tail \in Nat
          /\ DOMAIN lh = 1..Len(lh) /\ Len(lh) \in Nat
          /\ Len(lh) <= LOGBLOCKS
      BY DEF TypeOK, HeaderInv
    <2>4. ASSUME NEW i \in DOMAIN lh, i <= tail + 1
          PROVE dlog'[i] = cache'[lh'[i]]
      <3>1. CASE i = tail + 1
        BY <2>1, <2>3, <3>1
      <3>2. CASE i # tail + 1
        <4>1. i <= tail
          BY <2>3, <2>4, <3>2
        <4>2. dlog[i] = cache[lh[i]]
          BY <2>1, <4>1 DEF CopyInv
        <4>3. dlog'[i] = dlog[i]
          BY <2>1, <2>3, <3>2
        <4>4. QED
          BY <2>1, <4>2, <4>3
      <3>3. QED
        BY <3>1, <3>2
    <2>5. CASE phase' = "write_head" /\ tail + 1 = Len(lh)
      BY <2>1, <2>3, <2>4, <2>5 DEF CopyInv
    <2>6. CASE phase' = "write_log" /\ tail' = tail + 1
      BY <2>1, <2>3, <2>4, <2>6 DEF CopyInv
    <2>7. QED
      BY <2>2, <2>5, <2>6
  <1>8. CASE WriteHead
    <2>1. /\ UNCHANGED <<disk, dlog, cache, lh, tail>> /\ tail = 0
          /\ phase = "write_head" /\ phase' = "install"
      BY <1>8 DEF WriteHead, HeaderInv
    <2>2. DOMAIN lh = 1..Len(lh)
      BY DEF TypeOK
    <2>3. QED
      BY <2>1, <2>2 DEF CopyInv
  <1>9. CASE InstallOutcome
    <2>1. /\ UNCHANGED <<dlog, lh>> /\ tail' = tail + 1 /\ phase = "install"
          /\ tail + 1 \in DOMAIN lh /\ lh[tail + 1] \in Blocks
          /\ phase' \in {"install", "clear"}
      BY <1>9, TailFacts DEF InstallOutcome
    <2>2. /\ tail \in Nat /\ DOMAIN lh \subseteq Nat
          /\ \A i \in DOMAIN lh : lh[i] \in Blocks
      BY DEF TypeOK
    <2>3. \A i \in DOMAIN lh : i # tail + 1 => lh[i] # lh[tail + 1]
      BY <2>1 DEF HeaderInv, Distinct
    <2>4. \A i \in DOMAIN lh : i # tail + 1 =>
            cache'[lh[i]] = cache[lh[i]] /\ disk'[lh[i]] = disk[lh[i]]
      BY <1>9, <2>1, <2>2, <2>3 DEF InstallOutcome, TypeOK
    <2>5. disk'[lh[tail + 1]] = dlog[tail + 1]
      BY <1>9, <2>1 DEF InstallOutcome, TypeOK
    <2>6. ASSUME NEW i \in DOMAIN lh
          PROVE  /\ i <= tail + 1 => disk'[lh[i]] = dlog[i]
                 /\ i > tail + 1 => dlog[i] = cache'[lh[i]]
      <3>1. CASE i = tail + 1
        BY <2>2, <2>5, <3>1
      <3>2. CASE i # tail + 1
        <4>1. i <= tail \/ i > tail + 1
          BY <2>2, <3>2
        <4>2. /\ i <= tail => disk[lh[i]] = dlog[i]
              /\ i > tail => dlog[i] = cache[lh[i]]
          BY <2>1 DEF CopyInv
        <4>3. QED
          BY <2>2, <2>4, <3>2, <4>1, <4>2
      <3>3. QED
        BY <3>1, <3>2
    <2>7. QED
      BY <2>1, <2>6 DEF CopyInv
  <1>10. CASE Clear
    BY <1>10 DEF Clear, CopyInv
  <1>11. CASE ReadHead
    <2>1. lh' = dhead /\ tail' = 0 /\ phase' = "recover"
      BY <1>11 DEF ReadHead
    <2>2. DOMAIN dhead = 1..Len(dhead)
      BY DEF TypeOK
    <2>3. QED
      BY <2>1, <2>2 DEF CopyInv
  <1>12. CASE RecoverBlockOutcome
    <2>1. /\ UNCHANGED <<dlog, lh, phase>> /\ tail' = tail + 1
          /\ phase = "recover" /\ tail + 1 \in DOMAIN lh
          /\ lh[tail + 1] \in Blocks
      BY <1>12, TailFacts DEF RecoverBlockOutcome
    <2>2. /\ tail \in Nat /\ DOMAIN lh \subseteq Nat
          /\ \A i \in DOMAIN lh : lh[i] \in Blocks
      BY DEF TypeOK
    <2>3. \A i \in DOMAIN lh : i # tail + 1 => lh[i] # lh[tail + 1]
      BY <2>1 DEF HeaderInv, Distinct
    <2>4. \A i \in DOMAIN lh : i # tail + 1 => disk'[lh[i]] = disk[lh[i]]
      BY <1>12, <2>1, <2>2, <2>3 DEF RecoverBlockOutcome, TypeOK
    <2>5. disk'[lh[tail + 1]] = dlog[tail + 1]
      BY <1>12, <2>1 DEF RecoverBlockOutcome, TypeOK
    <2>6. \A i \in DOMAIN lh : i <= tail + 1 => i <= tail \/ i = tail + 1
      BY <2>2
    <2>7. QED
      BY <2>1, <2>4, <2>5, <2>6 DEF CopyInv
  <1>13. CASE RecoverClear
    BY <1>13 DEF RecoverClear, CopyInv
  <1>14. CASE CrashOutcome
    BY <1>14 DEF CrashOutcome, CopyInv
  <1>15. CASE UNCHANGED vars
    BY <1>15 DEF CopyInv, vars
  <1>16. QED
    BY <1>1, <1>2, <1>3, <1>4, <1>5, <1>6, <1>7, <1>8, <1>9, <1>10, <1>11,
       <1>12, <1>13, <1>14, <1>15 DEF Outcome

-----------------------------------------------------------------------------
(* The invariant holds.                                                    *)

IInv == TypeOK /\ CrashInv

LEMMA InvInit == Init => IInv
  <1> SUFFICES ASSUME Init PROVE IInv
    OBVIOUS
  <1>1. TypeOK
    BY TypeInit
  <1>2. HeaderInv
    BY EmptyDistinct, LogAssumption DEF Init, HeaderInv
  <1>3. CacheInv
    BY DEF Init, CacheInv, Recovery
  <1>4. CopyInv
    BY DEF Init, CopyInv
  <1>5. QuietInv
    <2>1. Active = {}
      BY DEF Init, Active
    <2>2. QED
      BY <2>1, FS_EmptySet DEF Init, QuietInv, CommitPhase
  <1>6. QED
    BY <1>1, <1>2, <1>3, <1>4, <1>5 DEF IInv, CrashInv

LEMMA InvStep == IInv /\ [Next]_vars => IInv'
  <1> SUFFICES ASSUME IInv, [Next]_vars PROVE IInv'
    OBVIOUS
  <1>1. TypeOK /\ HeaderInv /\ CacheInv /\ CopyInv /\ QuietInv
    BY DEF IInv, CrashInv
  <1>2. Outcome
    BY <1>1, NextOutcome
  <1>3. TypeOK'
    BY <1>1, <1>2, TypeStep
  <1>4. HeaderInv'
    BY <1>1, <1>2, HeaderStep
  <1>5. QuietInv'
    BY <1>1, <1>2, QuietStep
  <1>6. CacheInv'
    BY <1>1, <1>2, <1>3, <1>4, CacheStep
  <1>7. CopyInv'
    BY <1>1, <1>2, CopyStep
  <1>8. QED
    BY <1>3, <1>4, <1>5, <1>6, <1>7 DEF IInv, CrashInv

\* begin_op(), log_write(), end_op(), commit() and recovery keep the types and
\* the relation between log, disk and cache that crash recovery relies on.
THEOREM Invariance == Spec => [](TypeOK /\ CrashInv)
  <1>1. Init => IInv
    BY InvInit
  <1>2. IInv /\ [Next]_vars => IInv'
    BY InvStep
  <1>3. QED
    BY <1>1, <1>2, PTL DEF Spec, IInv

-----------------------------------------------------------------------------
(* Every step of the log is a step of AtomicDisk, or changes nothing that  *)
(* AtomicDisk sees.                                                        *)

LEMMA DurableFacts ==
  ASSUME TypeOK, HeaderInv
  PROVE  /\ Durable = [b \in Blocks |-> Durable[b]]
         /\ \A i \in DOMAIN dhead : Durable[dhead[i]] = dlog[i]
         /\ \A b \in Blocks : b \notin Entries(dhead) => Durable[b] = disk[b]
  <1>1. Durable = [b \in Blocks |-> Durable[b]]
    BY DEF Durable
  <1>2. ASSUME NEW i \in DOMAIN dhead
        PROVE Durable[dhead[i]] = dlog[i]
    <2>1. dhead[i] \in Blocks /\ dhead[i] \in Entries(dhead)
      BY DEF TypeOK, Entries
    <2>2. (CHOOSE j \in DOMAIN dhead : dhead[j] = dhead[i]) = i
      BY DEF HeaderInv, Distinct
    <2>3. QED
      BY <2>1, <2>2 DEF Durable
  <1>3. ASSUME NEW b \in Blocks, b \notin Entries(dhead)
        PROVE Durable[b] = disk[b]
    BY <1>3 DEF Durable
  <1>4. QED
    BY <1>1, <1>2, <1>3

LEMMA SameDurable ==
  ASSUME UNCHANGED <<disk, dlog, dhead>>
  PROVE  Durable' = Durable
  BY DEF Durable, Entries

LEMMA SamePending ==
  ASSUME UNCHANGED <<disk, cache>>, phase \notin Recovery, phase' \notin Recovery
  PROVE  Pending' = Pending
  BY DEF Pending, View

LEMMA NoHeader ==
  ASSUME dhead = <<>>
  PROVE  Durable = [b \in Blocks |-> disk[b]]
  BY DEF Durable, Entries

\* Equal contents of every block are equal disks.
LEMMA PendingFacts ==
  /\ phase \in Recovery => Pending = Durable
  /\ phase \notin Recovery => Pending = [b \in Blocks |-> View(b)]
  BY DEF Pending

LEMMA RefineInit == Init => AD!Init
  <1> SUFFICES ASSUME Init PROVE AD!Init
    OBVIOUS
  <1>1. disk \in [Blocks -> Values] /\ dhead = <<>> /\ phase = "read_head"
    BY DEF Init
  <1>2. Durable = disk
    BY <1>1, NoHeader
  <1>3. Pending = Durable
    BY <1>1, PendingFacts DEF Recovery
  <1>4. Active = {}
    BY DEF Init, Active
  <1>5. QED
    BY <1>1, <1>2, <1>3, <1>4 DEF AD!Init

LEMMA RefineOps ==
  ASSUME IInv, NEW p \in Ops,
         BeginOpOutcome(p) \/ EndOpOutcome(p) \/ EndCommit(p)
  PROVE  [AD!Next]_(AD!vars)
  <1>1. UNCHANGED <<disk, dlog, dhead, cache>>
    BY DEF BeginOpOutcome, EndOpOutcome, EndCommit, diskVars
  <1>2. phase \notin Recovery /\ phase' \notin Recovery
    BY DEF BeginOpOutcome, EndOpOutcome, EndCommit, Running, Recovery
  <1>3. Durable' = Durable /\ Pending' = Pending
    BY <1>1, <1>2, SameDurable, SamePending
  <1>4. pc \in [Ops -> {"idle", "begin", "sleep", "active", "commit"}]
    BY DEF IInv, TypeOK
  <1>5. CASE BeginOpOutcome(p)
    <2>1. CASE pc' = [pc EXCEPT ![p] = "sleep"]
      <3>1. Active' = Active
        BY <1>4, <1>5, <2>1 DEF Active, BeginOpOutcome
      <3>2. QED
        BY <1>3, <3>1 DEF AD!vars
    <2>2. CASE pc' = [pc EXCEPT ![p] = "active"]
      <3>1. Active' = Active \cup {p} /\ p \notin Active
        BY <1>4, <1>5, <2>2 DEF Active, BeginOpOutcome
      <3>2. AD!Begin(p)
        BY <1>3, <3>1 DEF AD!Begin
      <3>3. QED
        BY <3>2 DEF AD!Next
    <2>3. QED
      BY <1>5, <2>1, <2>2 DEF BeginOpOutcome
  <1>6. CASE EndOpOutcome(p)
    <2>1. CASE pc' = pc
      <3>1. Active' = Active
        BY <2>1 DEF Active
      <3>2. QED
        BY <1>3, <3>1 DEF AD!vars
    <2>2. CASE \/ pc' = [pc EXCEPT ![p] = "commit"]
               \/ pc' = Woken([pc EXCEPT ![p] = "idle"])
      <3>1. [pc EXCEPT ![p] = "idle"]
              \in [Ops -> {"idle", "begin", "sleep", "active", "commit"}]
        BY <1>4
      <3>2. \A q \in Ops : Woken([pc EXCEPT ![p] = "idle"])[q] = "active"
                              <=> [pc EXCEPT ![p] = "idle"][q] = "active"
        BY <3>1, WokenType
      <3>3. \A q \in Ops : pc'[q] = "active" <=> pc[q] = "active" /\ q # p
        BY <1>4, <2>2, <3>2
      <3>4. Active' = Active \ {p} /\ p \in Active
        BY <1>6, <3>3 DEF Active, EndOpOutcome
      <3>5. AD!End(p)
        BY <1>3, <3>4 DEF AD!End
      <3>6. QED
        BY <3>5 DEF AD!Next
    <2>3. QED
      BY <1>6, <2>1, <2>2 DEF EndOpOutcome
  <1>7. CASE EndCommit(p)
    <2>1. [pc EXCEPT ![p] = "idle"]
            \in [Ops -> {"idle", "begin", "sleep", "active", "commit"}]
      BY <1>4
    <2>2. pc' = Woken([pc EXCEPT ![p] = "idle"]) /\ pc[p] = "commit"
      BY <1>7 DEF EndCommit
    <2>3. \A q \in Ops : pc'[q] = "active"
                            <=> [pc EXCEPT ![p] = "idle"][q] = "active"
      BY <2>1, <2>2, WokenType
    <2>4. Active' = Active
      BY <1>4, <2>2, <2>3 DEF Active
    <2>5. QED
      BY <1>3, <2>4 DEF AD!vars
  <1>8. QED
    BY <1>5, <1>6, <1>7

LEMMA RefineWrite ==
  ASSUME IInv, NEW p \in Ops, NEW b \in Blocks, NEW v \in Values,
         LogWriteOutcome(p, b, v)
  PROVE  AD!Write(p, b, v)
  <1>1. /\ UNCHANGED <<disk, dlog, dhead, pc>> /\ pc[p] = "active"
        /\ cache' = [cache EXCEPT ![b] = v]
        /\ phase \notin Recovery /\ phase' \notin Recovery
    BY DEF LogWriteOutcome, Running, Recovery
  <1>2. Durable' = Durable /\ Active' = Active /\ p \in Active
    BY <1>1, SameDurable DEF Active
  <1>3. cache \in [Blocks -> Contents \cup {NoBuf}] /\ v # NoBuf
    BY LogAssumption DEF IInv, TypeOK
  <1>4. Pending = [c \in Blocks |-> View(c)]
    BY <1>1, PendingFacts
  <1>5. Pending' = [c \in Blocks |-> View(c)']
    BY <1>1 DEF Pending
  <1>6. \A c \in Blocks : View(c)' = IF c = b THEN v ELSE View(c)
    BY <1>1, <1>3 DEF View
  <1>7. Pending' = [Pending EXCEPT ![b] = v]
    BY <1>4, <1>5, <1>6
  <1>8. QED
    BY <1>2, <1>7 DEF AD!Write

LEMMA RefineCache ==
  ASSUME IInv, NEW b \in Blocks, Bread(b) \/ Recycle(b)
  PROVE  UNCHANGED AD!vars
  <1>1. /\ UNCHANGED <<disk, dlog, dhead, phase, pc>>
        /\ phase \notin Recovery /\ phase # "panic"
        /\ \A c \in Blocks \ {b} : cache'[c] = cache[c]
    BY DEF Bread, Recycle, Running, diskVars, opVars, IInv, TypeOK
  <1>2. View(b)' = View(b)
    <2>1. CASE Bread(b)
      BY <2>1 DEF Bread, View, diskVars, IInv, TypeOK
    <2>2. CASE Recycle(b)
      <3>1. /\ pins[b] = 0 /\ cache[b] # NoBuf
            /\ cache' = [cache EXCEPT ![b] = NoBuf]
        BY <2>2 DEF Recycle, Recyclable
      <3>2. cache[b] = disk[b]
        BY <1>1, <3>1 DEF IInv, CrashInv, CacheInv
      <3>3. cache'[b] = NoBuf
        BY <3>1 DEF IInv, TypeOK
      <3>4. QED
        BY <1>1, <3>1, <3>2, <3>3 DEF View
    <2>3. QED
      BY <2>1, <2>2
  <1>3. \A c \in Blocks : View(c)' = View(c)
    BY <1>1, <1>2 DEF View
  <1>4. Pending' = Pending
    BY <1>1, <1>3 DEF Pending
  <1>5. QED
    BY <1>1, <1>4, SameDurable DEF AD!vars, Active

\* The write of the header is the commit of the whole group; the writes of
\* the blocks before and after it are invisible.
LEMMA RefineCommit ==
  ASSUME IInv, WriteLogOutcome \/ WriteHead \/ InstallOutcome \/ Clear
  PROVE  [AD!Next]_(AD!vars)
  <1>1. TypeOK /\ HeaderInv /\ CacheInv /\ CopyInv /\ QuietInv
    BY DEF IInv, CrashInv
  <1>2. /\ pc' = pc
        /\ phase \in CommitPhase /\ phase' \in CommitPhase
    BY DEF WriteLogOutcome, WriteHead, InstallOutcome, Clear, CommitPhase,
           opVars
  <1>3. Active' = Active /\ Active = {}
    BY <1>1, <1>2 DEF Active, QuietInv, CommitPhase
  <1>4. phase \notin Recovery /\ phase' \notin Recovery /\ phase # "panic"
    BY <1>2 DEF CommitPhase, Recovery
  <1>5. CASE WriteLogOutcome
    <2>1. UNCHANGED <<disk, cache, dhead>> /\ phase = "write_log"
      BY <1>1, <1>5, WriteLogCache DEF WriteLogOutcome
    <2>2. dhead = <<>> /\ dhead' = <<>>
      BY <1>1, <2>1 DEF HeaderInv
    <2>3. Durable' = Durable
      BY <2>1, <2>2 DEF Durable, Entries
    <2>4. QED
      BY <1>3, <1>4, <2>1, <2>3, SamePending DEF AD!vars
  <1>6. CASE WriteHead
    <2>1. /\ UNCHANGED <<disk, dlog, cache, lh>> /\ phase = "write_head"
          /\ dhead' = lh
      BY <1>6 DEF WriteHead
    <2>2. Pending' = Pending /\ Pending = [b \in Blocks |-> View(b)]
      BY <1>4, <2>1, SamePending, PendingFacts
    <2>3. Durable' = [b \in Blocks |->
                        IF b \in Entries(lh)
                        THEN dlog[CHOOSE i \in DOMAIN lh : lh[i] = b]
                        ELSE disk[b]]
      BY <2>1 DEF Durable
    <2>4. ASSUME NEW b \in Blocks, b \in Entries(lh)
          PROVE dlog[CHOOSE i \in DOMAIN lh : lh[i] = b] = View(b)
      <3>1. PICK i \in DOMAIN lh : lh[i] = b
        BY <2>4 DEF Entries
      <3>2. (CHOOSE j \in DOMAIN lh : lh[j] = b) = i
        BY <1>1, <3>1 DEF HeaderInv, Distinct
      <3>3. dlog[i] = cache[b] /\ cache[b] # NoBuf
        BY <1>1, <2>1, <3>1, PinnedCached DEF CopyInv
      <3>4. QED
        BY <3>2, <3>3 DEF View
    <2>5. ASSUME NEW b \in Blocks, b \notin Entries(lh)
          PROVE disk[b] = View(b)
      <3>1. b \notin Uninstalled
        BY <1>1, <2>5, UninstalledFacts
      <3>2. cache[b] \in {NoBuf, disk[b]}
        BY <1>1, <1>4, <3>1 DEF CacheInv
      <3>3. QED
        BY <3>2 DEF View
    <2>6. Durable' = Pending
      BY <2>2, <2>3, <2>4, <2>5
    <2>7. AD!Commit
      BY <1>3, <2>2, <2>6 DEF AD!Commit
    <2>8. QED
      BY <2>7 DEF AD!Next
  <1>7. CASE InstallOutcome
    <2>1. /\ UNCHANGED <<dlog, dhead, lh>> /\ phase = "install"
          /\ tail + 1 \in DOMAIN lh /\ lh[tail + 1] \in Blocks
          /\ dhead = lh
          /\ disk' = [disk EXCEPT ![lh[tail + 1]] = dlog[tail + 1]]
          /\ cache' = [cache EXCEPT ![lh[tail + 1]] = dlog[tail + 1]]
      BY <1>1, <1>7, TailFacts DEF InstallOutcome, HeaderInv
    <2>2. lh[tail + 1] \in Entries(dhead)
      BY <2>1 DEF Entries
    <2>3. \A b \in Blocks : b \notin Entries(dhead) => disk'[b] = disk[b]
      BY <1>1, <2>1, <2>2 DEF TypeOK
    <2>4. Durable' = Durable
      BY <2>1, <2>3 DEF Durable, Entries
    <2>5. tail + 1 > tail
      BY <1>1 DEF TypeOK
    <2>6. dlog[tail + 1] = cache[lh[tail + 1]] /\ cache[lh[tail + 1]] # NoBuf
      BY <1>1, <2>1, <2>5, PinnedCached DEF CopyInv
    <2>7. cache' = cache
      BY <1>1, <2>1, <2>6 DEF TypeOK
    <2>8. \A b \in Blocks : View(b)' = View(b)
      <3>1. \A b \in Blocks : cache[b] = NoBuf => disk'[b] = disk[b]
        BY <1>1, <2>1, <2>6 DEF TypeOK
      <3>2. QED
        BY <2>7, <3>1 DEF View
    <2>9. Pending' = Pending
      BY <1>4, <2>8 DEF Pending
    <2>10. QED
      BY <1>3, <2>4, <2>9 DEF AD!vars
  <1>8. CASE Clear
    <2>1. /\ UNCHANGED <<disk, dlog, cache>> /\ phase = "clear"
          /\ dhead = lh /\ dhead' = <<>> /\ tail = Len(lh)
      BY <1>1, <1>8 DEF Clear, HeaderInv
    <2>2. \A i \in DOMAIN lh : disk[lh[i]] = dlog[i]
      <3>1. \A i \in DOMAIN lh : i <= Len(lh)
        BY <1>1 DEF TypeOK
      <3>2. QED
        BY <1>1, <2>1, <3>1 DEF CopyInv
    <2>3. \A b \in Blocks : Durable[b] = disk[b]
      BY <1>1, <2>1, <2>2, DurableFacts DEF Entries
    <2>4. Durable = [b \in Blocks |-> disk[b]]
      BY <2>3 DEF Durable
    <2>5. Durable' = [b \in Blocks |-> disk[b]]
      BY <2>1 DEF Durable, Entries
    <2>6. QED
      BY <1>3, <1>4, <2>1, <2>4, <2>5, SamePending DEF AD!vars
  <1>9. QED
    BY <1>5, <1>6, <1>7, <1>8

\* A crash loses what was not durable and nothing else, even in the middle
\* of a write.
LEMMA RefineCrash ==
  ASSUME IInv, CrashOutcome
  PROVE  AD!Crash
  <1>1. TypeOK /\ HeaderInv
    BY DEF IInv, CrashInv
  <1>2. dhead' = dhead /\ phase' = "read_head" /\ Active' = {}
    BY DEF CrashOutcome, Active
  <1>3. \A i \in DOMAIN dhead : dlog'[i] = dlog[i]
    <2>1. CASE dlog' = dlog
      BY <2>1
    <2>2. CASE phase = "write_log"
      BY <1>1, <2>2 DEF HeaderInv
    <2>3. QED
      BY <2>1, <2>2 DEF CrashOutcome
  <1>4. \A b \in Blocks : b \notin Entries(dhead) => disk'[b] = disk[b]
    <2>1. CASE disk' = disk
      BY <2>1
    <2>2. CASE /\ phase \in {"install", "recover"} /\ tail < Len(lh)
               /\ disk' = [disk EXCEPT ![lh[tail + 1]] = Torn]
      <3>1. tail + 1 \in DOMAIN lh /\ dhead = lh
        BY <1>1, <2>2, TailFacts DEF HeaderInv
      <3>2. lh[tail + 1] \in Entries(dhead)
        BY <3>1 DEF Entries
      <3>3. QED
        BY <1>1, <2>2, <3>2 DEF TypeOK
    <2>3. QED
      BY <2>1, <2>2 DEF CrashOutcome
  <1>5. \A b \in Entries(dhead) :
          (CHOOSE i \in DOMAIN dhead : dhead[i] = b) \in DOMAIN dhead
    BY DEF Entries
  <1>6. Durable' = Durable
    BY <1>2, <1>3, <1>4, <1>5 DEF Durable
  <1>7. Pending' = Durable'
    BY <1>2 DEF Pending, Recovery
  <1>8. QED
    BY <1>2, <1>6, <1>7 DEF AD!Crash

\* Recovery changes nothing an operation could see.
LEMMA RefineRecovery ==
  ASSUME IInv, ReadHead \/ RecoverBlockOutcome \/ RecoverClear
  PROVE  UNCHANGED AD!vars
  <1>1. TypeOK /\ HeaderInv /\ CacheInv /\ CopyInv
    BY DEF IInv, CrashInv
  <1>2. Active' = Active /\ phase \in Recovery
    BY DEF ReadHead, RecoverBlockOutcome, RecoverClear, Active, opVars, Recovery
  <1>3. Pending = Durable
    BY <1>2, PendingFacts
  <1>4. CASE ReadHead
    <2>1. Durable' = Durable /\ phase' \in Recovery
      BY <1>4, SameDurable DEF ReadHead, diskVars, Recovery
    <2>2. QED
      BY <1>2, <1>3, <2>1 DEF AD!vars, Pending
  <1>5. CASE RecoverBlockOutcome
    <2>1. /\ UNCHANGED <<dlog, dhead>> /\ phase' \in Recovery
          /\ tail + 1 \in DOMAIN lh /\ dhead = lh
          /\ disk' = [disk EXCEPT ![lh[tail + 1]] = dlog[tail + 1]]
      BY <1>1, <1>5, TailFacts DEF RecoverBlockOutcome, HeaderInv, Recovery
    <2>2. lh[tail + 1] \in Entries(dhead)
      BY <2>1 DEF Entries
    <2>3. \A b \in Blocks : b \notin Entries(dhead) => disk'[b] = disk[b]
      BY <1>1, <2>1, <2>2 DEF TypeOK
    <2>4. Durable' = Durable
      BY <2>1, <2>3 DEF Durable, Entries
    <2>5. QED
      BY <1>2, <1>3, <2>1, <2>4 DEF AD!vars, Pending
  <1>6. CASE RecoverClear
    <2>1. /\ UNCHANGED <<disk, dlog, cache, pins>> /\ phase = "recover"
          /\ phase' = "up" /\ dhead = lh /\ dhead' = <<>>
          /\ tail = Len(lh)
      <3>1. ~(tail < Len(lh)) /\ phase = "recover"
        BY <1>6 DEF RecoverClear, MoreToInstall
      <3>2. tail <= Len(lh) /\ tail \in Nat /\ Len(lh) \in Nat
        BY <1>1, <3>1 DEF HeaderInv, TypeOK
      <3>3. tail = Len(lh)
        BY <3>1, <3>2
      <3>4. QED
        BY <1>1, <1>6, <3>1, <3>3 DEF RecoverClear, HeaderInv
    <2>2. \A i \in DOMAIN lh : disk[lh[i]] = dlog[i]
      <3>1. \A i \in DOMAIN lh : i <= Len(lh)
        BY <1>1 DEF TypeOK
      <3>2. QED
        BY <1>1, <2>1, <3>1 DEF CopyInv
    <2>3. \A b \in Blocks : Durable[b] = disk[b]
      BY <1>1, <2>1, <2>2, DurableFacts DEF Entries
    <2>4. Durable = [b \in Blocks |-> disk[b]]
      BY <2>3 DEF Durable
    <2>5. Durable' = [b \in Blocks |-> disk[b]]
      BY <2>1 DEF Durable, Entries
    <2>6. \A b \in Blocks : View(b)' = disk[b]
      BY <1>1, <2>1 DEF View, CacheInv, Recovery
    <2>7. Pending' = [b \in Blocks |-> disk[b]]
      BY <2>1, <2>6 DEF Pending, Recovery
    <2>8. QED
      BY <1>2, <1>3, <2>4, <2>5, <2>7 DEF AD!vars
  <1>7. QED
    BY <1>4, <1>5, <1>6

LEMMA RefineStep == IInv /\ [Next]_vars => [AD!Next]_(AD!vars)
  <1> SUFFICES ASSUME IInv, [Next]_vars PROVE [AD!Next]_(AD!vars)
    OBVIOUS
  <1>1. Outcome
    BY NextOutcome DEF IInv, CrashInv
  <1>2. CASE UNCHANGED vars
    <2>1. Durable' = Durable /\ Active' = Active
      BY <1>2, SameDurable DEF vars, Active
    <2>2. Pending' = Pending
      BY <1>2, <2>1 DEF vars, Pending, View
    <2>3. QED
      BY <2>1, <2>2 DEF AD!vars
  <1>3. ASSUME NEW p \in Ops, NEW b \in Blocks, NEW v \in Values,
               LogWriteOutcome(p, b, v)
        PROVE AD!Next
    BY <1>3, RefineWrite DEF AD!Next
  <1>4. CrashOutcome => AD!Next
    BY RefineCrash DEF AD!Next
  <1>5. QED
    BY <1>1, <1>2, <1>3, <1>4, RefineOps, RefineCache, RefineCommit,
       RefineRecovery DEF Outcome

\* The log implements AtomicDisk: groups of operations are durable all at
\* once or not at all, whenever and however often the machine stops.
THEOREM Refinement == Spec => AtomicGroups
  <1>1. Init => AD!Init
    BY RefineInit
  <1>2. IInv /\ [Next]_vars => [AD!Next]_(AD!vars)
    BY RefineStep
  <1>3. Spec => []IInv
    BY Invariance DEF IInv
  <1>4. QED
    BY <1>1, <1>2, <1>3, PTL DEF Spec, AtomicGroups, AD!Spec

\* Write-ahead logging: install_trans() touches home blocks only under a
\* committed header, write_log() the log only under an empty one, and a torn
\* write at a crash is no exception.
THEOREM Ahead == Spec => WriteAhead
  <1> DEFINE A == /\ disk' # disk => dhead # <<>>
                  /\ dlog' # dlog => dhead = <<>>
  <1>1. IInv /\ [Next]_vars => [A]_<<disk, dlog>>
    <2> SUFFICES ASSUME IInv, [Next]_vars PROVE A
      OBVIOUS
    <2>1. TypeOK /\ HeaderInv /\ Outcome
      BY NextOutcome DEF IInv, CrashInv
    <2>2. tail < Len(lh) => lh # <<>>
      BY <2>1 DEF TypeOK
    <2>3. CASE WriteLogOutcome
      BY <2>1, <2>3 DEF WriteLogOutcome, HeaderInv
    <2>4. CASE InstallOutcome \/ RecoverBlockOutcome
      BY <2>1, <2>2, <2>4 DEF InstallOutcome, RecoverBlockOutcome, HeaderInv
    <2>5. CASE CrashOutcome
      <3>1. disk' # disk => dhead # <<>>
        BY <2>1, <2>2, <2>5 DEF CrashOutcome, HeaderInv
      <3>2. dlog' # dlog => dhead = <<>>
        BY <2>1, <2>5 DEF CrashOutcome, HeaderInv
      <3>3. QED
        BY <3>1, <3>2
    <2>6. CASE disk' = disk /\ dlog' = dlog
      BY <2>6
    <2>7. QED
      BY <2>1, <2>3, <2>4, <2>5, <2>6
         DEF Outcome, BeginOpOutcome, LogWriteOutcome, EndOpOutcome, EndCommit,
             Bread, Recycle, WriteHead, Clear, ReadHead, RecoverClear,
             diskVars, vars
  <1>2. Spec => []IInv
    BY Invariance DEF IInv
  <1>3. QED
    BY <1>1, <1>2, PTL DEF Spec, WriteAhead
=============================================================================
