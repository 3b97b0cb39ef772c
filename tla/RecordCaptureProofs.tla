--------------------------- MODULE RecordCaptureProofs ---------------------------
(***************************************************************************)
(* What holds of RecordCapture for every manifest, every set of launches   *)
(* and runtimes and either driver: types, the exactness of receipts, and   *)
(* the two ranks of a launch keeping in step, so that they neither wait    *)
(* for each other nor refuse what the other has sent.                      *)
(***************************************************************************)
EXTENDS RecordCapture, TLAPS, SequenceTheorems

------------------------------------------------------------------------------
\* Facts about the manifest.

\* A phase observes at least one record, and records of the manifest only.
LEMMA PhaseRange ==
  ASSUME NEW p \in Phase
  PROVE  /\ First(p) \in Nat /\ Bound(p) \in Nat
         /\ First(p) < Bound(p)
         /\ \A n \in Nat : n < Bound(p) => n \in Records
<1>1. /\ p.shard \in ShardIds /\ p.smoke \in BOOLEAN
      /\ NumShards \in Nat \ {0}
  BY ManifestAssumption DEF Phase, ValidManifest
<1>2. /\ p.shard \in 0 .. NumShards /\ p.shard + 1 \in 0 .. NumShards
      /\ NumShards \in 0 .. NumShards
      /\ p.shard + 1 < NumShards \/ p.shard + 1 = NumShards
  BY <1>1 DEF ShardIds
<1>3. /\ ShardStart[p.shard] \in Nat /\ ShardStart[p.shard + 1] \in Nat
      /\ ShardStart[NumShards] \in Nat
      /\ ShardStart[p.shard] < ShardStart[p.shard + 1]
  BY <1>1, <1>2, ManifestAssumption DEF ValidManifest
<1>4. ShardStart[p.shard + 1] <= ShardStart[NumShards]
  BY <1>2, <1>3, ManifestAssumption DEF ValidManifest
<1> QED
  BY <1>1, <1>3, <1>4 DEF First, Bound, Records

\* The planned shards are shards of the manifest, in any mode.
LEMMA PlannedShards ==
  ASSUME NEW mode, NEW list
  PROVE  PlannedTodo(mode, list) \subseteq ShardIds /\ PlannedPilot(mode, list) \in BOOLEAN
BY DriverAssumption, ManifestAssumption
   DEF PlannedTodo, PlannedPilot, Production, ShardIds, ValidManifest

------------------------------------------------------------------------------
\* Types.

Labels == {"off", "init", "peers", "lock", "scan", "roll", "loop", "forward",
           "gather", "barrier", "poll", "paused"}

\* A live process has an identity.
Identified == \A l \in Launches, r \in Ranks : pc[l][r] # "off" => id[l][r] \in Identities

TypeInv == TypeOK /\ Identified

LEMMA TypeInit == Init => TypeInv
BY ManifestAssumption
   DEF Init, TypeInv, TypeOK, MemoryOK, NetworkOK, DiskOK, Stats, Identified, Ranks,
       IdlePhase, Phase, ShardIds, NoRecords, ValidManifest

LEMMA TypeEnds ==
  ASSUME TypeInv, NEW l \in Launches, NEW r \in Ranks, Ends(l, r)
  PROVE  MemoryOK' /\ NetworkOK' /\ Identified' /\ lock' \in Launches \cup {None}
<1>1. IdlePhase \in Phase /\ NoRecords \in [Records -> Nat]
  BY ManifestAssumption DEF IdlePhase, Phase, ShardIds, NoRecords, ValidManifest
<1>2. lock' \in Launches \cup {None}
  BY DEF TypeInv, TypeOK, Ends
<1>3. pc' \in [Launches -> [Ranks -> Labels]]
  BY DEF TypeInv, TypeOK, MemoryOK, Ends, Goto, Labels
<1>a. GroupGone(l) \/ UNCHANGED <<id, met, wire, gift, roll, stop>>
  BY DEF Ends, network
<1>4. id' \in [Launches -> [Ranks -> Identities \cup {None}]]
  <2>1. CASE GroupGone(l)
    BY <2>1 DEF TypeInv, TypeOK, MemoryOK, GroupGone
  <2>2. CASE UNCHANGED <<id, met, wire, gift, roll, stop>>
    BY <2>2 DEF TypeInv, TypeOK, MemoryOK
  <2> QED BY <1>a, <2>1, <2>2
<1>5. done' \in [Launches -> [Ranks -> Seq(ShardIds)]]
  BY DEF TypeInv, TypeOK, MemoryOK, Ends
<1>6. todo' \in [Launches -> [Ranks -> SUBSET ShardIds]]
  BY DEF TypeInv, TypeOK, MemoryOK, Ends
<1>7. pilot' \in [Launches -> [Ranks -> BOOLEAN]]
  BY DEF TypeInv, TypeOK, MemoryOK, Ends
<1>8. phase' \in [Launches -> [Ranks -> Phase]]
  BY <1>1 DEF TypeInv, TypeOK, MemoryOK, Ends
<1>9. cursor' \in [Launches -> [Ranks -> Nat]]
  BY DEF TypeInv, TypeOK, MemoryOK, Ends
<1>10. acc' \in [Launches -> Stats]
  BY <1>1 DEF TypeInv, TypeOK, MemoryOK, Stats, Ends
<1>11. NetworkOK'
  <2>1. CASE GroupGone(l)
    <3>1. met' \in [Launches -> [Ranks -> Nat]] /\ stop' \in [Launches -> BOOLEAN]
      BY <2>1 DEF TypeInv, TypeOK, NetworkOK, GroupGone
    <3>2. wire' \in [Launches -> Seq(Records)] /\ roll' \in [Launches -> Seq(ShardIds)]
      BY <2>1 DEF TypeInv, TypeOK, NetworkOK, GroupGone
    <3>3. gift' \in [Launches -> [Ranks -> Payload \cup {None}]]
      BY <2>1 DEF TypeInv, TypeOK, NetworkOK, GroupGone
    <3> QED BY <3>1, <3>2, <3>3 DEF NetworkOK
  <2>2. CASE UNCHANGED <<id, met, wire, gift, roll, stop>>
    BY <2>2 DEF TypeInv, TypeOK, NetworkOK
  <2> QED BY <1>a, <2>1, <2>2
<1>12. Identified'
  BY DEF TypeInv, TypeOK, MemoryOK, Identified, Ends, GroupGone, Goto, Ranks, Peer
<1> QED
  BY <1>2, <1>3, <1>4, <1>5, <1>6, <1>7, <1>8, <1>9, <1>10, <1>11, <1>12 DEF MemoryOK, Labels

LEMMA TypeQuits ==
  ASSUME TypeInv, NEW l \in Launches, NEW r \in Ranks, Quits(l, r)
  PROVE  TypeInv'
BY TypeEnds DEF TypeInv, TypeOK, DiskOK, Quits, disk

\* The cursor of a record loop is a record.
LEMMA CursorInRange ==
  ASSUME TypeInv, NEW l \in Launches, NEW r \in Ranks, MoreRecords(l, r)
  PROVE  cursor[l][r] \in Records
<1>1. cursor[l][r] \in Nat /\ phase[l][r] \in Phase
  BY DEF TypeInv, TypeOK, MemoryOK
<1> QED BY <1>1, PhaseRange DEF MoreRecords

LEMMA TypeObserve ==
  ASSUME TypeInv, NEW l \in Launches, NEW r \in Ranks, cursor[l][r] \in Records,
         Observe(l, r, cursor[l][r]), UNCHANGED <<pc, id, done, todo, pilot, phase>>
  PROVE  MemoryOK' /\ Identified'
<1>1. acc' \in [Launches -> Stats]
  BY DEF Observe, TypeInv, TypeOK, MemoryOK, Stats
<1>2. cursor' \in [Launches -> [Ranks -> Nat]]
  BY DEF Observe, TypeInv, TypeOK, MemoryOK
<1> QED BY <1>1, <1>2 DEF TypeInv, TypeOK, MemoryOK, Identified

LEMMA TypePlan ==
  ASSUME TypeInv, NEW l \in Launches, NEW r \in Ranks, NEW list \in Seq(ShardIds),
         Plan(l, r, list), pc[l][r] # "off"
  PROVE  MemoryOK' /\ Identified'
<1>1. pc' \in [Launches -> [Ranks -> Labels]] /\ done' \in [Launches -> [Ranks -> Seq(ShardIds)]]
  BY DEF TypeInv, TypeOK, MemoryOK, Plan, Goto, Labels
<1>2. todo' \in [Launches -> [Ranks -> SUBSET ShardIds]]
  BY PlannedShards DEF TypeInv, TypeOK, MemoryOK, Plan
<1>3. pilot' \in [Launches -> [Ranks -> BOOLEAN]]
  BY PlannedShards DEF TypeInv, TypeOK, MemoryOK, Plan
<1>4. UNCHANGED <<id, phase, cursor, acc>>
  BY DEF Plan
<1>5. Identified'
  BY <1>4 DEF TypeInv, TypeOK, MemoryOK, Identified, Plan, Goto
<1> QED BY <1>1, <1>2, <1>3, <1>4, <1>5 DEF TypeInv, TypeOK, MemoryOK, Labels

LEMMA TypeStep == TypeInv /\ [Next]_vars => TypeInv'
<1> SUFFICES ASSUME TypeInv, [Next]_vars PROVE TypeInv'
  OBVIOUS
<1>1. ASSUME NEW l \in Launches, NEW ids \in [Ranks -> Identities], Start(l, ids)
      PROVE  TypeInv'
  <2>1. UNCHANGED <<done, todo, pilot, phase, cursor, acc, met, wire, gift, roll, stop,
                    lock, receipts, smokefile, status>>
    BY <1>1 DEF Start, network, disk
  <2> QED
    BY <1>1, <2>1 DEF TypeInv, TypeOK, MemoryOK, NetworkOK, DiskOK, Identified, Start, Ranks
<1>2. ASSUME NEW l \in Launches, NEW r \in Ranks, OfferIdentity(l, r)
      PROVE  TypeInv'
  <2>1. UNCHANGED <<id, done, todo, pilot, phase, cursor, acc, wire, gift, roll, stop,
                    lock, receipts, smokefile, status>>
    BY <1>2 DEF OfferIdentity, memory, disk
  <2> QED
    BY <1>2, <2>1
       DEF TypeInv, TypeOK, MemoryOK, NetworkOK, DiskOK, Identified, OfferIdentity, Enter, Goto
<1>3. ASSUME NEW l \in Launches, NEW r \in Ranks, CheckPeers(l, r)
      PROVE  TypeInv'
  <2>1. CASE Quits(l, r)
    BY <2>1, TypeQuits
  <2>2. CASE ~Quits(l, r)
    <3>1. UNCHANGED <<id, done, todo, pilot, phase, cursor, acc, met, wire, gift, roll, stop,
                      lock, receipts, smokefile, status>>
      BY <1>3, <2>2 DEF CheckPeers, memory, network, disk
    <3>2. pc[l][r] # "off" /\ Goto(l, r, IF r = 0 THEN "lock" ELSE "roll")
      BY <1>3, <2>2 DEF CheckPeers
    <3>3. MemoryOK'
      BY <3>1, <3>2 DEF TypeInv, TypeOK, MemoryOK, Goto
    <3>4. Identified'
      BY <3>1, <3>2 DEF TypeInv, TypeOK, MemoryOK, Identified, Goto
    <3> QED BY <3>1, <3>3, <3>4 DEF TypeInv, TypeOK, NetworkOK, DiskOK
  <2> QED BY <2>1, <2>2
<1>4. ASSUME NEW l \in Launches, TakeLock(l)
      PROVE  TypeInv'
  <2>1. CASE Quits(l, 0)
    BY <2>1, TypeQuits DEF Ranks
  <2>2. CASE ~Quits(l, 0)
    <3>1. UNCHANGED <<id, done, todo, pilot, phase, cursor, acc, met, wire, gift, roll, stop,
                      receipts, smokefile, status>>
      BY <1>4, <2>2 DEF TakeLock, memory, network, disk
    <3>2. 0 \in Ranks /\ pc[l][0] # "off" /\ Goto(l, 0, "scan") /\ lock' = l
      BY <1>4, <2>2 DEF TakeLock, Ranks
    <3> QED
      BY <3>1, <3>2 DEF TypeInv, TypeOK, MemoryOK, NetworkOK, DiskOK, Identified, Goto
  <2> QED BY <2>1, <2>2
<1>5. ASSUME NEW l \in Launches, ScanShard(l)
      PROVE  TypeInv'
  <2>1. CASE Quits(l, 0)
    BY <2>1, TypeQuits DEF Ranks
  <2>2. CASE ~Quits(l, 0)
    <3> DEFINE s == cursor[l][0]
    <3>1. UNCHANGED <<pc, id, todo, pilot, phase, acc, met, wire, gift, roll, stop,
                      lock, receipts, smokefile, status>>
      BY <1>5, <2>2 DEF ScanShard, network, disk
    <3>2. 0 \in Ranks /\ s \in Nat /\ s < NumShards
      BY <1>5 DEF ScanShard, Ranks, TypeInv, TypeOK, MemoryOK
    <3>3. s \in ShardIds
      BY <3>2, ManifestAssumption DEF ShardIds, ValidManifest
    <3>4. /\ cursor' = [cursor EXCEPT ![l][0] = s + 1]
          /\ done' = [done EXCEPT ![l][0] = IF receipts[s] # None THEN Append(@, s) ELSE @]
      BY <1>5, <2>2 DEF ScanShard
    <3>5. done[l][0] \in Seq(ShardIds) /\ Append(done[l][0], s) \in Seq(ShardIds)
      BY <3>2, <3>3 DEF TypeInv, TypeOK, MemoryOK
    <3> HIDE DEF s
    <3>6. done' \in [Launches -> [Ranks -> Seq(ShardIds)]]
      BY <3>2, <3>4, <3>5 DEF TypeInv, TypeOK, MemoryOK
    <3>7. cursor' \in [Launches -> [Ranks -> Nat]]
      BY <3>2, <3>4 DEF TypeInv, TypeOK, MemoryOK
    <3>8. MemoryOK' /\ Identified'
      BY <3>1, <3>6, <3>7 DEF TypeInv, TypeOK, MemoryOK, Identified
    <3> QED BY <3>1, <3>8 DEF TypeInv, TypeOK, NetworkOK, DiskOK
  <2> QED BY <2>1, <2>2
<1>6. ASSUME NEW l \in Launches, ShareCommitted(l)
      PROVE  TypeInv'
  <2>1. /\ 0 \in Ranks /\ pc[l][0] # "off" /\ Plan(l, 0, done[l][0]) /\ Enter(l, 0)
        /\ roll' = [roll EXCEPT ![l] = done[l][0]]
        /\ UNCHANGED <<wire, gift, stop, lock, receipts, smokefile, status>>
    BY <1>6 DEF ShareCommitted, Ranks, disk
  <2>2. done[l][0] \in Seq(ShardIds)
    BY <2>1 DEF TypeInv, TypeOK, MemoryOK
  <2>3. MemoryOK' /\ Identified'
    BY <2>1, <2>2, TypePlan
  <2>4. NetworkOK'
    BY <2>1, <2>2 DEF TypeInv, TypeOK, NetworkOK, Enter
  <2> QED BY <2>1, <2>3, <2>4 DEF TypeInv, TypeOK, DiskOK
<1>7. ASSUME NEW l \in Launches, HearCommitted(l)
      PROVE  TypeInv'
  <2>1. /\ 1 \in Ranks /\ pc[l][1] # "off" /\ Plan(l, 1, roll[l]) /\ Enter(l, 1)
        /\ UNCHANGED <<wire, gift, roll, stop, lock, receipts, smokefile, status>>
    BY <1>7 DEF HearCommitted, Ranks, disk
  <2>2. roll[l] \in Seq(ShardIds)
    BY DEF TypeInv, TypeOK, NetworkOK
  <2>3. MemoryOK' /\ Identified'
    BY <2>1, <2>2, TypePlan
  <2>4. NetworkOK'
    BY <2>1 DEF TypeInv, TypeOK, NetworkOK, Enter
  <2> QED BY <2>1, <2>3, <2>4 DEF TypeInv, TypeOK, DiskOK
<1>8. ASSUME NEW l \in Launches, NEW r \in Ranks, BeginPhase(l, r)
      PROVE  TypeInv'
  <2>1. UNCHANGED <<id, done, met, wire, gift, roll, stop, lock, receipts, smokefile, status>>
    BY <1>8 DEF BeginPhase, network, disk
  <2>2. /\ pc[l][r] # "off" /\ Goto(l, r, "forward")
        /\ pilot' = [pilot EXCEPT ![l][r] = FALSE]
        /\ acc' = [acc EXCEPT ![l][r] = NoRecords]
        /\ cursor' = [cursor EXCEPT ![l][r] = First(phase'[l][r])]
    BY <1>8 DEF BeginPhase, ResetObservations
  <2>3. \E p \in Phase : phase' = [phase EXCEPT ![l][r] = p]
    <3>1. CASE pilot[l][r]
      <4>1. [shard |-> FirstShard, smoke |-> TRUE] \in Phase
        BY DriverAssumption DEF Phase
      <4> QED BY <1>8, <3>1, <4>1 DEF BeginPhase
    <3>2. CASE ~pilot[l][r]
      <4>1. PICK s \in todo[l][r] : phase' = [phase EXCEPT ![l][r] = [shard |-> s, smoke |-> FALSE]]
        BY <1>8, <3>2 DEF BeginPhase
      <4>2. [shard |-> s, smoke |-> FALSE] \in Phase
        BY DEF Phase, TypeInv, TypeOK, MemoryOK
      <4> QED BY <4>1, <4>2
    <3> QED BY <3>1, <3>2
  <2>4. phase' \in [Launches -> [Ranks -> Phase]] /\ phase'[l][r] \in Phase
    BY <2>3 DEF TypeInv, TypeOK, MemoryOK
  <2>5. todo' \in [Launches -> [Ranks -> SUBSET ShardIds]]
    <3>1. CASE pilot[l][r]
      BY <1>8, <3>1 DEF BeginPhase, TypeInv, TypeOK, MemoryOK
    <3>2. CASE ~pilot[l][r]
      <4>1. PICK s \in todo[l][r] : todo' = [todo EXCEPT ![l][r] = @ \ {s}]
        BY <1>8, <3>2 DEF BeginPhase
      <4> QED BY <4>1 DEF TypeInv, TypeOK, MemoryOK
    <3> QED BY <3>1, <3>2
  <2>6. acc' \in [Launches -> Stats]
    BY <2>2 DEF TypeInv, TypeOK, MemoryOK, Stats, NoRecords
  <2>7. cursor' \in [Launches -> [Ranks -> Nat]]
    BY <2>2, <2>4, PhaseRange DEF TypeInv, TypeOK, MemoryOK
  <2>8. MemoryOK'
    BY <2>1, <2>2, <2>4, <2>5, <2>6, <2>7 DEF TypeInv, TypeOK, MemoryOK, Goto
  <2>9. Identified'
    BY <2>1, <2>2 DEF TypeInv, TypeOK, MemoryOK, Identified, Goto
  <2> QED BY <2>1, <2>8, <2>9 DEF TypeInv, TypeOK, NetworkOK, DiskOK
<1>9. ASSUME NEW l \in Launches, Forward(l)
      PROVE  TypeInv'
  <2>1. UNCHANGED <<pc, id, done, todo, pilot, phase, met, gift, roll, stop,
                    lock, receipts, smokefile, status>>
    BY <1>9 DEF Forward, disk
  <2>2. /\ 0 \in Ranks /\ MoreRecords(l, 0) /\ Observe(l, 0, cursor[l][0])
        /\ wire' = [wire EXCEPT ![l] = Append(@, cursor[l][0])]
    BY <1>9 DEF Forward, Ranks
  <2>3. cursor[l][0] \in Records
    BY <2>2, CursorInRange
  <2>4. wire' \in [Launches -> Seq(Records)]
    BY <2>2, <2>3 DEF TypeInv, TypeOK, NetworkOK
  <2>5. MemoryOK' /\ Identified'
    BY <2>1, <2>2, <2>3, TypeObserve
  <2> QED BY <2>1, <2>4, <2>5 DEF TypeInv, TypeOK, NetworkOK, DiskOK
<1>10. ASSUME NEW l \in Launches, Receive(l)
       PROVE  TypeInv'
  <2>1. CASE Quits(l, 1)
    BY <2>1, TypeQuits DEF Ranks
  <2>2. CASE ~Quits(l, 1)
    <3>1. UNCHANGED <<pc, id, done, todo, pilot, phase, met, gift, roll, stop,
                      lock, receipts, smokefile, status>>
      BY <1>10, <2>2 DEF Receive, disk
    <3>2. /\ 1 \in Ranks /\ MoreRecords(l, 1) /\ Observe(l, 1, cursor[l][1])
          /\ wire[l] # <<>> /\ wire' = [wire EXCEPT ![l] = Tail(@)]
      BY <1>10, <2>2 DEF Receive, Ranks
    <3>3. wire' \in [Launches -> Seq(Records)]
      BY <3>2 DEF TypeInv, TypeOK, NetworkOK
    <3>4. MemoryOK' /\ Identified'
      BY <3>1, <3>2, CursorInRange, TypeObserve
    <3> QED BY <3>1, <3>3, <3>4 DEF TypeInv, TypeOK, NetworkOK, DiskOK
  <2> QED BY <2>1, <2>2
<1>11. ASSUME NEW l \in Launches, NEW r \in Ranks, Export(l, r)
       PROVE  TypeInv'
  <2>1. UNCHANGED <<id, done, todo, pilot, phase, cursor, acc, wire, roll, stop,
                    lock, receipts, smokefile, status>>
    BY <1>11 DEF Export, memory, disk
  <2>2. /\ pc[l][r] # "off" /\ Goto(l, r, "gather") /\ Enter(l, r)
        /\ gift' = [gift EXCEPT ![l][r] =
                      [phase |-> phase[l][r], rt |-> id[l][r].rt, acc |-> acc[l][r]]]
    BY <1>11 DEF Export
  <2>3. id[l][r].rt \in Runtimes
    BY <2>2 DEF TypeInv, Identified, Identities
  <2>4. gift' \in [Launches -> [Ranks -> Payload \cup {None}]]
    BY <2>2, <2>3 DEF TypeInv, TypeOK, MemoryOK, NetworkOK, Stats, Payload
  <2>5. NetworkOK'
    BY <2>1, <2>2, <2>4 DEF TypeInv, TypeOK, NetworkOK, Enter
  <2>6. MemoryOK' /\ Identified'
    BY <2>1, <2>2 DEF TypeInv, TypeOK, MemoryOK, Identified, Goto
  <2> QED BY <2>1, <2>5, <2>6 DEF TypeInv, TypeOK, DiskOK
<1>12. ASSUME NEW l \in Launches, NEW r \in Ranks, Merge(l, r)
       PROVE  TypeInv'
  <2>1. CASE Quits(l, r)
    BY <2>1, TypeQuits
  <2>2. CASE ~Quits(l, r)
    <3>1. UNCHANGED <<id, done, todo, pilot, phase, cursor, acc, wire, gift, roll, stop, lock>>
      BY <1>12, <2>2 DEF Merge, memory
    <3>2. /\ pc[l][r] # "off" /\ Goto(l, r, "barrier") /\ Enter(l, r) /\ Mergeable(l, r)
          /\ (r = 0 /\ Publish(l)) \/ UNCHANGED <<receipts, smokefile, status>>
      BY <1>12, <2>2 DEF Merge, disk
    <3>3. NetworkOK'
      BY <3>1, <3>2 DEF TypeInv, TypeOK, NetworkOK, Enter
    <3>4. MemoryOK' /\ Identified'
      BY <3>1, <3>2 DEF TypeInv, TypeOK, MemoryOK, Identified, Goto
    <3>5. DiskOK'
      <4>1. CASE r = 0 /\ Publish(l)
        <5>1. [rt |-> id[l][0].rt, obs |-> Observations(l)] \in Receipt
          BY <3>2, <4>1 DEF Mergeable, Observations, Receipt, Stats, Payload, TypeInv, TypeOK,
                            NetworkOK, Identified, Identities
        <5>2. phase[l][0] \in Phase /\ phase[l][0].shard \in ShardIds
          BY <4>1 DEF Phase, TypeInv, TypeOK, MemoryOK, Ranks
        <5>3. CASE phase[l][0].smoke
          BY <4>1, <5>1, <5>2, <5>3 DEF Publish, TypeInv, TypeOK, DiskOK
        <5>4. CASE ~phase[l][0].smoke
          BY <4>1, <5>1, <5>2, <5>4 DEF Publish, TypeInv, TypeOK, DiskOK
        <5> QED BY <5>3, <5>4
      <4>2. CASE UNCHANGED <<receipts, smokefile, status>>
        BY <4>2 DEF TypeInv, TypeOK, DiskOK
      <4> QED BY <3>2, <4>1, <4>2
    <3> QED BY <3>1, <3>3, <3>4, <3>5 DEF TypeInv, TypeOK
  <2> QED BY <2>1, <2>2
<1>13. ASSUME NEW l \in Launches, NEW r \in Ranks, PassBarrier(l, r)
       PROVE  TypeInv'
  <2>1. CASE Quits(l, r)
    BY <2>1, TypeQuits
  <2>2. CASE ~Quits(l, r)
    <3>1. UNCHANGED <<id, todo, pilot, phase, cursor, acc, met, wire, gift, roll, stop,
                      lock, receipts, smokefile, status>>
      BY <1>13, <2>2 DEF PassBarrier, network, disk
    <3>2. /\ pc[l][r] # "off" /\ Goto(l, r, IF phase[l][r].smoke THEN "loop" ELSE "poll")
          /\ done' = [done EXCEPT ![l][r] =
                        IF phase[l][r].smoke THEN @ ELSE Append(@, phase[l][r].shard)]
      BY <1>13, <2>2 DEF PassBarrier
    <3>3. done[l][r] \in Seq(ShardIds) /\ Append(done[l][r], phase[l][r].shard) \in Seq(ShardIds)
      BY DEF TypeInv, TypeOK, MemoryOK, Phase
    <3>4. done' \in [Launches -> [Ranks -> Seq(ShardIds)]]
      BY <3>2, <3>3 DEF TypeInv, TypeOK, MemoryOK
    <3>5. pc' \in [Launches -> [Ranks -> Labels]]
      BY <3>2 DEF TypeInv, TypeOK, MemoryOK, Goto, Labels
    <3>6. MemoryOK'
      BY <3>1, <3>4, <3>5 DEF TypeInv, TypeOK, MemoryOK, Labels
    <3>7. Identified'
      BY <3>1, <3>2 DEF TypeInv, TypeOK, MemoryOK, Identified, Goto
    <3> QED BY <3>1, <3>6, <3>7 DEF TypeInv, TypeOK, NetworkOK, DiskOK
  <2> QED BY <2>1, <2>2
<1>14. ASSUME NEW l \in Launches, PollPause(l)
       PROVE  TypeInv'
  <2>1. UNCHANGED <<id, done, todo, pilot, phase, cursor, acc, wire, gift, roll,
                    lock, receipts, smokefile, status>>
    BY <1>14 DEF PollPause, memory, disk
  <2>2. PICK present \in BOOLEAN : /\ stop' = [stop EXCEPT ![l] = present]
                                   /\ Goto(l, 0, IF present THEN "paused" ELSE "loop")
    BY <1>14 DEF PollPause
  <2>3. 0 \in Ranks /\ pc[l][0] # "off" /\ Enter(l, 0)
    BY <1>14 DEF PollPause, Ranks
  <2>4. MemoryOK' /\ Identified'
    BY <2>1, <2>2, <2>3 DEF TypeInv, TypeOK, MemoryOK, Identified, Goto
  <2>5. NetworkOK'
    BY <2>1, <2>2, <2>3 DEF TypeInv, TypeOK, NetworkOK, Enter
  <2> QED BY <2>1, <2>4, <2>5 DEF TypeInv, TypeOK, DiskOK
<1>15. ASSUME NEW l \in Launches, HearPause(l)
       PROVE  TypeInv'
  <2>1. UNCHANGED <<id, done, todo, pilot, phase, cursor, acc, wire, gift, roll, stop,
                    lock, receipts, smokefile, status>>
    BY <1>15 DEF HearPause, memory, disk
  <2>2. /\ 1 \in Ranks /\ pc[l][1] # "off" /\ Enter(l, 1)
        /\ Goto(l, 1, IF stop[l] THEN "paused" ELSE "loop")
    BY <1>15 DEF HearPause, Ranks
  <2>3. MemoryOK' /\ Identified'
    BY <2>1, <2>2 DEF TypeInv, TypeOK, MemoryOK, Identified, Goto
  <2>4. NetworkOK'
    BY <2>1, <2>2 DEF TypeInv, TypeOK, NetworkOK, Enter
  <2> QED BY <2>1, <2>3, <2>4 DEF TypeInv, TypeOK, DiskOK
<1>16. ASSUME NEW l \in Launches, NEW r \in Ranks, Conclude(l, r)
       PROVE  TypeInv'
  <2>1. Ends(l, r) /\ status' = (IF r = 0 THEN Summary(l, r) ELSE status)
        /\ UNCHANGED <<receipts, smokefile>>
    BY <1>16 DEF Conclude
  <2>2. DiskOK'
    BY <2>1 DEF TypeInv, TypeOK, MemoryOK, DiskOK, Summary
  <2> QED BY <2>1, <2>2, TypeEnds DEF TypeInv, TypeOK
<1>17. ASSUME NEW l \in Launches, NEW r \in Ranks, TimeOut(l, r) \/ Crash(l, r)
       PROVE  TypeInv'
  BY <1>17, TypeQuits DEF TimeOut, Crash
<1>18. CASE UNCHANGED vars
  <2>1. UNCHANGED <<pc, id, done, todo, pilot, phase, cursor, acc, met, wire, gift, roll, stop,
                    lock, receipts, smokefile, status>>
    BY <1>18 DEF vars, memory, network, disk
  <2> QED
    BY <2>1 DEF TypeInv, TypeOK, MemoryOK, NetworkOK, DiskOK, Identified
<1> QED
  BY <1>1, <1>2, <1>3, <1>4, <1>5, <1>6, <1>7, <1>8, <1>9, <1>10, <1>11, <1>12, <1>13,
     <1>14, <1>15, <1>16, <1>17, <1>18 DEF Next, RankStep

\* Every variable keeps its type, whatever the launches do.
THEOREM TypeCorrect == Spec => []TypeOK
<1>1. Spec => []TypeInv
  BY TypeInit, TypeStep, PTL DEF Spec
<1> QED BY <1>1, PTL DEF TypeInv

------------------------------------------------------------------------------
(***************************************************************************)
(* Every receipt counts each record of its shard exactly once, on both     *)
(* ranks.  The receipt is built from what the ranks put into the gather,   *)
(* which is what their accumulators held at the end of the record loop, so *)
(* the invariant says what accumulators hold inside the loop and what a    *)
(* gathered payload holds for as long as it can be read.                   *)
(***************************************************************************)

\* Inside the record loop: the records from the first one up to the cursor.
ExactAcc ==
  \A l \in Launches, r \in Ranks : pc[l][r] = "forward" =>
    /\ First(phase[l][r]) <= cursor[l][r] /\ cursor[l][r] <= Bound(phase[l][r])
    /\ acc[l][r] = Span(First(phase[l][r]), cursor[l][r])

ExactGifts ==
  \A l \in Launches, r \in Ranks : gift[l][r] # None =>
    gift[l][r].acc = Exactly(gift[l][r].phase)

ExactInv == ExactAcc /\ ExactGifts /\ ExactReceipts

------------------------------------------------------------------------------
\* Facts about the bags.

LEMMA SpanEmpty ==
  ASSUME NEW a \in Nat
  PROVE  Span(a, a) = NoRecords
<1>1. \A n \in Records : n \in Int /\ ~(a <= n /\ n < a)
  BY DEF Records
<1> QED BY <1>1 DEF Span, NoRecords

LEMMA SpanGrows ==
  ASSUME NEW a \in Nat, NEW b \in Records, a <= b
  PROVE  [Span(a, b) EXCEPT ![b] = @ + 1] = Span(a, b + 1)
<1>1. \A n \in Records : n \in Int
  BY DEF Records
<1>2. ASSUME NEW n \in Records
      PROVE  [Span(a, b) EXCEPT ![b] = @ + 1][n] = Span(a, b + 1)[n]
  BY <1>1, <1>2 DEF Span
<1> QED BY <1>2 DEF Span

\* What is exact for a phase is exact for every phase of the same range.
LEMMA ExactRange ==
  ASSUME NEW p, NEW q, SameRange(p, q)
  PROVE  Exactly(p) = Exactly(q)
BY DEF SameRange, Exactly, First

------------------------------------------------------------------------------
\* Steps that neither enter the record loop nor touch what it has built.

LEMMA ExactGoto ==
  ASSUME TypeInv, ExactInv, NEW l \in Launches, NEW r \in Ranks, NEW label,
         Goto(l, r, label), label # "forward",
         UNCHANGED <<phase, cursor, acc, gift, receipts, smokefile>>
  PROVE  ExactInv'
<1>1. ExactAcc'
  BY DEF ExactInv, ExactAcc, Goto, TypeInv, TypeOK, MemoryOK
<1>2. ExactGifts' /\ ExactReceipts'
  BY DEF ExactInv, ExactGifts, ExactReceipts, Exact
<1> QED BY <1>1, <1>2 DEF ExactInv

LEMMA ExactEnds ==
  ASSUME TypeInv, ExactInv, NEW l \in Launches, NEW r \in Ranks, Ends(l, r),
         UNCHANGED <<receipts, smokefile>>
  PROVE  ExactInv'
<1>1. ExactAcc'
  <2>1. /\ pc' = [pc EXCEPT ![l][r] = "off"]
        /\ phase' = [phase EXCEPT ![l][r] = IdlePhase]
        /\ cursor' = [cursor EXCEPT ![l][r] = 0]
        /\ acc' = [acc EXCEPT ![l][r] = NoRecords]
    BY DEF Ends, Goto
  <2>2. SUFFICES ASSUME NEW k \in Launches, NEW q \in Ranks, pc'[k][q] = "forward"
                 PROVE  /\ pc[k][q] = "forward" /\ phase'[k][q] = phase[k][q]
                        /\ cursor'[k][q] = cursor[k][q] /\ acc'[k][q] = acc[k][q]
    BY DEF ExactInv, ExactAcc
  <2>3. k # l \/ q # r
    BY <2>1, <2>2 DEF TypeInv, TypeOK, MemoryOK
  <2> QED BY <2>1, <2>2, <2>3 DEF TypeInv, TypeOK, MemoryOK, Stats
<1>2. ExactGifts'
  <2>1. \A k \in Launches, q \in Ranks : gift'[k][q] = gift[k][q] \/ gift'[k][q] = None
    <3>1. CASE gift' = [gift EXCEPT ![l] = [q \in Ranks |-> None]]
      BY <3>1 DEF TypeInv, TypeOK, NetworkOK
    <3>2. CASE gift' = gift
      BY <3>2
    <3> QED BY <3>1, <3>2 DEF Ends, GroupGone, network
  <2> QED BY <2>1 DEF ExactInv, ExactGifts
<1>3. ExactReceipts'
  BY DEF ExactInv, ExactReceipts, Exact
<1> QED BY <1>1, <1>2, <1>3 DEF ExactInv

------------------------------------------------------------------------------
\* The steps of the record loop.

LEMMA ExactBegin ==
  ASSUME TypeInv, TypeInv', ExactInv, NEW l \in Launches, NEW r \in Ranks, BeginPhase(l, r)
  PROVE  ExactInv'
<1>1. /\ Goto(l, r, "forward")
      /\ cursor' = [cursor EXCEPT ![l][r] = First(phase'[l][r])]
      /\ acc' = [acc EXCEPT ![l][r] = NoRecords]
      /\ UNCHANGED <<gift, receipts, smokefile>>
      /\ \E p : phase' = [phase EXCEPT ![l][r] = p]
  BY DEF BeginPhase, ResetObservations, network, disk
<1>2. phase'[l][r] \in Phase
  BY DEF TypeInv, TypeOK, MemoryOK
<1>3. /\ cursor'[l][r] = First(phase'[l][r]) /\ acc'[l][r] = NoRecords
      /\ First(phase'[l][r]) \in Nat /\ First(phase'[l][r]) <= Bound(phase'[l][r])
  BY <1>1, <1>2, PhaseRange DEF TypeInv, TypeOK, MemoryOK, Stats
<1>4. ExactAcc'
  <2> SUFFICES ASSUME NEW k \in Launches, NEW q \in Ranks, pc'[k][q] = "forward"
               PROVE  /\ First(phase'[k][q]) <= cursor'[k][q] /\ cursor'[k][q] <= Bound(phase'[k][q])
                      /\ acc'[k][q] = Span(First(phase'[k][q]), cursor'[k][q])
    BY DEF ExactAcc, First, Bound, Span, Records
  <2>1. CASE k = l /\ q = r
    BY <1>3, <2>1, SpanEmpty
  <2>2. CASE k # l \/ q # r
    <3>1. /\ pc[k][q] = "forward" /\ phase'[k][q] = phase[k][q]
          /\ cursor'[k][q] = cursor[k][q] /\ acc'[k][q] = acc[k][q]
      <4>1. PICK p : phase' = [phase EXCEPT ![l][r] = p]
        BY <1>1
      <4>2. phase'[k][q] = phase[k][q]
        BY <4>1, <2>2 DEF TypeInv, TypeOK, MemoryOK
      <4>3. pc'[k][q] = pc[k][q]
        BY <1>1, <2>2 DEF Goto, TypeInv, TypeOK, MemoryOK
      <4>4. cursor'[k][q] = cursor[k][q] /\ acc'[k][q] = acc[k][q]
        BY <1>1, <2>2 DEF TypeInv, TypeOK, MemoryOK, Stats
      <4> QED BY <4>2, <4>3, <4>4
    <3> QED BY <3>1 DEF ExactInv, ExactAcc
  <2> QED BY <2>1, <2>2
<1>5. ExactGifts' /\ ExactReceipts'
  BY <1>1 DEF ExactInv, ExactGifts, ExactReceipts, Exact
<1> QED BY <1>4, <1>5 DEF ExactInv

LEMMA ExactObserve ==
  ASSUME TypeInv, ExactInv, NEW l \in Launches, NEW r \in Ranks,
         pc[l][r] = "forward", MoreRecords(l, r), Observe(l, r, cursor[l][r]),
         UNCHANGED <<pc, phase, gift, receipts, smokefile>>
  PROVE  ExactInv'
<1> DEFINE a == First(phase[l][r])
           b == cursor[l][r]
<1>1. /\ a \in Nat /\ b \in Records /\ b \in Nat /\ a <= b /\ b < Bound(phase[l][r])
      /\ Bound(phase[l][r]) \in Nat /\ acc[l][r] = Span(a, b)
  BY CursorInRange, PhaseRange DEF ExactInv, ExactAcc, MoreRecords, TypeInv, TypeOK, MemoryOK
<1>2. /\ acc' = [acc EXCEPT ![l][r][b] = @ + 1]
      /\ cursor' = [cursor EXCEPT ![l][r] = @ + 1]
  BY DEF Observe
<1>3. acc'[l][r] = Span(a, b + 1) /\ cursor'[l][r] = b + 1
  <2>1. acc'[l][r] = [Span(a, b) EXCEPT ![b] = @ + 1] /\ cursor'[l][r] = b + 1
    BY <1>1, <1>2 DEF TypeInv, TypeOK, MemoryOK, Stats
  <2> QED BY <1>1, <2>1, SpanGrows
<1>4. ExactAcc'
  <2> SUFFICES ASSUME NEW k \in Launches, NEW q \in Ranks, pc[k][q] = "forward"
               PROVE  /\ First(phase[k][q]) <= cursor'[k][q] /\ cursor'[k][q] <= Bound(phase[k][q])
                      /\ acc'[k][q] = Span(First(phase[k][q]), cursor'[k][q])
    BY DEF ExactAcc
  <2>1. CASE k = l /\ q = r
    BY <1>1, <1>3, <2>1
  <2>2. CASE k # l \/ q # r
    <3>1. cursor'[k][q] = cursor[k][q] /\ acc'[k][q] = acc[k][q]
      BY <1>2, <2>2 DEF TypeInv, TypeOK, MemoryOK, Stats
    <3> QED BY <3>1 DEF ExactInv, ExactAcc
  <2> QED BY <2>1, <2>2
<1>5. ExactGifts' /\ ExactReceipts'
  BY DEF ExactInv, ExactGifts, ExactReceipts, Exact
<1> QED BY <1>4, <1>5 DEF ExactInv

LEMMA ExactExport ==
  ASSUME TypeInv, ExactInv, NEW l \in Launches, NEW r \in Ranks, Export(l, r)
  PROVE  ExactInv'
<1>1. /\ pc[l][r] = "forward" /\ ~MoreRecords(l, r) /\ Goto(l, r, "gather")
      /\ gift' = [gift EXCEPT ![l][r] =
                    [phase |-> phase[l][r], rt |-> id[l][r].rt, acc |-> acc[l][r]]]
      /\ UNCHANGED <<phase, cursor, acc, receipts, smokefile>>
  BY DEF Export, memory, disk
<1>2. cursor[l][r] = Bound(phase[l][r])
  BY <1>1, PhaseRange DEF MoreRecords, ExactInv, ExactAcc, TypeInv, TypeOK, MemoryOK
<1>3. acc[l][r] = Exactly(phase[l][r])
  BY <1>1, <1>2 DEF ExactInv, ExactAcc, Exactly
<1>4. ExactAcc'
  BY <1>1 DEF ExactInv, ExactAcc, Goto, TypeInv, TypeOK, MemoryOK
<1>5. ExactGifts'
  BY <1>1, <1>3 DEF ExactInv, ExactGifts, TypeInv, TypeOK, NetworkOK
<1>6. ExactReceipts'
  BY <1>1 DEF ExactInv, ExactReceipts, Exact
<1> QED BY <1>4, <1>5, <1>6 DEF ExactInv

\* What a mergeable gather publishes is exact.
LEMMA ExactPublish ==
  ASSUME TypeInv, ExactInv, NEW l \in Launches, Mergeable(l, 0), Publish(l)
  PROVE  ExactReceipts'
<1> DEFINE p == phase[l][0]
           rec == [rt |-> id[l][0].rt, obs |-> Observations(l)]
<1>1. p \in Phase
  BY DEF TypeInv, TypeOK, MemoryOK, Ranks
<1>2. Exact(p, Observations(l))
  <2> SUFFICES ASSUME NEW q \in Ranks
               PROVE  gift[l][q].acc = Exactly(p)
    BY DEF Exact, Observations
  <2>1. gift[l][q].acc = Exactly(gift[l][q].phase) /\ SameRange(gift[l][q].phase, p)
    BY DEF ExactInv, ExactGifts, Mergeable
  <2> QED BY <2>1, ExactRange
<1>3. CASE p.smoke
  <2>1. smokefile' = [phase |-> p, receipt |-> rec] /\ receipts' = receipts
    BY <1>3 DEF Publish
  <2>2. smokefile'.phase = p /\ smokefile'.receipt.obs = Observations(l)
    BY <2>1
  <2> HIDE DEF p, rec
  <2> QED
    BY <1>2, <1>3, <2>1, <2>2 DEF ExactReceipts, ExactInv, Exact, Exactly, First, Bound, Span, Records
<1>4. CASE ~p.smoke
  <2>1. /\ smokefile' = smokefile /\ p.shard \in ShardIds
        /\ receipts' = [receipts EXCEPT ![p.shard] = rec]
        /\ p = [shard |-> p.shard, smoke |-> FALSE]
    BY <1>1, <1>4 DEF Publish, Phase
  <2>2. rec.obs = Observations(l)
    OBVIOUS
  <2> HIDE DEF p, rec
  <2>3. ASSUME NEW s \in ShardIds, receipts'[s] # None
        PROVE  Exact([shard |-> s, smoke |-> FALSE], receipts'[s].obs)
    <3>1. CASE s = p.shard
      <4>1. receipts'[s].obs = Observations(l)
        BY <2>1, <2>2, <3>1 DEF TypeInv, TypeOK, DiskOK
      <4> QED BY <1>2, <2>1, <3>1, <4>1
    <3>2. CASE s # p.shard
      BY <2>1, <2>3, <3>2 DEF ExactInv, ExactReceipts, TypeInv, TypeOK, DiskOK
    <3> QED BY <3>1, <3>2
  <2> QED
    BY <2>1, <2>3 DEF ExactReceipts, ExactInv, Exact, Exactly, First, Bound, Span, Records
<1> QED BY <1>3, <1>4

------------------------------------------------------------------------------
LEMMA ExactInit == Init => ExactInv
BY DEF Init, ExactInv, ExactAcc, ExactGifts, ExactReceipts

LEMMA ExactStep == TypeInv /\ TypeInv' /\ ExactInv /\ [Next]_vars => ExactInv'
<1> SUFFICES ASSUME TypeInv, TypeInv', ExactInv, [Next]_vars PROVE ExactInv'
  OBVIOUS
<1>1. ASSUME NEW l \in Launches, NEW ids \in [Ranks -> Identities], Start(l, ids)
      PROVE  ExactInv'
  <2>1. /\ UNCHANGED <<phase, cursor, acc, gift, receipts, smokefile>>
        /\ pc' = [pc EXCEPT ![l] = [r \in Ranks |-> "init"]]
    BY <1>1 DEF Start, network, disk
  <2> QED
    BY <2>1 DEF ExactInv, ExactAcc, ExactGifts, ExactReceipts, Exact, TypeInv, TypeOK, MemoryOK
<1>2. ASSUME NEW l \in Launches, NEW r \in Ranks, OfferIdentity(l, r)
      PROVE  ExactInv'
  BY <1>2, ExactGoto DEF OfferIdentity, memory, disk
<1>3. ASSUME NEW l \in Launches, NEW r \in Ranks, CheckPeers(l, r)
      PROVE  ExactInv'
  BY <1>3, ExactGoto, ExactEnds DEF CheckPeers, Quits, memory, network, disk
<1>4. ASSUME NEW l \in Launches, TakeLock(l)
      PROVE  ExactInv'
  BY <1>4, ExactGoto, ExactEnds DEF TakeLock, Quits, Ranks, memory, network, disk
<1>5. ASSUME NEW l \in Launches, ScanShard(l)
      PROVE  ExactInv'
  <2>1. CASE Quits(l, 0)
    BY <2>1, ExactEnds DEF Quits, Ranks, disk
  <2>2. CASE ~Quits(l, 0)
    <3>1. /\ UNCHANGED <<pc, phase, acc, gift, receipts, smokefile>>
          /\ pc[l][0] = "scan"
          /\ \A k \in Launches, q \in Ranks : k # l \/ q # 0 => cursor'[k][q] = cursor[k][q]
      BY <1>5, <2>2 DEF ScanShard, network, disk, TypeInv, TypeOK, MemoryOK
    <3>2. ExactAcc'
      BY <3>1 DEF ExactInv, ExactAcc
    <3>3. ExactGifts' /\ ExactReceipts'
      BY <3>1 DEF ExactInv, ExactGifts, ExactReceipts, Exact
    <3> QED BY <3>2, <3>3 DEF ExactInv
  <2> QED BY <2>1, <2>2
<1>6. ASSUME NEW l \in Launches, ShareCommitted(l)
      PROVE  ExactInv'
  BY <1>6, ExactGoto DEF ShareCommitted, Plan, Ranks, disk
<1>7. ASSUME NEW l \in Launches, HearCommitted(l)
      PROVE  ExactInv'
  BY <1>7, ExactGoto DEF HearCommitted, Plan, Ranks, disk
<1>8. ASSUME NEW l \in Launches, NEW r \in Ranks, BeginPhase(l, r)
      PROVE  ExactInv'
  BY <1>8, ExactBegin
<1>9. ASSUME NEW l \in Launches, Forward(l)
      PROVE  ExactInv'
  BY <1>9, ExactObserve DEF Forward, Ranks, disk
<1>10. ASSUME NEW l \in Launches, Receive(l)
       PROVE  ExactInv'
  <2>1. CASE Quits(l, 1)
    BY <2>1, ExactEnds DEF Quits, Ranks, disk
  <2>2. CASE ~Quits(l, 1)
    BY <1>10, <2>2, ExactObserve DEF Receive, Ranks, disk
  <2> QED BY <2>1, <2>2
<1>11. ASSUME NEW l \in Launches, NEW r \in Ranks, Export(l, r)
       PROVE  ExactInv'
  BY <1>11, ExactExport
<1>12. ASSUME NEW l \in Launches, NEW r \in Ranks, Merge(l, r)
       PROVE  ExactInv'
  <2>1. CASE Quits(l, r)
    BY <2>1, ExactEnds DEF Quits, disk
  <2>2. CASE ~Quits(l, r)
    <3>1. /\ Mergeable(l, r) /\ Goto(l, r, "barrier")
          /\ (r = 0 /\ Publish(l)) \/ UNCHANGED <<receipts, smokefile>>
          /\ UNCHANGED <<phase, cursor, acc, gift>>
      BY <1>12, <2>2 DEF Merge, memory, disk
    <3>2. ExactAcc' /\ ExactGifts'
      BY <3>1 DEF ExactInv, ExactAcc, ExactGifts, Goto, TypeInv, TypeOK, MemoryOK
    <3>3. ExactReceipts'
      BY <3>1, ExactPublish DEF ExactInv, ExactReceipts, Exact
    <3> QED BY <3>2, <3>3 DEF ExactInv
  <2> QED BY <2>1, <2>2
<1>13. ASSUME NEW l \in Launches, NEW r \in Ranks, PassBarrier(l, r)
       PROVE  ExactInv'
  <2>1. CASE Quits(l, r)
    BY <2>1, ExactEnds DEF Quits, disk
  <2>2. CASE ~Quits(l, r)
    <3>1. /\ UNCHANGED <<phase, cursor, acc, gift, receipts, smokefile>>
          /\ Goto(l, r, IF phase[l][r].smoke THEN "loop" ELSE "poll")
      BY <1>13, <2>2 DEF PassBarrier, network, disk
    <3> QED BY <3>1, ExactGoto
  <2> QED BY <2>1, <2>2
<1>14. ASSUME NEW l \in Launches, PollPause(l)
       PROVE  ExactInv'
  <2>1. /\ UNCHANGED <<phase, cursor, acc, gift, receipts, smokefile>>
        /\ Goto(l, 0, "paused") \/ Goto(l, 0, "loop")
    BY <1>14 DEF PollPause, memory, disk
  <2> QED BY <2>1, ExactGoto DEF Ranks
<1>15. ASSUME NEW l \in Launches, HearPause(l)
       PROVE  ExactInv'
  <2>1. /\ UNCHANGED <<phase, cursor, acc, gift, receipts, smokefile>>
        /\ Goto(l, 1, "paused") \/ Goto(l, 1, "loop")
    BY <1>15 DEF HearPause, memory, disk
  <2> QED BY <2>1, ExactGoto DEF Ranks
<1>16. ASSUME NEW l \in Launches, NEW r \in Ranks, Conclude(l, r)
       PROVE  ExactInv'
  BY <1>16, ExactEnds DEF Conclude
<1>17. ASSUME NEW l \in Launches, NEW r \in Ranks, TimeOut(l, r) \/ Crash(l, r)
       PROVE  ExactInv'
  BY <1>17, ExactEnds DEF TimeOut, Crash, Quits, disk
<1>18. CASE UNCHANGED vars
  BY <1>18 DEF ExactInv, ExactAcc, ExactGifts, ExactReceipts, Exact, vars, memory, network, disk
<1> QED
  BY <1>1, <1>2, <1>3, <1>4, <1>5, <1>6, <1>7, <1>8, <1>9, <1>10, <1>11, <1>12, <1>13,
     <1>14, <1>15, <1>16, <1>17, <1>18 DEF Next, RankStep

\* Whatever crashes, pauses, pilots and restarts there were, every receipt on disk
\* counts each record of its shard once on both ranks, and nothing else.
THEOREM ReceiptsExact == Spec => []ExactReceipts
<1>1. Spec => []TypeInv
  BY TypeInit, TypeStep, PTL DEF Spec
<1>2. Spec => []ExactInv
  BY <1>1, ExactInit, ExactStep, PTL DEF Spec
<1> QED BY <1>2, PTL DEF ExactInv
------------------------------------------------------------------------------
(***************************************************************************)
(* The two ranks of a launch keep in step.  They run the same phases and   *)
(* meet in the same collectives, so where one is determines, up to what    *)
(* the other has yet to read, where the other can be: in the same phase,   *)
(* or one phase behind.  A rank that is gone has left a place: the         *)
(* survivor reads its sends, broadcasts and gathered payloads as if the    *)
(* process still stood where it fell.  So the invariant is about places,   *)
(* that of a live rank being where it is.                                  *)
(***************************************************************************)

Looping == {"loop", "forward", "gather", "barrier", "poll", "paused"}

Places == [at : Labels, todo : SUBSET ShardIds, pilot : BOOLEAN, phase : Phase, cursor : Nat]
Place(l, r) ==
  [at |-> pc[l][r], todo |-> todo[l][r], pilot |-> pilot[l][r],
   phase |-> phase[l][r], cursor |-> cursor[l][r]]

\* The collectives of a phase, and those of them a rank has entered.
Collectives(p) == IF p.smoke THEN 2 ELSE 3
Entered(x) ==
  CASE x.at = "forward" -> 0
    [] x.at = "gather" -> 1
    [] x.at \in {"barrier", "poll"} -> 2
    [] OTHER -> Collectives(x.phase)

\* The wire w carries the records from i up to, not including, j.
Carries(w, i, j) == Len(w) = j - i /\ \A k \in 1 .. Len(w) : w[k] = i + k - 1

\* y is where x gets by beginning its next phase.
Begins(x, y) ==
  /\ ~y.pilot
  /\ \/ x.pilot /\ y.phase = [shard |-> FirstShard, smoke |-> TRUE] /\ y.todo = x.todo
     \/ /\ ~x.pilot /\ ~y.phase.smoke
        /\ y.phase.shard \in x.todo /\ \A t \in x.todo : y.phase.shard <= t
        /\ y.todo = x.todo \ {y.phase.shard}

\* Rank 0 at a has sent the records below its cursor, and all of them to gather.
Sending(a) ==
  /\ a.cursor <= Bound(a.phase)
  /\ a.at = "gather" => a.cursor = Bound(a.phase)

\* Ranks 0 and 1 are at a and b in the same phase.  Rank 0 has entered d collectives
\* more than rank 1, w is on the wire and s is the pause decision.
Together(d, w, s, a, b) ==
  /\ a.at \in Looping /\ b.at \in Looping
  /\ a.phase = b.phase /\ a.todo = b.todo /\ a.pilot = b.pilot
  /\ d = Entered(a) - Entered(b)
  /\ a.at = "barrier" => b.at # "forward"
  /\ b.at = "barrier" => a.at # "forward"
  /\ a.at \in {"poll", "loop", "paused"} => b.at \notin {"forward", "gather"}
  /\ b.at \in {"poll", "loop", "paused"} => a.at \notin {"forward", "gather"}
  /\ a.at \in {"poll", "paused"} \/ b.at \in {"poll", "paused"} => ~a.phase.smoke
  /\ b.at \in {"loop", "paused"} => a.at = b.at \/ (a.phase.smoke /\ a.at = "barrier")
  /\ b.at \in {"barrier", "poll"} /\ a.at \in {"loop", "paused"} /\ ~a.phase.smoke =>
       (s <=> a.at = "paused")
  /\ a.at \in {"forward", "gather"} => Sending(a)
  /\ IF b.at = "forward" THEN Carries(w, b.cursor, a.cursor) ELSE w = <<>>
  /\ b.at = "gather" /\ a.at = "forward" => a.cursor = Bound(a.phase)

\* Rank 0 has begun the phase that rank 1 begins next.
RankZeroAhead(d, w, s, a, b) ==
  /\ a.at \in {"forward", "gather"} /\ b.at \in {"loop", "barrier", "poll"}
  /\ Begins(b, a)
  /\ d = Collectives(b.phase) + Entered(a) - Entered(b)
  /\ b.at = "poll" => ~b.phase.smoke
  /\ b.at # "loop" /\ ~b.phase.smoke => ~s
  /\ Sending(a) /\ Carries(w, First(a.phase), a.cursor)

\* Rank 1 has begun the phase that rank 0 begins next, and has nothing to receive.
RankOneAhead(d, w, a, b) ==
  /\ b.at = "forward" /\ b.cursor = First(b.phase) /\ w = <<>>
  /\ a.at = "loop" \/ (a.at = "barrier" /\ a.phase.smoke)
  /\ Begins(a, b)
  /\ d = 0

InStep(d, w, s, a, b) ==
  Together(d, w, s, a, b) \/ RankZeroAhead(d, w, s, a, b) \/ RankOneAhead(d, w, a, b)

\* What the ranks of a launch share.
Net(l) ==
  [met |-> met[l], wire |-> wire[l], gift |-> gift[l], roll |-> roll[l],
   stop |-> stop[l], id |-> id[l]]

Agreed(n) == n.id[0] = n.id[1]

\* Before rank 0 has planned its phases.
Handshake(n, a, b) ==
  /\ a.at \in {"init", "peers", "lock", "scan"} /\ b.at \in {"init", "peers", "roll"}
  /\ n.met[0] = (IF a.at = "init" THEN 0 ELSE 1) /\ n.met[1] = (IF b.at = "init" THEN 0 ELSE 1)
  /\ a.at \in {"lock", "scan"} => n.met[1] = 1 /\ Agreed(n)
  /\ b.at = "roll" => n.met[0] = 1 /\ Agreed(n)
  /\ n.wire = <<>> /\ a.phase = IdlePhase /\ b.phase = IdlePhase /\ b.cursor = 0

\* Where rank 1 gets by hearing the committed list.
Heard(n) ==
  [at |-> "loop", todo |-> PlannedTodo(n.id[1].mode, n.roll),
   pilot |-> PlannedPilot(n.id[1].mode, n.roll), phase |-> IdlePhase, cursor |-> 0]

\* Rank 0 has planned its phases, rank 1 has yet to hear the list.
Unheard(n, a, b) ==
  /\ b.at \in {"peers", "roll"} /\ n.met[1] = 1 /\ b.phase = IdlePhase /\ b.cursor = 0
  /\ Agreed(n)
  /\ InStep(n.met[0] - 2, n.wire, n.stop, a, Heard(n))

\* Both have planned their phases.
Planned(n, a, b) == Agreed(n) /\ InStep(n.met[0] - n.met[1], n.wire, n.stop, a, b)

\* What a rank at x has put into the last gather.
Gave(n, r, x) ==
  x.at \in {"gather", "barrier"} =>
    n.gift[r] # None /\ n.gift[r].phase = x.phase /\ n.gift[r].rt = n.id[r].rt

Paired(n, a, b) ==
  /\ Handshake(n, a, b) \/ Unheard(n, a, b) \/ Planned(n, a, b)
  /\ Gave(n, 0, a) /\ Gave(n, 1, b)

Alive(l) == \E r \in Ranks : pc[l][r] # "off"

Aligned(l) ==
  /\ \A r \in Ranks : pc[l][r] = "off" => phase[l][r] = IdlePhase /\ cursor[l][r] = 0
  /\ ~Alive(l) => met[l] = [r \in Ranks |-> 0] /\ wire[l] = <<>>
  /\ Alive(l) => \E a, b \in Places :
       /\ pc[l][0] # "off" => a = Place(l, 0)
       /\ pc[l][1] # "off" => b = Place(l, 1)
       /\ Paired(Net(l), a, b)

AlignInv == \A l \in Launches : Aligned(l)

------------------------------------------------------------------------------
\* The steps of rank 0 inside the phase loop.

LEMMA Tallies ==
  ASSUME NEW x \in Places
  PROVE  /\ x.at = "forward" => Entered(x) = 0
         /\ x.at = "gather" => Entered(x) = 1
         /\ x.at \in {"barrier", "poll"} => Entered(x) = 2
         /\ x.at \in {"loop", "paused"} => Entered(x) = Collectives(x.phase)
         /\ Collectives(x.phase) = IF x.phase.smoke THEN 2 ELSE 3
         /\ Entered(x) \in 0 .. 3
BY DEF Entered, Collectives

LEMMA CarriesNothing ==
  ASSUME NEW w \in Seq(Records), NEW i \in Nat, NEW j \in Nat
  PROVE  /\ w = <<>> => (Carries(w, i, j) <=> i = j)
         /\ Carries(w, i, i) => w = <<>>
         /\ Carries(w, i, j) => i <= j
<1>1. Len(w) \in Nat
  OBVIOUS
<1>2. w = <<>> <=> Len(w) = 0
  BY EmptySeq
<1> QED BY <1>1, <1>2 DEF Carries

\* There is one next phase.
LEMMA BeginsOnce ==
  ASSUME NEW x \in Places, NEW y \in Places, NEW z \in Places, Begins(x, y), Begins(x, z)
  PROVE  y.phase = z.phase /\ y.todo = z.todo /\ y.pilot = z.pilot
<1>1. CASE x.pilot
  BY <1>1 DEF Begins, Places
<1>2. CASE ~x.pilot
  <2>1. /\ y.phase.shard \in x.todo /\ z.phase.shard \in x.todo
        /\ y.phase.shard <= z.phase.shard /\ z.phase.shard <= y.phase.shard
        /\ ~y.phase.smoke /\ ~z.phase.smoke
    BY <1>2 DEF Begins
  <2>2. y.phase \in Phase /\ z.phase \in Phase
    BY DEF Places
  <2>3. y.phase.shard \in Int /\ z.phase.shard \in Int
    BY <2>2 DEF Phase, ShardIds
  <2>4. y.phase.shard = z.phase.shard
    BY <2>1, <2>3
  <2>5. y.phase = z.phase
    BY <2>1, <2>2, <2>4 DEF Phase
  <2> QED BY <1>2, <2>4, <2>5 DEF Begins, Places
<1> QED BY <1>1, <1>2 DEF Places

LEMMA BeginZero ==
  ASSUME NEW d \in Int, NEW w \in Seq(Records), NEW s \in BOOLEAN, NEW a \in Places, NEW b \in Places,
         NEW x \in Places, InStep(d, w, s, a, b),
         a.at = "loop", Begins(a, x), x.at = "forward", x.cursor = First(x.phase)
  PROVE  InStep(d, w, s, x, b)
<1> USE Tallies
<1>1. x.phase \in Phase /\ First(x.phase) \in Nat /\ First(x.phase) <= Bound(x.phase)
  BY PhaseRange DEF Places
<1>2. CASE Together(d, w, s, a, b)
  <2>1. b.at \in {"loop", "barrier", "poll"}
    BY <1>2 DEF Together, Looping
  <2>2. Begins(b, x)
    BY <1>2 DEF Together, Begins
  <2>3. Sending(x) /\ Carries(w, First(x.phase), x.cursor)
    BY <1>1, <1>2, <2>1, CarriesNothing DEF Together, Sending
  <2>4. d = Collectives(b.phase) + Entered(x) - Entered(b)
    BY <1>2 DEF Together
  <2>5. /\ b.at = "poll" => ~b.phase.smoke
        /\ b.at # "loop" /\ ~b.phase.smoke => ~s
    BY <1>2, <2>1 DEF Together
  <2> QED BY <2>1, <2>2, <2>3, <2>4, <2>5 DEF InStep, RankZeroAhead
<1>3. CASE RankOneAhead(d, w, a, b)
  <2>1. x.phase = b.phase /\ x.todo = b.todo /\ x.pilot = b.pilot
    BY <1>3, BeginsOnce DEF RankOneAhead
  <2>2. b.cursor = x.cursor /\ b.cursor \in Nat
    BY <1>3, <2>1 DEF RankOneAhead, Places
  <2>3. Sending(x) /\ Carries(w, b.cursor, x.cursor)
    BY <1>1, <1>3, <2>2, CarriesNothing DEF RankOneAhead, Sending
  <2> QED BY <1>3, <2>1, <2>3 DEF InStep, RankOneAhead, Together, Looping
<1> QED BY <1>2, <1>3 DEF InStep, RankZeroAhead

LEMMA SendZero ==
  ASSUME NEW d \in Int, NEW w \in Seq(Records), NEW s \in BOOLEAN, NEW a \in Places, NEW b \in Places,
         InStep(d, w, s, a, b), a.at = "forward", a.cursor < Bound(a.phase), a.cursor \in Records
  PROVE  InStep(d, Append(w, a.cursor), s, [a EXCEPT !.cursor = @ + 1], b)
<1> DEFINE x == [a EXCEPT !.cursor = @ + 1]
           v == Append(w, a.cursor)
<1>1. /\ x.at = a.at /\ x.todo = a.todo /\ x.pilot = a.pilot /\ x.phase = a.phase
      /\ x.cursor = a.cursor + 1
      /\ a.cursor \in Nat /\ Bound(a.phase) \in Nat
  BY PhaseRange DEF Places
<1>2. ASSUME NEW i \in Nat, Carries(w, i, a.cursor) PROVE Carries(v, i, x.cursor)
  <2>1. /\ Len(w) \in Nat /\ Len(v) = Len(w) + 1
        /\ v[Len(w) + 1] = a.cursor /\ \A k \in 1 .. Len(w) : v[k] = w[k]
    BY DEF v
  <2>2. Len(w) = a.cursor - i /\ \A k \in 1 .. Len(w) : w[k] = i + k - 1
    BY <1>2 DEF Carries
  <2> HIDE DEF v
  <2>3. v[Len(w) + 1] = i + (Len(w) + 1) - 1
    BY <1>1, <2>1, <2>2
  <2>4. ASSUME NEW k \in 1 .. Len(v) PROVE v[k] = i + k - 1
    <3>1. k \in 1 .. Len(w) \/ k = Len(w) + 1
      BY <2>1
    <3> QED BY <2>1, <2>2, <2>3, <3>1
  <2> QED BY <1>1, <2>1, <2>2, <2>4 DEF Carries
<1>3. Entered(x) = Entered(a) /\ Sending(x)
  BY <1>1 DEF Entered, Sending
<1> HIDE DEF x, v
<1>4. CASE Together(d, w, s, a, b)
  <2>1. b.at = "forward"
    BY <1>1, <1>4 DEF Together, Looping
  <2>2. Carries(v, b.cursor, x.cursor)
    BY <1>2, <1>4, <2>1 DEF Together, Places
  <2> QED BY <1>1, <1>3, <1>4, <2>1, <2>2 DEF InStep, Together, v, x
<1>5. CASE RankZeroAhead(d, w, s, a, b)
  <2>1. Carries(v, First(x.phase), x.cursor)
    BY <1>1, <1>2, <1>5, PhaseRange DEF RankZeroAhead, Places
  <2>2. Begins(b, x)
    BY <1>1, <1>5 DEF RankZeroAhead, Begins
  <2> QED BY <1>1, <1>3, <1>5, <2>1, <2>2 DEF InStep, RankZeroAhead, v, x
<1> QED BY <1>4, <1>5 DEF InStep, RankOneAhead

LEMMA ExportZero ==
  ASSUME NEW d \in Int, NEW w \in Seq(Records), NEW s \in BOOLEAN, NEW a \in Places, NEW b \in Places,
         InStep(d, w, s, a, b), a.at = "forward", ~(a.cursor < Bound(a.phase))
  PROVE  InStep(d + 1, w, s, [a EXCEPT !.at = "gather"], b)
<1> DEFINE x == [a EXCEPT !.at = "gather"]
<1>1. /\ x.at = "gather" /\ x.todo = a.todo /\ x.pilot = a.pilot /\ x.phase = a.phase
      /\ x.cursor = a.cursor
      /\ a.cursor \in Nat /\ Bound(a.phase) \in Nat
  BY PhaseRange DEF Places
<1>2. Entered(x) = Entered(a) + 1 /\ Entered(a) \in Int /\ Entered(b) \in Int
  BY <1>1, Tallies DEF Entered
<1>3. Sending(a) => Sending(x) /\ x.cursor = Bound(x.phase)
  BY <1>1 DEF Sending
<1> HIDE DEF x
<1>4. CASE Together(d, w, s, a, b)
  BY <1>1, <1>2, <1>3, <1>4 DEF InStep, Together, Looping, x
<1>5. CASE RankZeroAhead(d, w, s, a, b)
  <2>1. Begins(b, x)
    BY <1>1, <1>5 DEF RankZeroAhead, Begins
  <2> QED BY <1>1, <1>2, <1>3, <1>5, <2>1, Tallies DEF InStep, RankZeroAhead, x
<1> QED BY <1>4, <1>5 DEF InStep, RankOneAhead

\* Nobody leaves the gather before the other has entered it.
LEMMA MergeZero ==
  ASSUME NEW d \in Int, NEW w \in Seq(Records), NEW s \in BOOLEAN, NEW a \in Places, NEW b \in Places,
         InStep(d, w, s, a, b), a.at = "gather", d <= 0
  PROVE  /\ Together(d, w, s, a, b) /\ b.at \in {"gather", "barrier"}
         /\ InStep(d + 1, w, s, [a EXCEPT !.at = "barrier"], b)
<1> DEFINE x == [a EXCEPT !.at = "barrier"]
<1> USE Tallies
<1>1. /\ x.at = "barrier" /\ x.todo = a.todo /\ x.pilot = a.pilot /\ x.phase = a.phase
      /\ x.cursor = a.cursor
  BY DEF Places
<1>2. Entered(x) = Entered(a) + 1
  BY <1>1 DEF Entered
<1> HIDE DEF x
<1>3. ~RankZeroAhead(d, w, s, a, b)
  <2>1. b.at \in {"loop", "barrier", "poll"} => Collectives(b.phase) >= Entered(b)
    OBVIOUS
  <2> QED BY <2>1 DEF RankZeroAhead
<1>4. Together(d, w, s, a, b)
  BY <1>3 DEF InStep, RankOneAhead
<1>5. b.at \in {"gather", "barrier"}
  BY <1>4 DEF Together, Looping
<1> QED BY <1>1, <1>2, <1>4, <1>5 DEF InStep, Together, Looping, x

LEMMA PassZero ==
  ASSUME NEW d \in Int, NEW w \in Seq(Records), NEW s \in BOOLEAN, NEW a \in Places, NEW b \in Places,
         InStep(d, w, s, a, b), a.at = "barrier", d <= 0
  PROVE  InStep(d, w, s, [a EXCEPT !.at = IF a.phase.smoke THEN "loop" ELSE "poll"], b)
<1> DEFINE x == [a EXCEPT !.at = IF a.phase.smoke THEN "loop" ELSE "poll"]
<1> USE Tallies
<1>1. /\ x.at = IF a.phase.smoke THEN "loop" ELSE "poll"
      /\ x.todo = a.todo /\ x.pilot = a.pilot /\ x.phase = a.phase /\ x.cursor = a.cursor
  BY DEF Places
<1>2. Entered(x) = Entered(a)
  BY <1>1 DEF Entered, Collectives
<1> HIDE DEF x
<1>3. CASE Together(d, w, s, a, b)
  <2>1. b.at \in {"barrier", "loop", "poll"}
    BY <1>3 DEF Together, Looping
  <2> QED BY <1>1, <1>2, <1>3, <2>1 DEF InStep, Together, Looping, x
<1>4. CASE RankOneAhead(d, w, a, b)
  <2>1. Begins(x, b)
    BY <1>1, <1>4 DEF RankOneAhead, Begins
  <2> QED BY <1>1, <1>4, <2>1 DEF InStep, RankOneAhead, x
<1> QED BY <1>3, <1>4 DEF InStep, RankZeroAhead

LEMMA PollZero ==
  ASSUME NEW d \in Int, NEW w \in Seq(Records), NEW s \in BOOLEAN, NEW a \in Places, NEW b \in Places,
         NEW present \in BOOLEAN, InStep(d, w, s, a, b), a.at = "poll"
  PROVE  InStep(d + 1, w, present, [a EXCEPT !.at = IF present THEN "paused" ELSE "loop"], b)
<1> DEFINE x == [a EXCEPT !.at = IF present THEN "paused" ELSE "loop"]
<1> USE Tallies
<1>1. /\ x.at = IF present THEN "paused" ELSE "loop"
      /\ x.todo = a.todo /\ x.pilot = a.pilot /\ x.phase = a.phase /\ x.cursor = a.cursor
  BY DEF Places
<1>2. Together(d, w, s, a, b) /\ b.at \in {"barrier", "poll"} /\ ~a.phase.smoke
  BY DEF InStep, Together, RankZeroAhead, RankOneAhead, Looping
<1>3. Entered(x) = Entered(a) + 1
  BY <1>1, <1>2 DEF Entered, Collectives
<1> HIDE DEF x
<1> QED BY <1>1, <1>2, <1>3 DEF InStep, Together, Looping, x

------------------------------------------------------------------------------
\* The steps of rank 1 inside the phase loop.

LEMMA BeginOne ==
  ASSUME NEW d \in Int, NEW w \in Seq(Records), NEW s \in BOOLEAN, NEW a \in Places, NEW b \in Places,
         NEW y \in Places, InStep(d, w, s, a, b),
         b.at = "loop", Begins(b, y), y.at = "forward", y.cursor = First(y.phase)
  PROVE  InStep(d, w, s, a, y)
<1> USE Tallies
<1>1. CASE Together(d, w, s, a, b)
  <2>1. a.at = "loop" \/ (a.at = "barrier" /\ a.phase.smoke)
    BY <1>1 DEF Together
  <2>2. Begins(a, y) /\ d = 0 /\ w = <<>>
    BY <1>1, <2>1 DEF Together, Begins
  <2> QED BY <2>1, <2>2 DEF InStep, RankOneAhead
<1>2. CASE RankZeroAhead(d, w, s, a, b)
  <2>1. a.phase = y.phase /\ a.todo = y.todo /\ a.pilot = y.pilot
    BY <1>2, BeginsOnce DEF RankZeroAhead
  <2>2. Carries(w, y.cursor, a.cursor)
    BY <1>2, <2>1 DEF RankZeroAhead
  <2> QED BY <1>2, <2>1, <2>2 DEF InStep, RankZeroAhead, Together, Looping
<1> QED BY <1>1, <1>2 DEF InStep, RankOneAhead

\* Rank 1 receives the record it is about to forward.
LEMMA ReceiveExpected ==
  ASSUME NEW d \in Int, NEW w \in Seq(Records), NEW s \in BOOLEAN, NEW a \in Places, NEW b \in Places,
         InStep(d, w, s, a, b), b.at = "forward", w # <<>>
  PROVE  /\ Together(d, w, s, a, b) /\ b.cursor < Bound(b.phase) /\ Head(w) = b.cursor
         /\ Carries(Tail(w), b.cursor + 1, a.cursor)
<1>1. a.cursor \in Nat /\ b.cursor \in Nat /\ Bound(b.phase) \in Nat
  BY PhaseRange DEF Places
<1>2. Together(d, w, s, a, b)
  BY DEF InStep, RankZeroAhead, RankOneAhead
<1>3. Carries(w, b.cursor, a.cursor)
  BY <1>2 DEF Together
<1>4. /\ Len(w) \in Nat /\ Len(w) > 0
      /\ Head(w) = w[1] /\ Len(Tail(w)) = Len(w) - 1
      /\ \A k \in 1 .. Len(Tail(w)) : Tail(w)[k] = w[k + 1]
  BY EmptySeq
<1>5. Head(w) = b.cursor /\ b.cursor < a.cursor
  BY <1>1, <1>3, <1>4 DEF Carries
<1>6. a.cursor <= Bound(b.phase)
  BY <1>1, <1>2 DEF Together, Sending, Looping
<1>7. Carries(Tail(w), b.cursor + 1, a.cursor)
  <2>1. \A k \in 1 .. Len(Tail(w)) : k + 1 \in 1 .. Len(w)
    BY <1>4
  <2>2. Len(Tail(w)) = a.cursor - (b.cursor + 1)
    BY <1>1, <1>3, <1>4 DEF Carries
  <2>3. \A k \in 1 .. Len(Tail(w)) : Tail(w)[k] = (b.cursor + 1) + k - 1
    BY <1>1, <1>3, <1>4, <2>1 DEF Carries
  <2> QED BY <2>2, <2>3 DEF Carries
<1> QED BY <1>1, <1>2, <1>5, <1>6, <1>7

LEMMA ReceiveOne ==
  ASSUME NEW d \in Int, NEW w \in Seq(Records), NEW s \in BOOLEAN, NEW a \in Places, NEW b \in Places,
         InStep(d, w, s, a, b), b.at = "forward", w # <<>>
  PROVE  InStep(d, Tail(w), s, a, [b EXCEPT !.cursor = @ + 1])
<1> DEFINE y == [b EXCEPT !.cursor = @ + 1]
<1>1. /\ y.at = b.at /\ y.todo = b.todo /\ y.pilot = b.pilot /\ y.phase = b.phase
      /\ y.cursor = b.cursor + 1
  BY DEF Places
<1>2. Entered(y) = Entered(b)
  BY <1>1 DEF Entered, Collectives
<1> HIDE DEF y
<1>3. Together(d, w, s, a, b) /\ Carries(Tail(w), y.cursor, a.cursor)
  BY <1>1, ReceiveExpected
<1> QED BY <1>1, <1>2, <1>3 DEF InStep, Together, Looping, y

LEMMA ExportOne ==
  ASSUME NEW d \in Int, NEW w \in Seq(Records), NEW s \in BOOLEAN, NEW a \in Places, NEW b \in Places,
         InStep(d, w, s, a, b), b.at = "forward", ~(b.cursor < Bound(b.phase))
  PROVE  InStep(d - 1, w, s, a, [b EXCEPT !.at = "gather"])
<1> DEFINE y == [b EXCEPT !.at = "gather"]
<1> USE Tallies
<1>1. /\ y.at = "gather" /\ y.todo = b.todo /\ y.pilot = b.pilot /\ y.phase = b.phase
      /\ y.cursor = b.cursor
      /\ a.cursor \in Nat /\ b.cursor \in Nat /\ Bound(b.phase) \in Nat
      /\ First(b.phase) < Bound(b.phase) /\ First(b.phase) \in Nat
  BY PhaseRange DEF Places
<1>2. Entered(y) = Entered(b) + 1
  BY <1>1 DEF Entered
<1> HIDE DEF y
<1>3. Together(d, w, s, a, b)
  BY <1>1 DEF InStep, RankZeroAhead, RankOneAhead
<1>4. a.at \in {"forward", "gather"} /\ a.phase = b.phase
  BY <1>3 DEF Together, Looping
<1>5. Carries(w, b.cursor, a.cursor) /\ a.cursor <= Bound(b.phase)
  BY <1>3, <1>4 DEF Together, Sending
<1>6. a.cursor = Bound(a.phase) /\ w = <<>>
  <2>1. b.cursor <= a.cursor
    BY <1>1, <1>5, CarriesNothing
  <2>2. a.cursor = Bound(a.phase) /\ b.cursor = a.cursor
    BY <1>1, <1>4, <1>5, <2>1
  <2> QED BY <1>1, <1>5, <2>2, CarriesNothing
<1> QED BY <1>1, <1>2, <1>3, <1>4, <1>6 DEF InStep, Together, Looping, y

LEMMA MergeOne ==
  ASSUME NEW d \in Int, NEW w \in Seq(Records), NEW s \in BOOLEAN, NEW a \in Places, NEW b \in Places,
         InStep(d, w, s, a, b), b.at = "gather", d >= 0
  PROVE  /\ Together(d, w, s, a, b) /\ a.at \in {"gather", "barrier"}
         /\ InStep(d - 1, w, s, a, [b EXCEPT !.at = "barrier"])
<1> DEFINE y == [b EXCEPT !.at = "barrier"]
<1> USE Tallies
<1>1. /\ y.at = "barrier" /\ y.todo = b.todo /\ y.pilot = b.pilot /\ y.phase = b.phase
      /\ y.cursor = b.cursor
  BY DEF Places
<1>2. Entered(y) = Entered(b) + 1
  BY <1>1 DEF Entered
<1> HIDE DEF y
<1>3. Together(d, w, s, a, b)
  BY DEF InStep, RankZeroAhead, RankOneAhead
<1>4. a.at \in {"gather", "barrier"}
  BY <1>3 DEF Together, Looping
<1> QED BY <1>1, <1>2, <1>3, <1>4 DEF InStep, Together, Looping, y

LEMMA PassOne ==
  ASSUME NEW d \in Int, NEW w \in Seq(Records), NEW s \in BOOLEAN, NEW a \in Places, NEW b \in Places,
         InStep(d, w, s, a, b), b.at = "barrier", d >= 0
  PROVE  InStep(d, w, s, a, [b EXCEPT !.at = IF b.phase.smoke THEN "loop" ELSE "poll"])
<1> DEFINE y == [b EXCEPT !.at = IF b.phase.smoke THEN "loop" ELSE "poll"]
<1> USE Tallies
<1>1. /\ y.at = IF b.phase.smoke THEN "loop" ELSE "poll"
      /\ y.todo = b.todo /\ y.pilot = b.pilot /\ y.phase = b.phase /\ y.cursor = b.cursor
  BY DEF Places
<1>2. Entered(y) = Entered(b)
  BY <1>1 DEF Entered, Collectives
<1> HIDE DEF y
<1>3. CASE Together(d, w, s, a, b)
  <2>1. a.at \in {"barrier", "poll", "loop", "paused"}
    BY <1>3 DEF Together, Looping
  <2> QED BY <1>1, <1>2, <1>3, <2>1 DEF InStep, Together, Looping, y
<1>4. CASE RankZeroAhead(d, w, s, a, b)
  <2>1. Begins(y, a)
    BY <1>1, <1>4 DEF RankZeroAhead, Begins
  <2> QED BY <1>1, <1>2, <1>4, <2>1 DEF InStep, RankZeroAhead, y
<1> QED BY <1>3, <1>4 DEF InStep, RankOneAhead

LEMMA HearOne ==
  ASSUME NEW d \in Int, NEW w \in Seq(Records), NEW s \in BOOLEAN, NEW a \in Places, NEW b \in Places,
         InStep(d, w, s, a, b), b.at = "poll", d > 0
  PROVE  InStep(d - 1, w, s, a, [b EXCEPT !.at = IF s THEN "paused" ELSE "loop"])
<1> DEFINE y == [b EXCEPT !.at = IF s THEN "paused" ELSE "loop"]
<1> USE Tallies
<1>1. /\ y.at = IF s THEN "paused" ELSE "loop"
      /\ y.todo = b.todo /\ y.pilot = b.pilot /\ y.phase = b.phase /\ y.cursor = b.cursor
  BY DEF Places
<1> HIDE DEF y
<1>2. CASE Together(d, w, s, a, b)
  <2>1. a.at \in {"loop", "paused"} /\ ~b.phase.smoke
    BY <1>2 DEF Together, Looping
  <2>2. a.at = y.at
    BY <1>1, <1>2, <2>1 DEF Together
  <2>3. Entered(y) = Entered(b) + 1
    BY <1>1, <2>1 DEF Entered, Collectives
  <2> QED BY <1>1, <1>2, <2>1, <2>2, <2>3 DEF InStep, Together, Looping, y
<1>3. CASE RankZeroAhead(d, w, s, a, b)
  <2>1. ~s /\ ~b.phase.smoke
    BY <1>3 DEF RankZeroAhead
  <2>2. Begins(y, a)
    BY <1>1, <1>3 DEF RankZeroAhead, Begins
  <2>3. y.at = "loop" /\ Entered(y) = Entered(b) + 1
    BY <1>1, <2>1 DEF Entered, Collectives
  <2> QED BY <1>1, <1>3, <2>1, <2>2, <2>3 DEF InStep, RankZeroAhead, y
<1> QED BY <1>2, <1>3 DEF InStep, RankOneAhead

------------------------------------------------------------------------------
\* From places to processes.

LEMMA PlaceTypes ==
  ASSUME TypeInv, NEW l \in Launches, NEW r \in Ranks
  PROVE  /\ Place(l, r) \in Places
         /\ Place(l, r).at = pc[l][r] /\ Place(l, r).todo = todo[l][r]
         /\ Place(l, r).pilot = pilot[l][r] /\ Place(l, r).phase = phase[l][r]
         /\ Place(l, r).cursor = cursor[l][r]
BY DEF TypeInv, TypeOK, MemoryOK, Place, Places, Labels

LEMMA NetTypes ==
  ASSUME TypeInv, NEW l \in Launches
  PROVE  /\ met[l][0] \in Nat /\ met[l][1] \in Nat
         /\ wire[l] \in Seq(Records) /\ stop[l] \in BOOLEAN
         /\ met[l][0] - met[l][1] \in Int /\ met[l][0] - 2 \in Int
BY DEF TypeInv, TypeOK, NetworkOK, Ranks

LEMMA HeardTypes ==
  ASSUME NEW n
  PROVE  Heard(n) \in Places /\ Heard(n).at = "loop"
<1>1. IdlePhase \in Phase
  BY ManifestAssumption DEF IdlePhase, Phase, ShardIds, ValidManifest
<1> QED BY <1>1, PlannedShards DEF Heard, Places, Labels

\* A step of rank r in launch l touches nothing of another launch, and of the
\* other rank nothing but what they share.
Elsewhere(l, r) ==
  /\ \A k \in Launches, q \in Ranks : k # l \/ q # r =>
       /\ pc'[k][q] = pc[k][q] /\ todo'[k][q] = todo[k][q] /\ pilot'[k][q] = pilot[k][q]
       /\ phase'[k][q] = phase[k][q] /\ cursor'[k][q] = cursor[k][q]
  /\ \A k \in Launches : k # l =>
       /\ met'[k] = met[k] /\ wire'[k] = wire[k] /\ gift'[k] = gift[k]
       /\ roll'[k] = roll[k] /\ stop'[k] = stop[k] /\ id'[k] = id[k]

LEMMA PlaceTypesNext ==
  ASSUME TypeInv', NEW l \in Launches, NEW r \in Ranks
  PROVE  Place(l, r)' \in Places
<1>1. /\ pc'[l][r] \in Labels /\ todo'[l][r] \in SUBSET ShardIds /\ pilot'[l][r] \in BOOLEAN
      /\ phase'[l][r] \in Phase /\ cursor'[l][r] \in Nat
  BY DEF TypeInv, TypeOK, MemoryOK, Labels
<1> QED BY <1>1 DEF Place, Places

LEMMA AlignedSame ==
  ASSUME NEW k \in Launches, Aligned(k),
         \A q \in Ranks :
           /\ pc'[k][q] = pc[k][q] /\ todo'[k][q] = todo[k][q] /\ pilot'[k][q] = pilot[k][q]
           /\ phase'[k][q] = phase[k][q] /\ cursor'[k][q] = cursor[k][q],
         met'[k] = met[k], wire'[k] = wire[k], gift'[k] = gift[k],
         roll'[k] = roll[k], stop'[k] = stop[k], id'[k] = id[k]
  PROVE  Aligned(k)'
<1>1. Net(k)' = Net(k) /\ Place(k, 0)' = Place(k, 0) /\ Place(k, 1)' = Place(k, 1)
  BY DEF Net, Place, Ranks
<1>2. Alive(k)' <=> Alive(k)
  BY DEF Alive
<1> QED BY <1>1, <1>2 DEF Aligned, Ranks

LEMMA ZeroMoves ==
  ASSUME TypeInv, TypeInv', AlignInv, NEW l \in Launches, Elsewhere(l, 0),
         pc[l][0] # "off", pc'[l][0] # "off",
         \A b \in Places : Paired(Net(l), Place(l, 0), b) => Paired(Net(l)', Place(l, 0)', b)
  PROVE  AlignInv'
<1>1. Aligned(l) /\ Alive(l) /\ Alive(l)'
  BY DEF AlignInv, Alive, Ranks
<1>2. PICK b \in Places :
        /\ pc[l][1] # "off" => b = Place(l, 1)
        /\ Paired(Net(l), Place(l, 0), b)
  BY <1>1 DEF Aligned
<1>3. Paired(Net(l)', Place(l, 0)', b)
  BY <1>2
<1>4. Place(l, 0)' \in Places
  BY PlaceTypesNext DEF Ranks
<1>5. pc'[l][1] # "off" => pc[l][1] # "off" /\ Place(l, 1)' = Place(l, 1)
  BY DEF Elsewhere, Place, Ranks
<1>6. Aligned(l)'
  BY <1>1, <1>2, <1>3, <1>4, <1>5 DEF Aligned, Elsewhere, Ranks
<1>7. ASSUME NEW k \in Launches, k # l PROVE Aligned(k)'
  BY <1>7, AlignedSame DEF AlignInv, Elsewhere
<1> QED BY <1>6, <1>7 DEF AlignInv

LEMMA OneMoves ==
  ASSUME TypeInv, TypeInv', AlignInv, NEW l \in Launches, Elsewhere(l, 1),
         pc[l][1] # "off", pc'[l][1] # "off",
         \A a \in Places : Paired(Net(l), a, Place(l, 1)) => Paired(Net(l)', a, Place(l, 1)')
  PROVE  AlignInv'
<1>1. Aligned(l) /\ Alive(l) /\ Alive(l)'
  BY DEF AlignInv, Alive, Ranks
<1>2. PICK a \in Places :
        /\ pc[l][0] # "off" => a = Place(l, 0)
        /\ Paired(Net(l), a, Place(l, 1))
  BY <1>1 DEF Aligned
<1>3. Paired(Net(l)', a, Place(l, 1)')
  BY <1>2
<1>4. Place(l, 1)' \in Places
  BY PlaceTypesNext DEF Ranks
<1>5. pc'[l][0] # "off" => pc[l][0] # "off" /\ Place(l, 0)' = Place(l, 0)
  BY DEF Elsewhere, Place, Ranks
<1>6. Aligned(l)'
  BY <1>1, <1>2, <1>3, <1>4, <1>5 DEF Aligned, Elsewhere, Ranks
<1>7. ASSUME NEW k \in Launches, k # l PROVE Aligned(k)'
  BY <1>7, AlignedSame DEF AlignInv, Elsewhere
<1> QED BY <1>6, <1>7 DEF AlignInv

LEMMA AlignEnds ==
  ASSUME TypeInv, TypeInv', AlignInv, NEW l \in Launches, NEW r \in Ranks,
         pc[l][r] # "off", Ends(l, r)
  PROVE  AlignInv'
<1> USE DEF Ranks
<1>1. /\ pc' = [pc EXCEPT ![l][r] = "off"]
      /\ todo' = [todo EXCEPT ![l][r] = {}]
      /\ pilot' = [pilot EXCEPT ![l][r] = FALSE]
      /\ phase' = [phase EXCEPT ![l][r] = IdlePhase]
      /\ cursor' = [cursor EXCEPT ![l][r] = 0]
      /\ IF pc[l][Peer(r)] = "off" THEN GroupGone(l) ELSE UNCHANGED <<id, network>>
  BY DEF Ends, Goto
<1>2. Elsewhere(l, r)
  <2>1. ASSUME NEW k \in Launches, NEW q \in Ranks, k # l \/ q # r
        PROVE  /\ pc'[k][q] = pc[k][q] /\ todo'[k][q] = todo[k][q] /\ pilot'[k][q] = pilot[k][q]
               /\ phase'[k][q] = phase[k][q] /\ cursor'[k][q] = cursor[k][q]
    <3>1. CASE k # l
      BY <1>1, <3>1 DEF TypeInv, TypeOK, MemoryOK
    <3>2. CASE k = l
      BY <1>1, <2>1, <3>2 DEF TypeInv, TypeOK, MemoryOK
    <3> QED BY <3>1, <3>2
  <2>2. ASSUME NEW k \in Launches, k # l
        PROVE  /\ met'[k] = met[k] /\ wire'[k] = wire[k] /\ gift'[k] = gift[k]
               /\ roll'[k] = roll[k] /\ stop'[k] = stop[k] /\ id'[k] = id[k]
    <3>1. CASE GroupGone(l)
      BY <2>2, <3>1 DEF GroupGone, TypeInv, TypeOK, NetworkOK, MemoryOK
    <3>2. CASE UNCHANGED <<id, network>>
      BY <3>2 DEF network
    <3> QED BY <1>1, <3>1, <3>2
  <2> QED BY <2>1, <2>2 DEF Elsewhere
<1>3. Aligned(l) /\ Alive(l) /\ Peer(r) \in Ranks /\ Peer(r) # r
  BY DEF AlignInv, Alive, Peer
<1>4. pc'[l][r] = "off" /\ phase'[l][r] = IdlePhase /\ cursor'[l][r] = 0
  BY <1>1 DEF TypeInv, TypeOK, MemoryOK
<1>5. \A q \in Ranks : pc'[l][q] = "off" => phase'[l][q] = IdlePhase /\ cursor'[l][q] = 0
  BY <1>2, <1>3, <1>4 DEF Elsewhere, Aligned
<1>6. Alive(l)' <=> pc[l][Peer(r)] # "off"
  BY <1>2, <1>3, <1>4 DEF Alive, Elsewhere, Peer
<1>7. ~Alive(l)' => met'[l] = [q \in Ranks |-> 0] /\ wire'[l] = <<>>
  BY <1>1, <1>6 DEF GroupGone, TypeInv, TypeOK, NetworkOK
<1>8. ASSUME Alive(l)'
      PROVE  \E a, b \in Places :
               /\ pc'[l][0] # "off" => a = Place(l, 0)'
               /\ pc'[l][1] # "off" => b = Place(l, 1)'
               /\ Paired(Net(l)', a, b)
  <2>1. Net(l)' = Net(l)
    BY <1>1, <1>6, <1>8 DEF Net, network
  <2>2. PICK a \in Places, b \in Places :
          /\ pc[l][0] # "off" => a = Place(l, 0)
          /\ pc[l][1] # "off" => b = Place(l, 1)
          /\ Paired(Net(l), a, b)
    BY <1>3 DEF Aligned
  <2>3. \A q \in Ranks : pc'[l][q] # "off" => pc[l][q] # "off" /\ Place(l, q)' = Place(l, q)
    BY <1>2, <1>4 DEF Elsewhere, Place
  <2> QED BY <2>1, <2>2, <2>3
<1>9. Aligned(l)'
  BY <1>5, <1>7, <1>8 DEF Aligned
<1>10. ASSUME NEW k \in Launches, k # l PROVE Aligned(k)'
  BY <1>2, <1>10, AlignedSame DEF AlignInv, Elsewhere
<1> QED BY <1>9, <1>10 DEF AlignInv

\* A step of rank 0 in the phase loop, whether or not rank 1 has heard the list.
LEMMA ZeroLoops ==
  ASSUME TypeInv, TypeInv', AlignInv, NEW l \in Launches, Elsewhere(l, 0), NEW k \in {0, 1},
         pc[l][0] \in Looping, pc'[l][0] \in Looping,
         met'[l][0] = met[l][0] + k, met'[l][1] = met[l][1],
         id'[l] = id[l], roll'[l] = roll[l], gift'[l][1] = gift[l][1],
         Gave(Net(l), 0, Place(l, 0)) => Gave(Net(l)', 0, Place(l, 0)'),
         \A d \in Int, c \in Places :
           d <= met[l][0] - met[l][1] /\ InStep(d, wire[l], stop[l], Place(l, 0), c) =>
             InStep(d + k, wire'[l], stop'[l], Place(l, 0)', c)
  PROVE  AlignInv'
<1>1. pc[l][0] # "off" /\ pc'[l][0] # "off"
  BY DEF Looping
<1>2. SUFFICES ASSUME NEW b \in Places, Paired(Net(l), Place(l, 0), b)
               PROVE  Paired(Net(l)', Place(l, 0)', b)
  BY <1>1, ZeroMoves
<1>3. /\ Net(l)'.met = met'[l] /\ Net(l)'.wire = wire'[l] /\ Net(l)'.gift = gift'[l]
      /\ Net(l)'.roll = roll'[l] /\ Net(l)'.stop = stop'[l] /\ Net(l)'.id = id'[l]
      /\ Net(l).met = met[l] /\ Net(l).wire = wire[l] /\ Net(l).gift = gift[l]
      /\ Net(l).roll = roll[l] /\ Net(l).stop = stop[l] /\ Net(l).id = id[l]
  BY DEF Net
<1>4. Gave(Net(l)', 0, Place(l, 0)') /\ Gave(Net(l)', 1, b)
  BY <1>2, <1>3 DEF Paired, Gave
<1>5. ~Handshake(Net(l), Place(l, 0), b)
  BY PlaceTypes DEF Handshake, Looping, Ranks
<1>6. CASE Unheard(Net(l), Place(l, 0), b)
  <2>1. Heard(Net(l)') = Heard(Net(l)) /\ Heard(Net(l)) \in Places
    BY <1>3, HeardTypes DEF Heard
  <2>2. met[l][1] = 1 /\ met[l][0] \in Nat
    BY <1>3, <1>6, NetTypes DEF Unheard
  <2>3. InStep(met[l][0] - 2, wire[l], stop[l], Place(l, 0), Heard(Net(l)))
    BY <1>3, <1>6 DEF Unheard
  <2>4. met[l][0] - 2 <= met[l][0] - met[l][1] /\ met[l][0] - 2 \in Int
        /\ (met[l][0] - 2) + k = met'[l][0] - 2
    BY <2>2
  <2>5. InStep((met[l][0] - 2) + k, wire'[l], stop'[l], Place(l, 0)', Heard(Net(l)))
    BY <2>1, <2>3, <2>4
  <2>6. InStep(met'[l][0] - 2, wire'[l], stop'[l], Place(l, 0)', Heard(Net(l)))
    BY <2>4, <2>5
  <2>7. Unheard(Net(l)', Place(l, 0)', b)
    BY <1>3, <1>6, <2>1, <2>6 DEF Unheard, Agreed
  <2> QED BY <1>4, <2>7 DEF Paired
<1>7. CASE Planned(Net(l), Place(l, 0), b)
  <2> DEFINE d == met[l][0] - met[l][1]
  <2>1. d \in Int /\ d <= d /\ d + k = met'[l][0] - met'[l][1]
    BY NetTypes
  <2>2. InStep(d, wire[l], stop[l], Place(l, 0), b)
    BY <1>3, <1>7 DEF Planned
  <2>3. InStep(d + k, wire'[l], stop'[l], Place(l, 0)', b)
    BY <2>1, <2>2
  <2>4. InStep(met'[l][0] - met'[l][1], wire'[l], stop'[l], Place(l, 0)', b)
    BY <2>1, <2>3
  <2>5. Planned(Net(l)', Place(l, 0)', b)
    BY <1>3, <1>7, <2>4 DEF Planned, Agreed
  <2> QED BY <1>4, <2>5 DEF Paired
<1> QED BY <1>2, <1>5, <1>6, <1>7 DEF Paired

\* A step of rank 1 in the phase loop.
LEMMA OneLoops ==
  ASSUME TypeInv, TypeInv', AlignInv, NEW l \in Launches, Elsewhere(l, 1), NEW k \in {0, 1},
         pc[l][1] \in Looping, pc'[l][1] \in Looping,
         met'[l][0] = met[l][0], met'[l][1] = met[l][1] + k,
         id'[l] = id[l], roll'[l] = roll[l], gift'[l][0] = gift[l][0],
         Gave(Net(l), 1, Place(l, 1)) => Gave(Net(l)', 1, Place(l, 1)'),
         \A c \in Places :
           InStep(met[l][0] - met[l][1], wire[l], stop[l], c, Place(l, 1)) =>
             InStep((met[l][0] - met[l][1]) - k, wire'[l], stop'[l], c, Place(l, 1)')
  PROVE  AlignInv'
<1>1. pc[l][1] # "off" /\ pc'[l][1] # "off"
  BY DEF Looping
<1>2. SUFFICES ASSUME NEW a \in Places, Paired(Net(l), a, Place(l, 1))
               PROVE  Paired(Net(l)', a, Place(l, 1)')
  BY <1>1, OneMoves
<1>3. /\ Net(l)'.met = met'[l] /\ Net(l)'.wire = wire'[l] /\ Net(l)'.gift = gift'[l]
      /\ Net(l)'.roll = roll'[l] /\ Net(l)'.stop = stop'[l] /\ Net(l)'.id = id'[l]
      /\ Net(l).met = met[l] /\ Net(l).wire = wire[l] /\ Net(l).gift = gift[l]
      /\ Net(l).roll = roll[l] /\ Net(l).stop = stop[l] /\ Net(l).id = id[l]
  BY DEF Net
<1>4. Gave(Net(l)', 0, a) /\ Gave(Net(l)', 1, Place(l, 1)')
  BY <1>2, <1>3 DEF Paired, Gave
<1>5. Planned(Net(l), a, Place(l, 1))
  BY <1>2, PlaceTypes DEF Paired, Handshake, Unheard, Looping, Ranks
<1>6. (met[l][0] - met[l][1]) - k = met'[l][0] - met'[l][1]
  BY NetTypes
<1>7. InStep((met[l][0] - met[l][1]) - k, wire'[l], stop'[l], a, Place(l, 1)')
  BY <1>3, <1>5 DEF Planned
<1>8. Planned(Net(l)', a, Place(l, 1)')
  BY <1>3, <1>5, <1>6, <1>7 DEF Planned, Agreed
<1> QED BY <1>4, <1>8 DEF Paired

LEMMA AlignForward ==
  ASSUME TypeInv, TypeInv', AlignInv, NEW l \in Launches, Forward(l)
  PROVE  AlignInv'
<1> DEFINE a == Place(l, 0)
<1>1. /\ pc[l][0] = "forward" /\ MoreRecords(l, 0) /\ UNCHANGED <<pc, id, todo, pilot, phase, met, gift, roll, stop>>
      /\ cursor' = [cursor EXCEPT ![l][0] = @ + 1]
      /\ wire' = [wire EXCEPT ![l] = Append(@, cursor[l][0])]
  BY DEF Forward, Observe
<1>2. Elsewhere(l, 0)
  BY <1>1 DEF Elsewhere, TypeInv, TypeOK, MemoryOK, NetworkOK, Ranks
<1>3. /\ a \in Places /\ a.at = "forward" /\ a.cursor = cursor[l][0] /\ a.cursor < Bound(a.phase)
      /\ a.cursor \in Records
  BY <1>1, PlaceTypes, CursorInRange DEF MoreRecords, Ranks
<1>4. /\ wire'[l] = Append(wire[l], a.cursor) /\ stop'[l] = stop[l]
      /\ Place(l, 0)' = [a EXCEPT !.cursor = @ + 1]
  <2>1. cursor'[l][0] = cursor[l][0] + 1
    BY <1>1 DEF TypeInv, TypeOK, MemoryOK, Ranks
  <2>2. Place(l, 0)' = [a EXCEPT !.cursor = @ + 1]
    BY <1>1, <2>1 DEF Place
  <2>3. wire'[l] = Append(wire[l], a.cursor)
    BY <1>1, <1>3 DEF TypeInv, TypeOK, NetworkOK
  <2> QED BY <1>1, <2>2, <2>3
<1>5. Net(l)'.gift = Net(l).gift /\ Net(l)'.id = Net(l).id /\ Place(l, 0)'.at = "forward"
  BY <1>1 DEF Net, Place
<1>6. Gave(Net(l)', 0, Place(l, 0)')
  BY <1>5 DEF Gave
<1>7. ASSUME NEW d \in Int, NEW c \in Places, InStep(d, wire[l], stop[l], a, c)
      PROVE  InStep(d + 0, wire'[l], stop'[l], Place(l, 0)', c)
  BY <1>3, <1>4, <1>7, SendZero, NetTypes
<1>8. /\ pc'[l][0] = "forward" /\ met'[l][0] = met[l][0] + 0 /\ met'[l][1] = met[l][1]
      /\ id'[l] = id[l] /\ roll'[l] = roll[l] /\ gift'[l][1] = gift[l][1]
  BY <1>1, NetTypes
<1> HIDE DEF a
<1> QED BY <1>1, <1>2, <1>6, <1>7, <1>8, ZeroLoops DEF Looping, a

\* The steps that move a rank and, perhaps, let it enter a collective.
LEMMA GotoMoves ==
  ASSUME TypeInv, NEW l \in Launches, NEW r \in Ranks, NEW label, Goto(l, r, label),
         UNCHANGED <<id, todo, pilot, phase, cursor, wire, roll>>,
         Enter(l, r) \/ UNCHANGED met,
         \A k \in Launches : k # l => stop'[k] = stop[k] /\ gift'[k] = gift[k],
         \A q \in Ranks : q # r => gift'[l][q] = gift[l][q]
  PROVE  /\ Elsewhere(l, r)
         /\ Place(l, r)' = [Place(l, r) EXCEPT !.at = label]
         /\ pc'[l][r] = label
         /\ id'[l] = id[l] /\ roll'[l] = roll[l] /\ wire'[l] = wire[l]
         /\ \A q \in Ranks : q # r => met'[l][q] = met[l][q] /\ gift'[l][q] = gift[l][q]
         /\ Enter(l, r) => met'[l][r] = met[l][r] + 1
         /\ UNCHANGED met => met'[l][r] = met[l][r] + 0
<1>1. /\ pc' = [pc EXCEPT ![l][r] = label]
      /\ met' = [met EXCEPT ![l][r] = @ + 1] \/ met' = met
  BY DEF Goto, Enter
<1>2. ASSUME NEW k \in Launches, NEW q \in Ranks, k # l \/ q # r
      PROVE  pc'[k][q] = pc[k][q] /\ met'[k][q] = met[k][q]
  <2>1. pc'[k][q] = pc[k][q]
    BY <1>1, <1>2 DEF TypeInv, TypeOK, MemoryOK
  <2>2. met'[k][q] = met[k][q]
    BY <1>1, <1>2 DEF TypeInv, TypeOK, NetworkOK
  <2> QED BY <2>1, <2>2
<1>3. ASSUME NEW k \in Launches, k # l
      PROVE  met'[k] = met[k]
  BY <1>1, <1>3 DEF TypeInv, TypeOK, NetworkOK
<1>4. Elsewhere(l, r)
  BY <1>2, <1>3 DEF Elsewhere
<1>5. pc'[l][r] = label
  BY <1>1 DEF TypeInv, TypeOK, MemoryOK
<1>6. Place(l, r)' = [Place(l, r) EXCEPT !.at = label]
  BY <1>5 DEF Place
<1>7. /\ Enter(l, r) => met'[l][r] = met[l][r] + 1
      /\ UNCHANGED met => met'[l][r] = met[l][r] + 0
  BY DEF Enter, TypeInv, TypeOK, NetworkOK
<1> QED BY <1>2, <1>4, <1>5, <1>6, <1>7

LEMMA AlignExport ==
  ASSUME TypeInv, TypeInv', AlignInv, NEW l \in Launches, NEW r \in Ranks, Export(l, r)
  PROVE  AlignInv'
<1>1. /\ pc[l][r] = "forward" /\ ~(cursor[l][r] < Bound(phase[l][r]))
      /\ Goto(l, r, "gather") /\ Enter(l, r)
      /\ UNCHANGED <<id, todo, pilot, phase, cursor, wire, roll, stop>>
      /\ gift' = [gift EXCEPT ![l][r] =
                    [phase |-> phase[l][r], rt |-> id[l][r].rt, acc |-> acc[l][r]]]
  BY DEF Export, MoreRecords, memory
<1>2. /\ Elsewhere(l, r)
      /\ Place(l, r)' = [Place(l, r) EXCEPT !.at = "gather"]
      /\ pc'[l][r] = "gather"
      /\ id'[l] = id[l] /\ roll'[l] = roll[l] /\ wire'[l] = wire[l] /\ stop'[l] = stop[l]
      /\ \A q \in Ranks : q # r => met'[l][q] = met[l][q] /\ gift'[l][q] = gift[l][q]
      /\ met'[l][r] = met[l][r] + 1
  <2>1. /\ \A k \in Launches : k # l => gift'[k] = gift[k]
        /\ \A q \in Ranks : q # r => gift'[l][q] = gift[l][q]
    BY <1>1 DEF TypeInv, TypeOK, NetworkOK
  <2> QED BY <1>1, <2>1, GotoMoves
<1>3. Gave(Net(l)', r, Place(l, r)')
  <2>1. gift'[l][r] = [phase |-> phase[l][r], rt |-> id[l][r].rt, acc |-> acc[l][r]]
    BY <1>1 DEF TypeInv, TypeOK, NetworkOK
  <2>2. gift'[l][r] # None
    <3>1. gift'[l][r] \in Payload
      BY <1>1, <2>1 DEF Payload, TypeInv, TypeOK, MemoryOK, Stats, Identified, Identities
    <3> QED BY <3>1, PayloadAssumption
  <2> QED BY <1>1, <2>1, <2>2 DEF Gave, Net, Place
<1>4. /\ Place(l, r) \in Places /\ Place(l, r).at = "forward"
      /\ ~(Place(l, r).cursor < Bound(Place(l, r).phase))
  BY <1>1, PlaceTypes
<1>5. CASE r = 0
  <2>1. ASSUME NEW d \in Int, NEW c \in Places, InStep(d, wire[l], stop[l], Place(l, 0), c)
        PROVE  InStep(d + 1, wire'[l], stop'[l], Place(l, 0)', c)
    BY <1>2, <1>4, <1>5, <2>1, ExportZero, NetTypes
  <2> QED BY <1>1, <1>2, <1>3, <1>5, <2>1, ZeroLoops DEF Looping, Ranks
<1>6. CASE r = 1
  <2>1. ASSUME NEW c \in Places, InStep(met[l][0] - met[l][1], wire[l], stop[l], c, Place(l, 1))
        PROVE  InStep((met[l][0] - met[l][1]) - 1, wire'[l], stop'[l], c, Place(l, 1)')
    BY <1>2, <1>4, <1>6, <2>1, ExportOne, NetTypes
  <2> QED BY <1>1, <1>2, <1>3, <1>6, <2>1, OneLoops DEF Looping, Ranks
<1> QED BY <1>5, <1>6 DEF Ranks

LEMMA AlignMerge ==
  ASSUME TypeInv, TypeInv', AlignInv, NEW l \in Launches, NEW r \in Ranks, Merge(l, r)
  PROVE  AlignInv'
<1>1. pc[l][r] = "gather" /\ met[l][Peer(r)] >= met[l][r]
  BY DEF Merge, BothEntered
<1>2. CASE Quits(l, r)
  BY <1>1, <1>2, AlignEnds DEF Quits
<1>3. CASE ~Quits(l, r)
  <2>1. /\ Goto(l, r, "barrier") /\ Enter(l, r)
        /\ UNCHANGED <<id, todo, pilot, phase, cursor, wire, roll, stop, gift>>
    BY <1>3 DEF Merge, memory
  <2>2. /\ Elsewhere(l, r)
        /\ Place(l, r)' = [Place(l, r) EXCEPT !.at = "barrier"]
        /\ pc'[l][r] = "barrier"
        /\ id'[l] = id[l] /\ roll'[l] = roll[l] /\ wire'[l] = wire[l] /\ stop'[l] = stop[l]
        /\ gift'[l] = gift[l]
        /\ \A q \in Ranks : q # r => met'[l][q] = met[l][q]
        /\ met'[l][r] = met[l][r] + 1
    BY <2>1, GotoMoves
  <2>3. Gave(Net(l), r, Place(l, r)) => Gave(Net(l)', r, Place(l, r)')
    BY <1>1, <2>1, <2>2 DEF Gave, Net, Place
  <2>4. Place(l, r) \in Places /\ Place(l, r).at = "gather"
    BY <1>1, PlaceTypes
  <2>5. CASE r = 0
    <3>1. ASSUME NEW d \in Int, NEW c \in Places, d <= met[l][0] - met[l][1],
                 InStep(d, wire[l], stop[l], Place(l, 0), c)
          PROVE  InStep(d + 1, wire'[l], stop'[l], Place(l, 0)', c)
      <4>1. d <= 0
        BY <1>1, <2>5, <3>1, NetTypes DEF Peer
      <4> QED BY <2>2, <2>4, <2>5, <3>1, <4>1, MergeZero, NetTypes
    <3> QED BY <1>1, <2>2, <2>3, <2>5, <3>1, ZeroLoops DEF Looping, Ranks
  <2>6. CASE r = 1
    <3>1. ASSUME NEW c \in Places, InStep(met[l][0] - met[l][1], wire[l], stop[l], c, Place(l, 1))
          PROVE  InStep((met[l][0] - met[l][1]) - 1, wire'[l], stop'[l], c, Place(l, 1)')
      <4>1. met[l][0] - met[l][1] >= 0
        BY <1>1, <2>6, NetTypes DEF Peer
      <4> QED BY <2>2, <2>4, <2>6, <3>1, <4>1, MergeOne, NetTypes
    <3> QED BY <1>1, <2>2, <2>3, <2>6, <3>1, OneLoops DEF Looping, Ranks
  <2> QED BY <2>5, <2>6 DEF Ranks
<1> QED BY <1>2, <1>3

LEMMA AlignPass ==
  ASSUME TypeInv, TypeInv', AlignInv, NEW l \in Launches, NEW r \in Ranks, PassBarrier(l, r)
  PROVE  AlignInv'
<1>1. pc[l][r] = "barrier" /\ met[l][Peer(r)] >= met[l][r]
  BY DEF PassBarrier, BothEntered
<1>2. CASE Quits(l, r)
  BY <1>1, <1>2, AlignEnds DEF Quits
<1>3. CASE ~Quits(l, r)
  <2> DEFINE label == IF phase[l][r].smoke THEN "loop" ELSE "poll"
  <2>1. /\ Goto(l, r, label)
        /\ UNCHANGED <<id, todo, pilot, phase, cursor, met, wire, roll, stop, gift>>
    BY <1>3 DEF PassBarrier, network
  <2>2. /\ Elsewhere(l, r)
        /\ Place(l, r)' = [Place(l, r) EXCEPT !.at = label]
        /\ pc'[l][r] = label
        /\ id'[l] = id[l] /\ roll'[l] = roll[l] /\ wire'[l] = wire[l] /\ stop'[l] = stop[l]
        /\ gift'[l] = gift[l] /\ met'[l] = met[l]
        /\ met'[l][r] = met[l][r] + 0
    BY <2>1, GotoMoves
  <2>3. Gave(Net(l)', r, Place(l, r)')
    BY <2>2 DEF Gave, Place
  <2>4. Place(l, r) \in Places /\ Place(l, r).at = "barrier" /\ Place(l, r).phase = phase[l][r]
    BY <1>1, PlaceTypes
  <2>5. CASE r = 0
    <3>1. ASSUME NEW d \in Int, NEW c \in Places, d <= met[l][0] - met[l][1],
                 InStep(d, wire[l], stop[l], Place(l, 0), c)
          PROVE  InStep(d + 0, wire'[l], stop'[l], Place(l, 0)', c)
      <4>1. d <= 0 /\ d + 0 = d
        BY <1>1, <2>5, <3>1, NetTypes DEF Peer
      <4> QED BY <2>2, <2>4, <2>5, <3>1, <4>1, PassZero, NetTypes
    <3> QED BY <1>1, <2>2, <2>3, <2>5, <3>1, ZeroLoops DEF Looping, Ranks
  <2>6. CASE r = 1
    <3>1. ASSUME NEW c \in Places, InStep(met[l][0] - met[l][1], wire[l], stop[l], c, Place(l, 1))
          PROVE  InStep((met[l][0] - met[l][1]) - 0, wire'[l], stop'[l], c, Place(l, 1)')
      <4>1. met[l][0] - met[l][1] >= 0 /\ (met[l][0] - met[l][1]) - 0 = met[l][0] - met[l][1]
        BY <1>1, <2>6, NetTypes DEF Peer
      <4> QED BY <2>2, <2>4, <2>6, <3>1, <4>1, PassOne, NetTypes
    <3> QED BY <1>1, <2>2, <2>3, <2>6, <3>1, OneLoops DEF Looping, Ranks
  <2> QED BY <2>5, <2>6 DEF Ranks
<1> QED BY <1>2, <1>3

LEMMA AlignPoll ==
  ASSUME TypeInv, TypeInv', AlignInv, NEW l \in Launches, PollPause(l)
  PROVE  AlignInv'
<1>1. PICK present \in BOOLEAN :
        /\ stop' = [stop EXCEPT ![l] = present]
        /\ Goto(l, 0, IF present THEN "paused" ELSE "loop")
  BY DEF PollPause
<1>2. pc[l][0] = "poll" /\ Enter(l, 0) /\ UNCHANGED <<id, todo, pilot, phase, cursor, wire, roll, gift>>
  BY DEF PollPause, memory
<1> DEFINE label == IF present THEN "paused" ELSE "loop"
<1>3. /\ Elsewhere(l, 0)
      /\ Place(l, 0)' = [Place(l, 0) EXCEPT !.at = label]
      /\ pc'[l][0] = label
      /\ id'[l] = id[l] /\ roll'[l] = roll[l] /\ wire'[l] = wire[l]
      /\ gift'[l] = gift[l]
      /\ met'[l][1] = met[l][1] /\ met'[l][0] = met[l][0] + 1
  <2>1. \A k \in Launches : k # l => stop'[k] = stop[k]
    BY <1>1 DEF TypeInv, TypeOK, NetworkOK
  <2> QED BY <1>1, <1>2, <2>1, GotoMoves DEF Ranks
<1>4. stop'[l] = present
  BY <1>1 DEF TypeInv, TypeOK, NetworkOK
<1>5. Place(l, 0) \in Places /\ Place(l, 0).at = "poll"
  BY <1>2, PlaceTypes DEF Ranks
<1>6. ASSUME NEW d \in Int, NEW c \in Places, InStep(d, wire[l], stop[l], Place(l, 0), c)
      PROVE  InStep(d + 1, wire'[l], stop'[l], Place(l, 0)', c)
  BY <1>3, <1>4, <1>5, <1>6, PollZero, NetTypes
<1>7. Gave(Net(l)', 0, Place(l, 0)')
  BY <1>3 DEF Gave, Place
<1> QED BY <1>2, <1>3, <1>6, <1>7, ZeroLoops DEF Looping

LEMMA AlignHear ==
  ASSUME TypeInv, TypeInv', AlignInv, NEW l \in Launches, HearPause(l)
  PROVE  AlignInv'
<1> DEFINE label == IF stop[l] THEN "paused" ELSE "loop"
<1>1. /\ pc[l][1] = "poll" /\ met[l][0] > met[l][1] /\ Enter(l, 1) /\ Goto(l, 1, label)
      /\ UNCHANGED <<id, todo, pilot, phase, cursor, wire, roll, gift, stop>>
  BY DEF HearPause, memory, Broadcast
<1>2. /\ Elsewhere(l, 1)
      /\ Place(l, 1)' = [Place(l, 1) EXCEPT !.at = label]
      /\ pc'[l][1] = label
      /\ id'[l] = id[l] /\ roll'[l] = roll[l] /\ wire'[l] = wire[l]
      /\ gift'[l] = gift[l] /\ stop'[l] = stop[l]
      /\ met'[l][0] = met[l][0] /\ met'[l][1] = met[l][1] + 1
  BY <1>1, GotoMoves DEF Ranks
<1>3. Place(l, 1) \in Places /\ Place(l, 1).at = "poll"
  BY <1>1, PlaceTypes DEF Ranks
<1>4. met[l][0] - met[l][1] > 0
  BY <1>1, NetTypes
<1>5. ASSUME NEW c \in Places, InStep(met[l][0] - met[l][1], wire[l], stop[l], c, Place(l, 1))
      PROVE  InStep((met[l][0] - met[l][1]) - 1, wire'[l], stop'[l], c, Place(l, 1)')
  BY <1>2, <1>3, <1>4, <1>5, HearOne, NetTypes
<1>6. Gave(Net(l)', 1, Place(l, 1)')
  BY <1>2 DEF Gave, Place
<1> QED BY <1>1, <1>2, <1>5, <1>6, OneLoops DEF Looping

LEMMA AlignBegin ==
  ASSUME TypeInv, TypeInv', AlignInv, NEW l \in Launches, NEW r \in Ranks, BeginPhase(l, r)
  PROVE  AlignInv'
<1> DEFINE x == Place(l, r)
           y == Place(l, r)'
<1>1. /\ pc[l][r] = "loop" /\ pc' = [pc EXCEPT ![l][r] = "forward"]
      /\ \E p : phase' = [phase EXCEPT ![l][r] = p]
      /\ todo' = todo \/ \E t : todo' = [todo EXCEPT ![l][r] = @ \ {t}]
      /\ pilot' = [pilot EXCEPT ![l][r] = FALSE]
      /\ cursor' = [cursor EXCEPT ![l][r] = First(phase'[l][r])]
      /\ UNCHANGED <<id, met, wire, gift, roll, stop>>
  BY DEF BeginPhase, Goto, network
<1>2. Elsewhere(l, r)
  <2>1. ASSUME NEW k \in Launches, NEW q \in Ranks, k # l \/ q # r
        PROVE  /\ pc'[k][q] = pc[k][q] /\ todo'[k][q] = todo[k][q] /\ pilot'[k][q] = pilot[k][q]
               /\ phase'[k][q] = phase[k][q] /\ cursor'[k][q] = cursor[k][q]
    <3>1. todo'[k][q] = todo[k][q]
      BY <1>1, <2>1 DEF TypeInv, TypeOK, MemoryOK
    <3>2. phase'[k][q] = phase[k][q]
      BY <1>1, <2>1 DEF TypeInv, TypeOK, MemoryOK
    <3>3. pc'[k][q] = pc[k][q]
      BY <1>1, <2>1 DEF TypeInv, TypeOK, MemoryOK
    <3>4. pilot'[k][q] = pilot[k][q]
      BY <1>1, <2>1 DEF TypeInv, TypeOK, MemoryOK
    <3>5. cursor'[k][q] = cursor[k][q]
      BY <1>1, <2>1 DEF TypeInv, TypeOK, MemoryOK
    <3> QED BY <3>1, <3>2, <3>3, <3>4, <3>5
  <2> QED BY <1>1, <2>1 DEF Elsewhere
<1>3. /\ x \in Places /\ y \in Places /\ x.at = "loop"
      /\ x.todo = todo[l][r] /\ x.pilot = pilot[l][r]
  BY <1>1, PlaceTypes, PlaceTypesNext
<1>4. /\ y.at = "forward" /\ y.todo = todo'[l][r] /\ y.pilot = FALSE
      /\ y.phase = phase'[l][r] /\ y.cursor = First(y.phase)
  BY <1>1 DEF Place, TypeInv, TypeOK, MemoryOK
<1>5. Begins(x, y)
  <2>1. CASE /\ pilot[l][r] /\ UNCHANGED todo
             /\ phase' = [phase EXCEPT ![l][r] = [shard |-> FirstShard, smoke |-> TRUE]]
    <3>1. y.phase = [shard |-> FirstShard, smoke |-> TRUE]
      BY <1>4, <2>1 DEF TypeInv, TypeOK, MemoryOK
    <3> HIDE DEF x, y
    <3> QED BY <1>3, <1>4, <2>1, <3>1 DEF Begins
  <2>2. ASSUME ~pilot[l][r], NEW s \in todo[l][r], \A t \in todo[l][r] : s <= t,
               phase' = [phase EXCEPT ![l][r] = [shard |-> s, smoke |-> FALSE]],
               todo' = [todo EXCEPT ![l][r] = @ \ {s}]
        PROVE  Begins(x, y)
    <3>1. y.phase = [shard |-> s, smoke |-> FALSE] /\ y.todo = todo[l][r] \ {s}
      BY <1>4, <2>2 DEF TypeInv, TypeOK, MemoryOK
    <3> HIDE DEF x, y
    <3> QED BY <1>3, <1>4, <2>2, <3>1 DEF Begins
  <2> QED BY <2>1, <2>2 DEF BeginPhase
<1>6. Gave(Net(l)', r, y)
  BY <1>4 DEF Gave
<1>7. /\ pc'[l][r] = "forward" /\ wire'[l] = wire[l] /\ stop'[l] = stop[l] /\ id'[l] = id[l]
      /\ roll'[l] = roll[l] /\ gift'[l] = gift[l] /\ met'[l] = met[l] /\ met'[l][r] = met[l][r] + 0
  BY <1>1 DEF TypeInv, TypeOK, MemoryOK, NetworkOK
<1>8. CASE r = 0
  <2>1. ASSUME NEW d \in Int, NEW c \in Places, InStep(d, wire[l], stop[l], Place(l, 0), c)
        PROVE  InStep(d + 0, wire'[l], stop'[l], Place(l, 0)', c)
    <3> HIDE DEF x, y
    <3>1. InStep(d, wire[l], stop[l], x, c)
      BY <1>8, <2>1 DEF x
    <3>2. InStep(d, wire[l], stop[l], y, c)
      BY <1>3, <1>4, <1>5, <3>1, BeginZero, NetTypes
    <3> QED BY <1>7, <1>8, <3>2 DEF y
  <2> QED BY <1>1, <1>2, <1>6, <1>7, <1>8, <2>1, ZeroLoops DEF Looping, Ranks
<1>9. CASE r = 1
  <2>1. ASSUME NEW c \in Places, InStep(met[l][0] - met[l][1], wire[l], stop[l], c, Place(l, 1))
        PROVE  InStep((met[l][0] - met[l][1]) - 0, wire'[l], stop'[l], c, Place(l, 1)')
    <3> DEFINE d == met[l][0] - met[l][1]
    <3>1. d \in Int /\ d - 0 = d
      BY NetTypes
    <3>2. InStep(d, wire[l], stop[l], c, x)
      BY <1>9, <2>1
    <3> HIDE DEF x, y, d
    <3>3. InStep(d, wire[l], stop[l], c, y)
      BY <1>3, <1>4, <1>5, <3>1, <3>2, BeginOne, NetTypes
    <3> QED BY <1>7, <1>9, <3>1, <3>3 DEF y, d
  <2> QED BY <1>1, <1>2, <1>6, <1>7, <1>9, <2>1, OneLoops DEF Looping, Ranks
<1> QED BY <1>8, <1>9 DEF Ranks

LEMMA AlignReceive ==
  ASSUME TypeInv, TypeInv', AlignInv, NEW l \in Launches, Receive(l)
  PROVE  AlignInv'
<1> DEFINE b == Place(l, 1)
<1>1. pc[l][1] = "forward" /\ wire[l] # <<>>
  BY DEF Receive
<1>2. CASE Quits(l, 1)
  BY <1>1, <1>2, AlignEnds DEF Quits, Ranks
<1>3. CASE ~Quits(l, 1)
  <2>1. /\ cursor' = [cursor EXCEPT ![l][1] = @ + 1]
        /\ wire' = [wire EXCEPT ![l] = Tail(@)]
        /\ UNCHANGED <<pc, id, todo, pilot, phase, met, gift, roll, stop>>
    BY <1>3 DEF Receive, Observe
  <2>2. Elsewhere(l, 1)
    BY <2>1 DEF Elsewhere, TypeInv, TypeOK, MemoryOK, NetworkOK, Ranks
  <2>3. b \in Places /\ b.at = "forward"
    BY <1>1, PlaceTypes DEF Ranks
  <2>4. /\ Place(l, 1)' = [b EXCEPT !.cursor = @ + 1] /\ pc'[l][1] = "forward"
        /\ Place(l, 1)'.at = "forward"
    <3>1. cursor'[l][1] = cursor[l][1] + 1
      BY <2>1 DEF TypeInv, TypeOK, MemoryOK, Ranks
    <3> QED BY <1>1, <2>1, <3>1 DEF Place
  <2>5. wire'[l] = Tail(wire[l])
    BY <2>1 DEF TypeInv, TypeOK, NetworkOK
  <2>6. /\ stop'[l] = stop[l] /\ id'[l] = id[l] /\ roll'[l] = roll[l] /\ gift'[l] = gift[l]
        /\ met'[l] = met[l] /\ met'[l][1] = met[l][1] + 0
    BY <2>1, NetTypes
  <2>7. Gave(Net(l)', 1, Place(l, 1)')
    BY <2>4 DEF Gave
  <2>8. ASSUME NEW c \in Places, InStep(met[l][0] - met[l][1], wire[l], stop[l], c, Place(l, 1))
        PROVE  InStep((met[l][0] - met[l][1]) - 0, wire'[l], stop'[l], c, Place(l, 1)')
    <3> DEFINE d == met[l][0] - met[l][1]
    <3>1. d \in Int /\ d - 0 = d
      BY NetTypes
    <3>2. InStep(d, wire[l], stop[l], c, b)
      BY <2>8
    <3> HIDE DEF b, d
    <3>3. InStep(d, Tail(wire[l]), stop[l], c, [b EXCEPT !.cursor = @ + 1])
      BY <1>1, <2>3, <3>1, <3>2, ReceiveOne, NetTypes
    <3> QED BY <2>4, <2>5, <2>6, <3>1, <3>3 DEF d
  <2> QED BY <1>1, <2>2, <2>4, <2>6, <2>7, <2>8, OneLoops DEF Looping, Ranks
<1> QED BY <1>2, <1>3

------------------------------------------------------------------------------
\* The steps of the handshake, and the list that ends it.

LEMMA NetFields ==
  ASSUME NEW l \in Launches
  PROVE  /\ Net(l).met = met[l] /\ Net(l).wire = wire[l] /\ Net(l).gift = gift[l]
         /\ Net(l).roll = roll[l] /\ Net(l).stop = stop[l] /\ Net(l).id = id[l]
BY DEF Net

\* Before the phase loop a rank and its peer stand in the handshake, or rank 1
\* stands there alone.
LEMMA InHandshake ==
  ASSUME NEW n, NEW a \in Places, NEW b \in Places, Paired(n, a, b)
  PROVE  /\ a.at \notin Looping => Handshake(n, a, b)
         /\ b.at \notin Looping => Handshake(n, a, b) \/ Unheard(n, a, b)
<1>1. Handshake(n, a, b) \/ Unheard(n, a, b) \/ Planned(n, a, b)
  BY DEF Paired
<1>2. \A d, w, s, c, e : InStep(d, w, s, c, e) => c.at \in Looping /\ e.at \in Looping
  BY DEF InStep, Together, RankZeroAhead, RankOneAhead, Looping
<1>3. Unheard(n, a, b) => a.at \in Looping
  BY <1>2 DEF Unheard
<1>4. Planned(n, a, b) => a.at \in Looping /\ b.at \in Looping
  BY <1>2 DEF Planned
<1> QED BY <1>1, <1>3, <1>4

LEMMA AlignOffer ==
  ASSUME TypeInv, TypeInv', AlignInv, NEW l \in Launches, NEW r \in Ranks, OfferIdentity(l, r)
  PROVE  AlignInv'
<1>1. /\ pc[l][r] = "init" /\ Goto(l, r, "peers") /\ Enter(l, r)
      /\ UNCHANGED <<id, todo, pilot, phase, cursor, wire, roll, gift, stop>>
  BY DEF OfferIdentity, memory
<1>2. /\ Elsewhere(l, r) /\ Place(l, r)' = [Place(l, r) EXCEPT !.at = "peers"]
      /\ pc'[l][r] = "peers"
      /\ \A q \in Ranks : q # r => met'[l][q] = met[l][q]
      /\ met'[l][r] = met[l][r] + 1
  BY <1>1, GotoMoves
<1>3. Place(l, r) \in Places /\ Place(l, r).at = "init"
  BY <1>1, PlaceTypes
<1>4. /\ Place(l, r)'.at = "peers" /\ Place(l, r)'.phase = Place(l, r).phase
      /\ Place(l, r)'.cursor = Place(l, r).cursor
  BY <1>2, <1>3 DEF Places
<1>5. /\ Net(l)'.met = met'[l] /\ Net(l)'.wire = wire[l] /\ Net(l)'.id = id[l] /\ Net(l)'.gift = gift[l]
  BY <1>1 DEF Net
<1>6. CASE r = 0
  <2> SUFFICES ASSUME NEW b \in Places, Paired(Net(l), Place(l, 0), b)
               PROVE  Paired(Net(l)', Place(l, 0)', b)
    BY <1>1, <1>2, <1>6, ZeroMoves
  <2>1. Handshake(Net(l), Place(l, 0), b)
    BY <1>3, <1>6, InHandshake DEF Looping
  <2>2. Handshake(Net(l)', Place(l, 0)', b)
    <3>1. /\ met[l][0] = 0 /\ met'[l][0] = 1 /\ met'[l][1] = met[l][1]
          /\ met[l][1] = (IF b.at = "init" THEN 0 ELSE 1)
      BY <1>2, <1>3, <1>6, <2>1, NetFields DEF Handshake, Ranks
    <3> QED BY <1>3, <1>4, <1>5, <1>6, <2>1, <3>1, NetFields DEF Handshake, Agreed
  <2>3. Gave(Net(l)', 0, Place(l, 0)') /\ Gave(Net(l)', 1, b)
    BY <1>4, <1>5, <1>6, NetFields DEF Paired, Gave
  <2> QED BY <2>2, <2>3 DEF Paired
<1>7. CASE r = 1
  <2> SUFFICES ASSUME NEW a \in Places, Paired(Net(l), a, Place(l, 1))
               PROVE  Paired(Net(l)', a, Place(l, 1)')
    BY <1>1, <1>2, <1>7, OneMoves
  <2>1. Handshake(Net(l), a, Place(l, 1))
    BY <1>3, <1>7, InHandshake DEF Looping, Unheard
  <2>2. Handshake(Net(l)', a, Place(l, 1)')
    <3>1. /\ met[l][1] = 0 /\ met'[l][1] = 1 /\ met'[l][0] = met[l][0]
          /\ met[l][0] = (IF a.at = "init" THEN 0 ELSE 1)
      BY <1>2, <1>3, <1>7, <2>1, NetFields DEF Handshake, Ranks
    <3> QED BY <1>3, <1>4, <1>5, <1>7, <2>1, <3>1, NetFields DEF Handshake, Agreed
  <2>3. Gave(Net(l)', 0, a) /\ Gave(Net(l)', 1, Place(l, 1)')
    BY <1>4, <1>5, <1>7, NetFields DEF Paired, Gave
  <2> QED BY <2>2, <2>3 DEF Paired
<1> QED BY <1>6, <1>7 DEF Ranks

LEMMA AlignPeers ==
  ASSUME TypeInv, TypeInv', AlignInv, NEW l \in Launches, NEW r \in Ranks, CheckPeers(l, r)
  PROVE  AlignInv'
<1>1. pc[l][r] = "peers" /\ met[l][Peer(r)] >= met[l][r]
  BY DEF CheckPeers, BothEntered
<1>2. CASE Quits(l, r)
  BY <1>1, <1>2, AlignEnds DEF Quits
<1>3. CASE ~Quits(l, r)
  <2> DEFINE label == IF r = 0 THEN "lock" ELSE "roll"
  <2>1. /\ id[l][0] = id[l][1] /\ Goto(l, r, label)
        /\ UNCHANGED <<id, todo, pilot, phase, cursor, met, wire, roll, stop, gift>>
    BY <1>3 DEF CheckPeers, PeersAgree, memory, network
  <2>2. /\ Elsewhere(l, r) /\ Place(l, r)' = [Place(l, r) EXCEPT !.at = label]
        /\ pc'[l][r] = label /\ label # "off"
    BY <2>1, GotoMoves
  <2>3. Place(l, r) \in Places /\ Place(l, r).at = "peers"
    BY <1>1, PlaceTypes
  <2>4. /\ Place(l, r)'.at = label /\ Place(l, r)'.phase = Place(l, r).phase
        /\ Place(l, r)'.cursor = Place(l, r).cursor
    BY <2>2, <2>3 DEF Places
  <2>5. Net(l)' = Net(l) /\ Agreed(Net(l))
    BY <2>1, NetFields DEF Net, Agreed
  <2>6. CASE r = 0
    <3> SUFFICES ASSUME NEW b \in Places, Paired(Net(l), Place(l, 0), b)
                 PROVE  Paired(Net(l), Place(l, 0)', b)
      BY <1>1, <2>2, <2>5, <2>6, ZeroMoves
    <3>1. Handshake(Net(l), Place(l, 0), b)
      BY <2>3, <2>6, InHandshake DEF Looping
    <3>2. met[l][0] = 1 /\ met[l][1] = 1
      BY <1>1, <2>3, <2>6, <3>1, NetFields DEF Handshake, Peer
    <3>3. Handshake(Net(l), Place(l, 0)', b)
      BY <2>3, <2>4, <2>5, <2>6, <3>1, <3>2, NetFields DEF Handshake
    <3>4. Gave(Net(l), 0, Place(l, 0)')
      BY <2>4, <2>6 DEF Gave
    <3> QED BY <3>3, <3>4 DEF Paired
  <2>7. CASE r = 1
    <3> SUFFICES ASSUME NEW a \in Places, Paired(Net(l), a, Place(l, 1))
                 PROVE  Paired(Net(l), a, Place(l, 1)')
      BY <1>1, <2>2, <2>5, <2>7, OneMoves
    <3>1. Gave(Net(l), 1, Place(l, 1)')
      BY <2>4, <2>7 DEF Gave
    <3>2. CASE Handshake(Net(l), a, Place(l, 1))
      <4>1. met[l][0] = 1 /\ met[l][1] = 1
        BY <1>1, <2>3, <2>7, <3>2, NetFields DEF Handshake, Peer
      <4>2. Handshake(Net(l), a, Place(l, 1)')
        BY <2>3, <2>4, <2>5, <2>7, <3>2, <4>1, NetFields DEF Handshake
      <4> QED BY <3>1, <4>2 DEF Paired
    <3>3. CASE Unheard(Net(l), a, Place(l, 1))
      <4>1. Unheard(Net(l), a, Place(l, 1)')
        BY <2>4, <2>7, <3>3 DEF Unheard
      <4> QED BY <3>1, <4>1 DEF Paired
    <3> QED BY <2>3, <2>7, <3>2, <3>3, InHandshake DEF Looping
  <2> QED BY <2>6, <2>7 DEF Ranks
<1> QED BY <1>2, <1>3

LEMMA AlignLock ==
  ASSUME TypeInv, TypeInv', AlignInv, NEW l \in Launches, TakeLock(l)
  PROVE  AlignInv'
<1>1. pc[l][0] = "lock"
  BY DEF TakeLock
<1>2. CASE Quits(l, 0)
  BY <1>1, <1>2, AlignEnds DEF Quits, Ranks
<1>3. CASE ~Quits(l, 0)
  <2>1. /\ Goto(l, 0, "scan")
        /\ UNCHANGED <<id, todo, pilot, phase, cursor, met, wire, roll, stop, gift>>
    BY <1>3 DEF TakeLock, memory, network
  <2>2. /\ Elsewhere(l, 0) /\ Place(l, 0)' = [Place(l, 0) EXCEPT !.at = "scan"]
        /\ pc'[l][0] = "scan"
    BY <2>1, GotoMoves DEF Ranks
  <2>3. Place(l, 0) \in Places /\ Place(l, 0).at = "lock"
    BY <1>1, PlaceTypes DEF Ranks
  <2>4. Place(l, 0)'.at = "scan" /\ Place(l, 0)'.phase = Place(l, 0).phase
    BY <2>2, <2>3 DEF Places
  <2>5. Net(l)' = Net(l)
    BY <2>1 DEF Net
  <2> SUFFICES ASSUME NEW b \in Places, Paired(Net(l), Place(l, 0), b)
               PROVE  Paired(Net(l), Place(l, 0)', b)
    BY <1>1, <2>2, <2>5, ZeroMoves
  <2>6. Handshake(Net(l), Place(l, 0), b)
    BY <2>3, InHandshake DEF Looping
  <2>7. Handshake(Net(l), Place(l, 0)', b) /\ Gave(Net(l), 0, Place(l, 0)')
    BY <2>3, <2>4, <2>6 DEF Handshake, Gave
  <2> QED BY <2>7 DEF Paired
<1> QED BY <1>2, <1>3

LEMMA AlignScan ==
  ASSUME TypeInv, TypeInv', AlignInv, NEW l \in Launches, ScanShard(l)
  PROVE  AlignInv'
<1>1. pc[l][0] = "scan"
  BY DEF ScanShard
<1>2. CASE Quits(l, 0)
  BY <1>1, <1>2, AlignEnds DEF Quits, Ranks
<1>3. CASE ~Quits(l, 0)
  <2>1. /\ cursor' = [cursor EXCEPT ![l][0] = cursor[l][0] + 1]
        /\ UNCHANGED <<pc, id, todo, pilot, phase, met, wire, roll, stop, gift>>
    BY <1>3 DEF ScanShard, network
  <2>2. Elsewhere(l, 0) /\ pc'[l][0] = "scan"
    BY <1>1, <2>1 DEF Elsewhere, TypeInv, TypeOK, MemoryOK, Ranks
  <2>3. /\ Place(l, 0) \in Places /\ Place(l, 0).at = "scan"
        /\ Place(l, 0)'.at = "scan" /\ Place(l, 0)'.phase = Place(l, 0).phase
    BY <1>1, <2>1, PlaceTypes DEF Place, Ranks
  <2>4. Net(l)' = Net(l)
    BY <2>1 DEF Net
  <2> SUFFICES ASSUME NEW b \in Places, Paired(Net(l), Place(l, 0), b)
               PROVE  Paired(Net(l), Place(l, 0)', b)
    BY <1>1, <2>2, <2>4, ZeroMoves
  <2>5. Handshake(Net(l), Place(l, 0), b)
    BY <2>3, InHandshake DEF Looping
  <2>6. Handshake(Net(l), Place(l, 0)', b) /\ Gave(Net(l), 0, Place(l, 0)')
    BY <2>3, <2>5 DEF Handshake, Gave
  <2> QED BY <2>6 DEF Paired
<1> QED BY <1>2, <1>3

\* What both steps that plan the phases do.
LEMMA PlanMoves ==
  ASSUME TypeInv, NEW l \in Launches, NEW r \in Ranks, NEW list, Plan(l, r, list), Enter(l, r),
         UNCHANGED <<wire, gift, stop>>, \A k \in Launches : k # l => roll'[k] = roll[k]
  PROVE  /\ Elsewhere(l, r) /\ pc'[l][r] = "loop"
         /\ Place(l, r)' = [at |-> "loop", todo |-> PlannedTodo(id[l][r].mode, list),
                            pilot |-> PlannedPilot(id[l][r].mode, list),
                            phase |-> phase[l][r], cursor |-> cursor[l][r]]
         /\ \A q \in Ranks : q # r => met'[l][q] = met[l][q]
         /\ met'[l][r] = met[l][r] + 1
         /\ id'[l] = id[l]
<1>1. /\ todo' = [todo EXCEPT ![l][r] = PlannedTodo(id[l][r].mode, list)]
      /\ pilot' = [pilot EXCEPT ![l][r] = PlannedPilot(id[l][r].mode, list)]
      /\ pc' = [pc EXCEPT ![l][r] = "loop"] /\ met' = [met EXCEPT ![l][r] = @ + 1]
      /\ UNCHANGED <<id, phase, cursor>>
  BY DEF Plan, Goto, Enter
<1>2. ASSUME NEW k \in Launches, NEW q \in Ranks, k # l \/ q # r
      PROVE  /\ pc'[k][q] = pc[k][q] /\ todo'[k][q] = todo[k][q]
             /\ pilot'[k][q] = pilot[k][q] /\ met'[k][q] = met[k][q]
  <2>1. pc'[k][q] = pc[k][q] /\ todo'[k][q] = todo[k][q]
    BY <1>1, <1>2 DEF TypeInv, TypeOK, MemoryOK
  <2>2. pilot'[k][q] = pilot[k][q]
    BY <1>1, <1>2 DEF TypeInv, TypeOK, MemoryOK
  <2>3. met'[k][q] = met[k][q]
    BY <1>1, <1>2 DEF TypeInv, TypeOK, NetworkOK
  <2> QED BY <2>1, <2>2, <2>3
<1>3. \A k \in Launches : k # l => met'[k] = met[k]
  BY <1>1 DEF TypeInv, TypeOK, NetworkOK
<1>4. Elsewhere(l, r)
  BY <1>1, <1>2, <1>3 DEF Elsewhere
<1>5. /\ pc'[l][r] = "loop" /\ todo'[l][r] = PlannedTodo(id[l][r].mode, list)
  BY <1>1 DEF TypeInv, TypeOK, MemoryOK
<1>6. pilot'[l][r] = PlannedPilot(id[l][r].mode, list)
  BY <1>1, PlannedShards DEF TypeInv, TypeOK, MemoryOK
<1>7. met'[l][r] = met[l][r] + 1
  BY <1>1 DEF TypeInv, TypeOK, NetworkOK
<1> QED BY <1>1, <1>2, <1>4, <1>5, <1>6, <1>7 DEF Place

LEMMA AlignShare ==
  ASSUME TypeInv, TypeInv', AlignInv, NEW l \in Launches, ShareCommitted(l)
  PROVE  AlignInv'
<1> DEFINE list == done[l][0]
           x == Place(l, 0)'
           h == Heard(Net(l)')
<1>1. /\ pc[l][0] = "scan" /\ Plan(l, 0, list) /\ Enter(l, 0)
      /\ UNCHANGED <<wire, gift, stop>>
      /\ roll' = [roll EXCEPT ![l] = list]
  BY DEF ShareCommitted
<1>2. roll'[l] = list /\ \A k \in Launches : k # l => roll'[k] = roll[k]
  BY <1>1 DEF TypeInv, TypeOK, NetworkOK
<1>3. /\ Elsewhere(l, 0) /\ pc'[l][0] = "loop"
      /\ x = [at |-> "loop", todo |-> PlannedTodo(id[l][0].mode, list),
              pilot |-> PlannedPilot(id[l][0].mode, list),
              phase |-> phase[l][0], cursor |-> cursor[l][0]]
      /\ met'[l][1] = met[l][1] /\ met'[l][0] = met[l][0] + 1 /\ id'[l] = id[l]
  BY <1>1, <1>2, PlanMoves DEF Ranks
<1>4. Place(l, 0) \in Places /\ Place(l, 0).at = "scan" /\ Place(l, 0).phase = phase[l][0]
  BY <1>1, PlaceTypes DEF Ranks
<1>5. SUFFICES ASSUME NEW b \in Places, Paired(Net(l), Place(l, 0), b)
               PROVE  Paired(Net(l)', x, b)
  BY <1>1, <1>3, ZeroMoves
<1>6. Handshake(Net(l), Place(l, 0), b)
  BY <1>4, <1>5, InHandshake DEF Looping
<1>7. /\ Net(l)'.met = met'[l] /\ Net(l)'.wire = wire[l] /\ Net(l)'.gift = gift[l]
      /\ Net(l)'.roll = list /\ Net(l)'.stop = stop[l] /\ Net(l)'.id = id[l]
  BY <1>1, <1>2, <1>3 DEF Net
<1>8. /\ met'[l][0] = 2 /\ met'[l][1] = 1 /\ id[l][0] = id[l][1]
      /\ b.at \in {"peers", "roll"} /\ b.phase = IdlePhase /\ b.cursor = 0
      /\ phase[l][0] = IdlePhase /\ wire[l] = <<>>
  BY <1>3, <1>4, <1>6, NetFields DEF Handshake, Agreed
<1>9. /\ x.at = "loop" /\ h.at = "loop" /\ x.phase = h.phase /\ x.todo = h.todo
      /\ x.pilot = h.pilot
  BY <1>3, <1>7, <1>8 DEF Heard
<1>10. h \in Places /\ x \in Places
  BY HeardTypes, PlaceTypesNext DEF Ranks
<1> HIDE DEF h, x
<1>11. Together(0, wire[l], stop[l], x, h)
  BY <1>8, <1>9, <1>10, Tallies DEF Together, Looping
<1>12. Unheard(Net(l)', x, b)
  <2>1. met'[l][0] - 2 = 0
    BY <1>8
  <2> QED BY <1>7, <1>8, <1>11, <2>1 DEF Unheard, InStep, Agreed, h
<1>13. Gave(Net(l)', 0, x) /\ Gave(Net(l)', 1, b)
  BY <1>8, <1>9 DEF Gave
<1> QED BY <1>12, <1>13 DEF Paired

LEMMA AlignHeard ==
  ASSUME TypeInv, TypeInv', AlignInv, NEW l \in Launches, HearCommitted(l)
  PROVE  AlignInv'
<1> DEFINE y == Place(l, 1)'
<1>1. /\ pc[l][1] = "roll" /\ met[l][0] > met[l][1] /\ Plan(l, 1, roll[l]) /\ Enter(l, 1)
      /\ UNCHANGED <<wire, gift, roll, stop>>
  BY DEF HearCommitted, Broadcast
<1>2. /\ Elsewhere(l, 1) /\ pc'[l][1] = "loop"
      /\ y = [at |-> "loop", todo |-> PlannedTodo(id[l][1].mode, roll[l]),
              pilot |-> PlannedPilot(id[l][1].mode, roll[l]),
              phase |-> phase[l][1], cursor |-> cursor[l][1]]
      /\ met'[l][0] = met[l][0] /\ met'[l][1] = met[l][1] + 1 /\ id'[l] = id[l]
  BY <1>1, PlanMoves DEF Ranks
<1>3. /\ Place(l, 1) \in Places /\ Place(l, 1).at = "roll" /\ Place(l, 1).phase = phase[l][1]
      /\ Place(l, 1).cursor = cursor[l][1]
  BY <1>1, PlaceTypes DEF Ranks
<1>4. SUFFICES ASSUME NEW a \in Places, Paired(Net(l), a, Place(l, 1))
               PROVE  Paired(Net(l)', a, y)
  BY <1>1, <1>2, OneMoves
<1>5. ~Handshake(Net(l), a, Place(l, 1))
  BY <1>1, <1>3, NetFields DEF Handshake
<1>6. Unheard(Net(l), a, Place(l, 1))
  BY <1>3, <1>4, <1>5, InHandshake DEF Looping
<1>7. /\ Net(l)'.met = met'[l] /\ Net(l)'.wire = wire[l] /\ Net(l)'.gift = gift[l]
      /\ Net(l)'.roll = roll[l] /\ Net(l)'.stop = stop[l] /\ Net(l)'.id = id[l]
  BY <1>1, <1>2 DEF Net
<1>8. /\ met'[l][1] = 2 /\ phase[l][1] = IdlePhase /\ cursor[l][1] = 0
  BY <1>2, <1>3, <1>6, NetFields DEF Unheard
<1>9. y = Heard(Net(l))
  BY <1>2, <1>8, NetFields DEF Heard
<1>10. InStep(met'[l][0] - met'[l][1], wire[l], stop[l], a, y)
  BY <1>2, <1>6, <1>8, <1>9, NetFields DEF Unheard
<1>11. Planned(Net(l)', a, y)
  BY <1>6, <1>7, <1>10, NetFields DEF Planned, Unheard, Agreed
<1>12. Gave(Net(l)', 0, a) /\ Gave(Net(l)', 1, y)
  BY <1>2, <1>4, <1>7, NetFields DEF Paired, Gave
<1> QED BY <1>11, <1>12 DEF Paired

LEMMA AlignStart ==
  ASSUME TypeInv, TypeInv', AlignInv, NEW l \in Launches, NEW ids, Start(l, ids)
  PROVE  AlignInv'
<1>1. /\ \A r \in Ranks : pc[l][r] = "off"
      /\ pc' = [pc EXCEPT ![l] = [r \in Ranks |-> "init"]]
      /\ id' = [id EXCEPT ![l] = ids]
      /\ UNCHANGED <<todo, pilot, phase, cursor, met, wire, gift, roll, stop>>
  BY DEF Start, network
<1>2. /\ met[l] = [r \in Ranks |-> 0] /\ wire[l] = <<>>
      /\ \A r \in Ranks : phase[l][r] = IdlePhase /\ cursor[l][r] = 0
  BY <1>1 DEF AlignInv, Aligned, Alive
<1>3. \A r \in Ranks : pc'[l][r] = "init"
  BY <1>1 DEF TypeInv, TypeOK, MemoryOK
<1>4. /\ Place(l, 0)' \in Places /\ Place(l, 1)' \in Places
      /\ Place(l, 0)'.at = "init" /\ Place(l, 0)'.phase = IdlePhase
      /\ Place(l, 1)'.at = "init" /\ Place(l, 1)'.phase = IdlePhase /\ Place(l, 1)'.cursor = 0
  BY <1>1, <1>2, <1>3, PlaceTypesNext DEF Place, Ranks
<1>5. Net(l)'.met[0] = 0 /\ Net(l)'.met[1] = 0 /\ Net(l)'.wire = <<>>
  BY <1>1, <1>2 DEF Net, Ranks
<1>6. Paired(Net(l)', Place(l, 0)', Place(l, 1)')
  BY <1>4, <1>5 DEF Paired, Handshake, Gave
<1>7. Aligned(l)'
  BY <1>3, <1>4, <1>6 DEF Aligned, Alive, Ranks
<1>8. ASSUME NEW k \in Launches, k # l PROVE Aligned(k)'
  <2>1. pc'[k] = pc[k] /\ id'[k] = id[k]
    BY <1>1, <1>8 DEF TypeInv, TypeOK, MemoryOK
  <2> QED BY <1>1, <2>1, AlignedSame DEF AlignInv
<1> QED BY <1>7, <1>8 DEF AlignInv

LEMMA AlignInit == Init => AlignInv
BY DEF Init, AlignInv, Aligned, Alive, Ranks

LEMMA AlignStep == TypeInv /\ TypeInv' /\ AlignInv /\ [Next]_vars => AlignInv'
<1> SUFFICES ASSUME TypeInv, TypeInv', AlignInv, [Next]_vars PROVE AlignInv'
  OBVIOUS
<1>1. ASSUME NEW l \in Launches, NEW ids \in [Ranks -> Identities], Start(l, ids)
      PROVE  AlignInv'
  BY <1>1, AlignStart
<1>2. ASSUME NEW l \in Launches, NEW r \in Ranks, RankStep(l, r)
      PROVE  AlignInv'
  <2>1. CASE Conclude(l, r)
    BY <2>1, AlignEnds DEF Conclude
  <2> QED
    BY <1>2, <2>1, AlignOffer, AlignPeers, AlignLock, AlignScan, AlignShare, AlignHeard, AlignBegin,
       AlignForward, AlignReceive, AlignExport, AlignMerge, AlignPass, AlignPoll, AlignHear
       DEF RankStep
<1>3. ASSUME NEW l \in Launches, NEW r \in Ranks, TimeOut(l, r) \/ Crash(l, r)
      PROVE  AlignInv'
  <2>1. pc[l][r] # "off" /\ Ends(l, r)
    BY <1>3 DEF TimeOut, Crash, Quits, Blocked
  <2> QED BY <2>1, AlignEnds
<1>4. CASE UNCHANGED vars
  <2>1. ASSUME NEW k \in Launches PROVE Aligned(k)'
    BY <1>4, AlignedSame DEF AlignInv, vars, memory, network
  <2> QED BY <2>1 DEF AlignInv
<1> QED BY <1>1, <1>2, <1>3, <1>4 DEF Next

------------------------------------------------------------------------------
\* What being in step means for the ranks.

LEMMA NobodyWaitsForTheOther ==
  ASSUME TypeInv, AlignInv, NEW l \in Launches
  PROVE  ~(Blocked(l, 0) /\ Blocked(l, 1))
<1> SUFFICES ASSUME Blocked(l, 0), Blocked(l, 1) PROVE FALSE
  OBVIOUS
<1> DEFINE a == Place(l, 0)
           b == Place(l, 1)
           d == met[l][0] - met[l][1]
<1>1. /\ pc[l][0] \in {"peers", "gather", "barrier"} /\ met[l][0] > met[l][1]
      /\ met[l][0] \in Nat /\ met[l][1] \in Nat
  BY NetTypes DEF Blocked, BothEntered, Peer
<1>2. /\ pc[l][1] = "forward" /\ MoreRecords(l, 1) /\ wire[l] = <<>>
  BY <1>1 DEF Blocked, BothEntered, Broadcast, Peer
<1>3. /\ a \in Places /\ b \in Places /\ a.at = pc[l][0] /\ b.at = "forward"
      /\ b.cursor < Bound(b.phase)
  BY <1>2, PlaceTypes DEF MoreRecords, Ranks
<1>4. Paired(Net(l), a, b)
  BY <1>1, <1>2 DEF AlignInv, Aligned, Alive, Ranks
<1> HIDE DEF a, b
<1>5. InStep(d, wire[l], stop[l], a, b)
  BY <1>3, <1>4, NetFields DEF Paired, Handshake, Unheard, Planned
<1>6. d \in Int /\ d > 0
  BY <1>1
<1>7. Together(d, wire[l], stop[l], a, b)
  BY <1>3, <1>5, <1>6 DEF InStep, RankZeroAhead, RankOneAhead
<1>8. a.at = "gather" /\ a.phase = b.phase
  BY <1>1, <1>3, <1>7 DEF Together, Looping
<1>9. a.cursor = Bound(b.phase) /\ a.cursor = b.cursor
  <2>1. /\ a.cursor = Bound(b.phase) /\ Carries(wire[l], b.cursor, a.cursor)
    BY <1>3, <1>7, <1>8 DEF Together, Sending
  <2>2. a.cursor \in Nat /\ b.cursor \in Nat /\ wire[l] \in Seq(Records)
    BY <1>3, NetTypes DEF Places
  <2> QED BY <1>2, <2>1, <2>2, CarriesNothing
<1> QED BY <1>3, <1>9, PhaseRange DEF Places

\* The record on the wire is the one that rank 1 forwards next.
LEMMA WireIsExpected ==
  ASSUME TypeInv, AlignInv, NEW l \in Launches, pc[l][1] = "forward", wire[l] # <<>>
  PROVE  MoreRecords(l, 1) /\ Head(wire[l]) = cursor[l][1]
<1> DEFINE b == Place(l, 1)
<1>1. b \in Places /\ b.at = "forward" /\ b.cursor = cursor[l][1] /\ b.phase = phase[l][1]
  BY PlaceTypes DEF Ranks
<1>2. PICK a \in Places : Paired(Net(l), a, b)
  BY DEF AlignInv, Aligned, Alive, Ranks
<1> DEFINE d == met[l][0] - met[l][1]
<1>3. InStep(d, wire[l], stop[l], a, b)
  BY <1>1, <1>2, NetFields DEF Paired, Handshake, Unheard, Planned
<1>4. d \in Int /\ wire[l] \in Seq(Records) /\ stop[l] \in BOOLEAN
  BY NetTypes
<1> HIDE DEF b, d
<1>5. b.cursor < Bound(b.phase) /\ Head(wire[l]) = b.cursor
  BY <1>1, <1>2, <1>3, <1>4, ReceiveExpected
<1> QED BY <1>1, <1>5 DEF MoreRecords

\* A rank that leaves the gather reads two payloads of its own phase and runtime.
LEMMA GatheredTogether ==
  ASSUME TypeInv, AlignInv, NEW l \in Launches, NEW r \in Ranks,
         pc[l][r] = "gather", BothEntered(l, r)
  PROVE  \A q \in Ranks :
           gift[l][q] # None /\ gift[l][q].phase = phase[l][r] /\ gift[l][q].rt = id[l][r].rt
<1>1. PICK a \in Places, b \in Places :
        /\ pc[l][0] # "off" => a = Place(l, 0)
        /\ pc[l][1] # "off" => b = Place(l, 1)
        /\ Paired(Net(l), a, b)
  BY DEF AlignInv, Aligned, Alive
<1> DEFINE d == met[l][0] - met[l][1]
<1>2. d \in Int /\ wire[l] \in Seq(Records) /\ stop[l] \in BOOLEAN
  BY NetTypes
<1>3. Gave(Net(l), 0, a) /\ Gave(Net(l), 1, b)
  BY <1>1 DEF Paired
<1>4. CASE r = 0
  <2>1. a.at = "gather" /\ a.phase = phase[l][0]
    BY <1>1, <1>4, PlaceTypes
  <2>2. met[l][1] >= met[l][0]
    BY <1>4 DEF BothEntered, Peer
  <2>3. ~Handshake(Net(l), a, b)
    BY <2>1 DEF Handshake
  <2>4. ~Unheard(Net(l), a, b)
    <3> SUFFICES ASSUME Unheard(Net(l), a, b) PROVE FALSE
      OBVIOUS
    <3>1. met[l][1] = 1 /\ InStep(met[l][0] - 2, wire[l], stop[l], a, Heard(Net(l)))
      BY NetFields DEF Unheard
    <3>2. met[l][0] - 2 \in Int /\ met[l][0] - 2 <= 0
      BY <2>2, <3>1, NetTypes
    <3>3. Heard(Net(l)).at \in {"gather", "barrier"}
      BY <2>1, <3>1, <3>2, MergeZero, HeardTypes, NetTypes
    <3> QED BY <3>3, HeardTypes
  <2>5. InStep(d, wire[l], stop[l], a, b) /\ Agreed(Net(l)) /\ d <= 0
    BY <1>1, <2>2, <2>3, <2>4, NetFields, NetTypes DEF Paired, Planned
  <2>6. Together(d, wire[l], stop[l], a, b) /\ b.at \in {"gather", "barrier"}
    <3> HIDE DEF d
    <3> QED BY <1>1, <1>2, <2>1, <2>5, MergeZero
  <2> QED BY <1>3, <1>4, <2>1, <2>5, <2>6, NetFields DEF Gave, Together, Agreed, Ranks
<1>5. CASE r = 1
  <2>1. b.at = "gather" /\ b.phase = phase[l][1]
    BY <1>1, <1>5, PlaceTypes
  <2>2. d >= 0
    BY <1>5, NetTypes DEF BothEntered, Peer
  <2>3. InStep(d, wire[l], stop[l], a, b) /\ Agreed(Net(l))
    BY <1>1, <2>1, NetFields DEF Paired, Handshake, Unheard, Planned
  <2>4. Together(d, wire[l], stop[l], a, b) /\ a.at \in {"gather", "barrier"}
    <3> HIDE DEF d
    <3> QED BY <1>1, <1>2, <2>1, <2>2, <2>3, MergeOne
  <2> QED BY <1>3, <1>5, <2>1, <2>3, <2>4, NetFields DEF Gave, Together, Agreed, Ranks
<1> QED BY <1>4, <1>5 DEF Ranks

LEMMA NothingIsRefused ==
  ASSUME TypeInv, ExactInv, AlignInv
  PROVE  NoSelfRefusal
<1>1. ASSUME NEW l \in Launches, NEW r \in Ranks, pc[l][r] = "gather", BothEntered(l, r)
      PROVE  Mergeable(l, r)
  <2>1. \A q \in Ranks :
          gift[l][q] # None /\ gift[l][q].phase = phase[l][r] /\ gift[l][q].rt = id[l][r].rt
    BY <1>1, GatheredTogether
  <2>2. \A q \in Ranks : Observations(l)[q] = Exactly(phase[l][r])
    BY <2>1 DEF Observations, ExactInv, ExactGifts
  <2>3. Counted(phase[l][r], Observations(l))
    BY <2>2 DEF Counted
  <2> QED BY <2>1, <2>3 DEF Mergeable, SameRange
<1>2. ASSUME NEW l \in Launches, NEW s \in Committed, ~ValidReceipt(s, receipts[s], id[l][0].rt)
      PROVE  receipts[s].rt # id[l][0].rt
  <2>1. Counted([shard |-> s, smoke |-> FALSE], receipts[s].obs)
    BY DEF Counted, ExactInv, ExactReceipts, Exact, Committed
  <2> QED BY <1>2, <2>1 DEF ValidReceipt
<1> QED BY <1>1, <1>2, WireIsExpected DEF NoSelfRefusal

LEMMA StaysInStep == Spec => [](TypeInv /\ AlignInv)
<1>1. Spec => []TypeInv
  BY TypeInit, TypeStep, PTL DEF Spec
<1>2. Spec => []AlignInv
  BY <1>1, AlignInit, AlignStep, PTL DEF Spec
<1> QED BY <1>1, <1>2, PTL

\* The two ranks of a launch never wait for each other, whatever the modes, the
\* pauses and the number of records, and in either driver.
THEOREM RanksNeverDeadlock == Spec => []NoMutualWait
<1>1. TypeInv /\ AlignInv => NoMutualWait
  BY NobodyWaitsForTheOther DEF NoMutualWait
<1> QED BY <1>1, StaysInStep, PTL

\* Past the handshake no check on what the ranks sent, gathered or committed
\* refuses what the pipeline itself produced, even when the producer has died.
THEOREM RanksNeverRefuse == Spec => []NoSelfRefusal
<1>1. Spec => []TypeInv
  BY TypeInit, TypeStep, PTL DEF Spec
<1>2. Spec => []ExactInv
  BY <1>1, ExactInit, ExactStep, PTL DEF Spec
<1> QED BY <1>2, StaysInStep, NothingIsRefused, PTL
==============================================================================
