--------------------------- MODULE RecordLedgerProofs ---------------------------
(***************************************************************************)
(* The output root as a whole.  For the driver that skips committed shards:*)
(* one writer at a time, receipts committed once, in manifest order, under *)
(* one runtime, and an honest status file: RecordCapture implements        *)
(* ShardLedger.  For the completion driver, which captures every shard of  *)
(* the tail again: a replay rewrites what is there, and RecordCapture      *)
(* implements TailLedger.  All of it rests on what the rank-0 process that *)
(* holds the lock knows, because nobody else can write there: between the  *)
(* scan and the end its phase list is what is missing on disk, or the rest *)
(* of the tail.                                                            *)
(***************************************************************************)
EXTENDS RecordCaptureProofs

Holding == {"scan", "loop", "forward", "gather", "barrier", "poll", "paused"}
Working == Holding \ {"scan"}

\* The holder of the lock is the launch whose rank 0 is past the flock.
LockInv == \A l \in Launches : lock = l <=> pc[l][0] \in Holding

Missing == ShardIds \ Committed

\* The list is 0, 1, 2, ... without a gap, and its entries are the set S.
Counts(list, S) ==
  /\ \A i \in 1 .. Len(list) : list[i] = i - 1
  /\ Listed(list) = S

InPhase(l, labels) == pc[l][0] \in labels /\ ~phase[l][0].smoke

\* Shards the holder will still publish, and the shard it published but did not list.
Upcoming(l) ==
  todo[l][0] \cup (IF InPhase(l, {"forward", "gather"}) THEN {phase[l][0].shard} ELSE {})
Unlisted(l) == IF InPhase(l, {"barrier"}) THEN {phase[l][0].shard} ELSE {}

FreshInv(l) ==
  pc[l][0] \in {"off", "init", "peers", "lock"} => done[l][0] = <<>> /\ cursor[l][0] = 0

ScanInv(l) ==
  pc[l][0] = "scan" =>
    /\ cursor[l][0] <= NumShards
    /\ Counts(done[l][0], {s \in Committed : s < cursor[l][0]})
    /\ \A s \in Committed : s < cursor[l][0] => receipts[s].rt = id[l][0].rt

\* A standalone pilot publishes no shard and does not get past its barrier.
SmokeInv(l) ==
  /\ todo[l][0] = {}
  /\ pc[l][0] \in {"loop", "forward", "gather", "barrier"}
  /\ pc[l][0] = "loop" => pilot[l][0]
  /\ pc[l][0] # "loop" => phase[l][0].smoke

WorkInv(l) ==
  pc[l][0] \in Working =>
    /\ \A s \in Committed : receipts[s].rt = id[l][0].rt
    /\ Counts(done[l][0], Committed \ Unlisted(l))
    /\ Unlisted(l) \subseteq Committed
    /\ IF id[l][0].mode = "smoke" THEN SmokeInv(l) ELSE Upcoming(l) = Missing
    /\ InPhase(l, {"forward", "gather"}) => \A t \in todo[l][0] : phase[l][0].shard < t
    /\ InPhase(l, {"barrier"}) => \A t \in Committed : t <= phase[l][0].shard
    /\ pc[l][0] \in {"poll", "paused"} => done[l][0] # <<>>

HolderInv(l) == FreshInv(l) /\ ScanInv(l) /\ WorkInv(l)

LedgerInv ==
  /\ LockInv
  /\ \A l \in Launches : HolderInv(l)
  /\ CommittedPrefix
  /\ OneRuntime
  /\ StatusHonest

------------------------------------------------------------------------------
\* Facts about lists that count.

LEMMA CountsLen ==
  ASSUME NEW list \in Seq(ShardIds), NEW k \in Nat, Counts(list, 0 .. (k - 1))
  PROVE  Len(list) = k
<1>1. Len(list) \in Nat
  OBVIOUS
<1>2. CASE Len(list) < k
  <2>1. Len(list) \in Listed(list)
    BY <1>1, <1>2 DEF Counts
  <2> QED BY <1>1, <2>1 DEF Counts, Listed
<1>3. CASE Len(list) > k
  <2>1. k + 1 \in 1 .. Len(list) /\ list[k + 1] = k
    BY <1>1, <1>3 DEF Counts
  <2>2. k \in Listed(list)
    BY <2>1 DEF Listed
  <2> QED BY <2>2 DEF Counts
<1> QED BY <1>1, <1>2, <1>3

LEMMA CountsAppend ==
  ASSUME NEW list \in Seq(ShardIds), NEW S, NEW s \in ShardIds, Counts(list, S), Len(list) = s
  PROVE  Counts(Append(list, s), S \cup {s})
<1> DEFINE new == Append(list, s)
<1>1. /\ Len(new) = s + 1 /\ new[s + 1] = s /\ s \in Nat
      /\ \A i \in 1 .. s : new[i] = list[i]
  BY DEF ShardIds
<1> HIDE DEF new
<1>2. \A i \in 1 .. Len(new) : new[i] = i - 1
  <2> SUFFICES ASSUME NEW i \in 1 .. Len(new) PROVE new[i] = i - 1
    OBVIOUS
  <2>1. CASE i = s + 1
    BY <1>1, <2>1
  <2>2. CASE i # s + 1
    BY <1>1, <2>2 DEF Counts
  <2> QED BY <2>1, <2>2
<1>3. Listed(new) = S \cup {s}
  <2>1. \A x \in Listed(new) : x \in S \cup {s}
    BY <1>1 DEF Listed, Counts
  <2>2. s \in Listed(new)
    BY <1>1 DEF Listed
  <2>3. ASSUME NEW x \in S PROVE x \in Listed(new)
    <3>1. PICK i \in 1 .. Len(list) : x = list[i]
      BY DEF Listed, Counts
    <3>2. i \in 1 .. Len(new) /\ new[i] = x
      BY <1>1, <3>1
    <3> QED BY <3>2 DEF Listed
  <2> QED BY <2>1, <2>2, <2>3
<1> QED BY <1>2, <1>3 DEF Counts, new

LEMMA CountsEmpty == Counts(<<>>, {})
BY DEF Counts, Listed

\* Shards committed up to and including s, when s is committed: all of them.
LEMMA PrefixBelow ==
  ASSUME CommittedPrefix, NEW s \in Committed
  PROVE  {t \in Committed : t < s} = 0 .. (s - 1)
<1>1. NumShards \in Nat /\ s \in ShardIds /\ \A t \in Committed : t \in Nat
  BY ManifestAssumption DEF Committed, ShardIds, ValidManifest
<1>2. ASSUME NEW t \in 0 .. (s - 1) PROVE t \in Committed /\ t < s
  <2>1. t \in ShardIds /\ t < s
    BY <1>1 DEF ShardIds
  <2> QED BY <2>1 DEF CommittedPrefix
<1>3. ASSUME NEW t \in Committed, t < s PROVE t \in 0 .. (s - 1)
  BY <1>1, <1>3 DEF ShardIds
<1> QED BY <1>2, <1>3

------------------------------------------------------------------------------
\* Steps that change nothing rank 0 of a launch sees.

Same(k) ==
  /\ pc'[k][0] = pc[k][0] /\ done'[k][0] = done[k][0] /\ todo'[k][0] = todo[k][0]
  /\ pilot'[k][0] = pilot[k][0] /\ phase'[k][0] = phase[k][0] /\ cursor'[k][0] = cursor[k][0]
  /\ pc[k][0] # "off" => id'[k][0] = id[k][0]

LEMMA HolderSame ==
  ASSUME NEW k \in Launches, HolderInv(k), Same(k), UNCHANGED receipts
  PROVE  HolderInv(k)'
<1>1. Committed' = Committed /\ Missing' = Missing
  BY DEF Committed, Missing
<1>2. /\ Upcoming(k)' = Upcoming(k) /\ Unlisted(k)' = Unlisted(k)
      /\ InPhase(k, {"forward", "gather"})' = InPhase(k, {"forward", "gather"})
      /\ InPhase(k, {"barrier"})' = InPhase(k, {"barrier"})
  BY DEF Upcoming, Unlisted, InPhase, Same
<1>3. FreshInv(k)'
  BY DEF HolderInv, FreshInv, Same
<1>4. ScanInv(k)'
  BY <1>1 DEF HolderInv, ScanInv, Same, Counts, Listed
<1>5. WorkInv(k)'
  <2> SUFFICES ASSUME pc[k][0] \in Working PROVE WorkInv(k)'
    BY DEF WorkInv, Same
  <2>1. id'[k][0] = id[k][0]
    BY DEF Same, Working, Holding
  <2>2. SmokeInv(k)' = SmokeInv(k)
    BY DEF SmokeInv, Same
  <2> QED BY <1>1, <1>2, <2>1, <2>2 DEF HolderInv, WorkInv, Same, Counts, Listed
<1> QED BY <1>3, <1>4, <1>5 DEF HolderInv

LEMMA DiskSame ==
  ASSUME CommittedPrefix, OneRuntime, StatusHonest, UNCHANGED <<receipts, status>>
  PROVE  CommittedPrefix' /\ OneRuntime' /\ StatusHonest'
<1>1. Committed' = Committed
  BY DEF Committed
<1> QED BY <1>1 DEF CommittedPrefix, OneRuntime, StatusHonest, Listed

LEMMA LedgerLocal ==
  ASSUME LedgerInv, NEW l \in Launches, \A k \in Launches \ {l} : Same(k),
         UNCHANGED <<receipts, status>>, LockInv', HolderInv(l)'
  PROVE  LedgerInv'
<1>1. ASSUME NEW k \in Launches PROVE HolderInv(k)'
  BY <1>1, HolderSame DEF LedgerInv
<1> QED BY <1>1, DiskSame DEF LedgerInv

LEMMA LockKept ==
  ASSUME LockInv, NEW l \in Launches, \A k \in Launches \ {l} : Same(k), UNCHANGED lock,
         pc[l][0] \in Holding <=> pc'[l][0] \in Holding
  PROVE  LockInv'
BY DEF LockInv, Same

LEMMA LedgerSame ==
  ASSUME LedgerInv, \A k \in Launches : Same(k), UNCHANGED <<receipts, status, lock>>
  PROVE  LedgerInv'
<1>1. ASSUME NEW k \in Launches PROVE HolderInv(k)'
  BY <1>1, HolderSame DEF LedgerInv
<1>2. LockInv'
  BY DEF LedgerInv, LockInv, Same
<1> QED BY <1>1, <1>2, DiskSame DEF LedgerInv

------------------------------------------------------------------------------
\* Steps of rank 1, and steps that end a process.

\* A process ends: other launches do not see it, nor does rank 0 when rank 1 ends.
LEMMA EndsSame ==
  ASSUME TypeInv, LockInv, NEW l \in Launches, NEW r \in Ranks, Ends(l, r)
  PROVE  /\ \A k \in Launches \ {l} : Same(k)
         /\ r = 0 => pc'[l][0] = "off" /\ done'[l][0] = <<>> /\ cursor'[l][0] = 0
         /\ r = 1 => Same(l)
         /\ LockInv'
<1>1. /\ pc' = [pc EXCEPT ![l][r] = "off"]
      /\ done' = [done EXCEPT ![l][r] = <<>>]
      /\ cursor' = [cursor EXCEPT ![l][r] = 0]
      /\ lock' = IF r = 0 /\ lock = l THEN None ELSE lock
  BY DEF Ends, Goto
<1>2. \A k \in Launches \ {l} : Same(k)
  <2> SUFFICES ASSUME NEW k \in Launches, k # l PROVE Same(k)
    OBVIOUS
  <2>1. id'[k] = id[k]
    <3>1. id' = [id EXCEPT ![l] = [q \in Ranks |-> None]] \/ id' = id
      BY DEF Ends, GroupGone
    <3> QED BY <3>1 DEF TypeInv, TypeOK, MemoryOK
  <2>2. pc'[k] = pc[k] /\ done'[k] = done[k] /\ cursor'[k] = cursor[k]
    BY <1>1 DEF TypeInv, TypeOK, MemoryOK
  <2>3. todo'[k] = todo[k] /\ pilot'[k] = pilot[k] /\ phase'[k] = phase[k]
    BY DEF Ends, TypeInv, TypeOK, MemoryOK
  <2> QED BY <2>1, <2>2, <2>3 DEF Same
<1>3. CASE r = 0
  <2>1. pc'[l][0] = "off" /\ done'[l][0] = <<>> /\ cursor'[l][0] = 0
    BY <1>1, <1>3 DEF TypeInv, TypeOK, MemoryOK
  <2>2. LockInv'
    BY <1>1, <1>2, <1>3, <2>1, NoneAssumption DEF LockInv, Same, Holding
  <2> QED BY <1>2, <1>3, <2>1, <2>2
<1>4. CASE r = 1
  <2>1. Same(l)
    <3>1. pc'[l][0] = pc[l][0] /\ done'[l][0] = done[l][0] /\ cursor'[l][0] = cursor[l][0]
      BY <1>1, <1>4 DEF TypeInv, TypeOK, MemoryOK, Ranks
    <3>2. todo'[l][0] = todo[l][0] /\ pilot'[l][0] = pilot[l][0] /\ phase'[l][0] = phase[l][0]
      BY <1>4 DEF Ends, TypeInv, TypeOK, MemoryOK, Ranks
    <3>3. pc[l][0] # "off" => id'[l][0] = id[l][0]
      BY <1>4 DEF Ends, Peer
    <3> QED BY <3>1, <3>2, <3>3 DEF Same
  <2>2. LockInv'
    BY <1>1, <1>2, <1>4, <2>1 DEF LockInv, Same
  <2> QED BY <1>2, <1>4, <2>1, <2>2
<1> QED BY <1>3, <1>4 DEF Ranks

LEMMA LedgerEnds ==
  ASSUME TypeInv, LedgerInv, NEW l \in Launches, NEW r \in Ranks, Ends(l, r),
         UNCHANGED receipts
  PROVE  /\ \A k \in Launches : HolderInv(k)'
         /\ LockInv'
<1>1. /\ \A k \in Launches \ {l} : Same(k)
      /\ r = 0 => pc'[l][0] = "off" /\ done'[l][0] = <<>> /\ cursor'[l][0] = 0
      /\ r = 1 => Same(l)
      /\ LockInv'
  BY EndsSame DEF LedgerInv
<1>2. HolderInv(l)'
  <2>1. CASE r = 0
    BY <1>1, <2>1 DEF HolderInv, FreshInv, ScanInv, WorkInv, Working, Holding
  <2>2. CASE r = 1
    BY <1>1, <2>2, HolderSame DEF LedgerInv
  <2> QED BY <2>1, <2>2 DEF Ranks
<1> QED BY <1>1, <1>2, HolderSame DEF LedgerInv

LEMMA LedgerQuits ==
  ASSUME TypeInv, LedgerInv, NEW l \in Launches, NEW r \in Ranks, Quits(l, r)
  PROVE  LedgerInv'
<1>1. Ends(l, r) /\ UNCHANGED <<receipts, status>>
  BY DEF Quits, disk
<1> QED BY <1>1, LedgerEnds, DiskSame DEF LedgerInv

\* Rank 1 moves on: rank 0 of no launch sees a difference.
LEMMA RankOneSame ==
  ASSUME TypeInv, NEW l \in Launches, RankStep(l, 1), ~Ends(l, 1)
  PROVE  (\A k \in Launches : Same(k)) /\ UNCHANGED <<receipts, status, lock>>
<1>1. \/ OfferIdentity(l, 1) \/ CheckPeers(l, 1) \/ BeginPhase(l, 1) \/ Export(l, 1)
      \/ Merge(l, 1) \/ PassBarrier(l, 1) \/ HearCommitted(l) \/ Receive(l) \/ HearPause(l)
  BY DEF RankStep, Conclude
<1>2. UNCHANGED <<receipts, status, lock, id>>
  BY <1>1 DEF OfferIdentity, CheckPeers, BeginPhase, Export, Merge, PassBarrier, HearCommitted,
              Receive, HearPause, Plan, Quits, memory, disk
<1>3. ASSUME OfferIdentity(l, 1) \/ CheckPeers(l, 1) \/ Export(l, 1) \/ Merge(l, 1) \/ HearPause(l)
      PROVE  \A k \in Launches : Same(k)
  <2>1. UNCHANGED <<id, done, todo, pilot, phase, cursor>> /\ \E label : Goto(l, 1, label)
    BY <1>3 DEF OfferIdentity, CheckPeers, Export, Merge, HearPause, Quits, memory
  <2> QED BY <2>1 DEF Same, Goto, TypeInv, TypeOK, MemoryOK, Ranks
<1>4. ASSUME PassBarrier(l, 1) \/ HearCommitted(l)
      PROVE  \A k \in Launches : Same(k)
  <2>1. /\ UNCHANGED <<id, phase, cursor>>
        /\ \E label : Goto(l, 1, label)
        /\ \E list : done' = [done EXCEPT ![l][1] = list]
        /\ todo' = todo \/ \E rest : todo' = [todo EXCEPT ![l][1] = rest]
        /\ pilot' = pilot \/ \E b : pilot' = [pilot EXCEPT ![l][1] = b]
    BY <1>4 DEF PassBarrier, HearCommitted, Plan, Quits
  <2> QED BY <2>1 DEF Same, Goto, TypeInv, TypeOK, MemoryOK, Ranks
<1>5. ASSUME BeginPhase(l, 1)
      PROVE  \A k \in Launches : Same(k)
  <2>1. /\ UNCHANGED <<id, done>>
        /\ Goto(l, 1, "forward")
        /\ \E n : cursor' = [cursor EXCEPT ![l][1] = n]
        /\ \E p : phase' = [phase EXCEPT ![l][1] = p]
        /\ todo' = todo \/ \E rest : todo' = [todo EXCEPT ![l][1] = rest]
        /\ \E b : pilot' = [pilot EXCEPT ![l][1] = b]
    BY <1>5 DEF BeginPhase
  <2> QED BY <2>1 DEF Same, Goto, TypeInv, TypeOK, MemoryOK, Ranks
<1>6. ASSUME Receive(l)
      PROVE  \A k \in Launches : Same(k)
  <2>1. /\ UNCHANGED <<pc, id, done, todo, pilot, phase>>
        /\ \E n : cursor' = [cursor EXCEPT ![l][1] = n]
    BY <1>6 DEF Receive, Observe, Quits
  <2> QED BY <2>1 DEF Same, TypeInv, TypeOK, MemoryOK, Ranks
<1> QED BY <1>1, <1>2, <1>3, <1>4, <1>5, <1>6

LEMMA LedgerRankOne ==
  ASSUME TypeInv, LedgerInv, NEW l \in Launches, RankStep(l, 1), ~Ends(l, 1)
  PROVE  LedgerInv'
BY RankOneSame, LedgerSame

------------------------------------------------------------------------------
\* Steps of rank 0 up to its phase list.

LEMMA LedgerStart ==
  ASSUME TypeInv, LedgerInv, NEW l \in Launches,
         NEW ids \in [Ranks -> Identities], Start(l, ids)
  PROVE  LedgerInv'
<1>1. /\ pc[l][0] = "off" /\ pc' = [pc EXCEPT ![l] = [r \in Ranks |-> "init"]]
      /\ id' = [id EXCEPT ![l] = ids]
      /\ UNCHANGED <<done, todo, pilot, phase, cursor, lock, receipts, status>>
  BY DEF Start, disk, Ranks
<1>2. \A k \in Launches \ {l} : Same(k)
  BY <1>1 DEF Same, TypeInv, TypeOK, MemoryOK
<1>3. pc'[l][0] = "init"
  BY <1>1 DEF TypeInv, TypeOK, MemoryOK, Ranks
<1>4. HolderInv(l)'
  BY <1>1, <1>3 DEF LedgerInv, HolderInv, FreshInv, ScanInv, WorkInv, Working, Holding
<1>5. LockInv'
  BY <1>1, <1>2, <1>3, LockKept DEF LedgerInv, Holding
<1> QED BY <1>1, <1>2, <1>4, <1>5, LedgerLocal

LEMMA GotoZero ==
  ASSUME TypeInv, NEW l \in Launches, NEW label, Goto(l, 0, label)
  PROVE  pc'[l][0] = label /\ \A k \in Launches \ {l} : pc'[k] = pc[k]
BY DEF Goto, TypeInv, TypeOK, MemoryOK, Ranks

LEMMA LedgerHandshake ==
  ASSUME TypeInv, LedgerInv, NEW l \in Launches,
         OfferIdentity(l, 0) \/ CheckPeers(l, 0), ~Quits(l, 0)
  PROVE  LedgerInv'
<1>1. /\ pc[l][0] \in {"init", "peers"}
      /\ Goto(l, 0, "peers") \/ Goto(l, 0, "lock")
      /\ UNCHANGED <<id, done, todo, pilot, phase, cursor, lock, receipts, status>>
  BY DEF OfferIdentity, CheckPeers, memory, disk
<1>2. pc'[l][0] \in {"peers", "lock"} /\ \A k \in Launches \ {l} : pc'[k] = pc[k]
  BY <1>1, GotoZero
<1>3. \A k \in Launches \ {l} : Same(k)
  BY <1>1, <1>2 DEF Same
<1>4. HolderInv(l)'
  BY <1>1, <1>2 DEF LedgerInv, HolderInv, FreshInv, ScanInv, WorkInv, Working, Holding
<1>5. LockInv'
  BY <1>1, <1>2, <1>3, LockKept DEF LedgerInv, Holding
<1> QED BY <1>1, <1>3, <1>4, <1>5, LedgerLocal

LEMMA LedgerTakeLock ==
  ASSUME TypeInv, LedgerInv, NEW l \in Launches, TakeLock(l), ~Quits(l, 0)
  PROVE  LedgerInv'
<1>1. /\ pc[l][0] = "lock" /\ lock = None /\ lock' = l /\ Goto(l, 0, "scan")
      /\ UNCHANGED <<id, done, todo, pilot, phase, cursor, receipts, status>>
  BY DEF TakeLock, memory, disk
<1>2. pc'[l][0] = "scan" /\ \A k \in Launches \ {l} : pc'[k] = pc[k]
  BY <1>1, GotoZero
<1>3. \A k \in Launches \ {l} : Same(k)
  BY <1>1, <1>2 DEF Same
<1>4. ScanInv(l)'
  <2>1. done'[l][0] = <<>> /\ cursor'[l][0] = 0
    BY <1>1 DEF LedgerInv, HolderInv, FreshInv
  <2>2. {s \in Committed' : s < cursor'[l][0]} = {}
    BY <2>1 DEF Committed, ShardIds
  <2>3. cursor'[l][0] <= NumShards
    BY <2>1, ManifestAssumption DEF ValidManifest
  <2>4. \A s \in Committed' : ~(s < cursor'[l][0])
    BY <2>2
  <2> QED BY <2>1, <2>2, <2>3, <2>4, CountsEmpty DEF ScanInv
<1>5. HolderInv(l)'
  BY <1>2, <1>4 DEF HolderInv, FreshInv, WorkInv, Working, Holding
<1>6. LockInv'
  BY <1>1, <1>2, NoneAssumption DEF LedgerInv, LockInv, Holding
<1> QED BY <1>1, <1>3, <1>5, <1>6, LedgerLocal

LEMMA LedgerScan ==
  ASSUME TypeInv, LedgerInv, NEW l \in Launches, ScanShard(l), ~Quits(l, 0)
  PROVE  LedgerInv'
<1> DEFINE s == cursor[l][0]
           list == done[l][0]
<1>1. /\ pc[l][0] = "scan" /\ s \in Nat /\ s < NumShards
      /\ cursor' = [cursor EXCEPT ![l][0] = s + 1]
      /\ done' = [done EXCEPT ![l][0] = IF receipts[s] # None THEN Append(@, s) ELSE @]
      /\ receipts[s] = None \/ ValidReceipt(s, receipts[s], id[l][0].rt)
      /\ UNCHANGED <<pc, id, todo, pilot, phase, lock, receipts, status>>
  BY DEF ScanShard, disk, TypeInv, TypeOK, MemoryOK, Ranks
<1>2. /\ cursor'[l][0] = s + 1
      /\ done'[l][0] = IF receipts[s] # None THEN Append(list, s) ELSE list
  BY <1>1 DEF TypeInv, TypeOK, MemoryOK, Ranks
<1>3. \A k \in Launches \ {l} : Same(k)
  BY <1>1 DEF Same, TypeInv, TypeOK, MemoryOK
<1>4. s \in ShardIds /\ NumShards \in Nat /\ list \in Seq(ShardIds)
  BY <1>1, ManifestAssumption DEF ShardIds, ValidManifest, TypeInv, TypeOK, MemoryOK, Ranks
<1>5. /\ Counts(list, {t \in Committed : t < s}) /\ CommittedPrefix
      /\ \A t \in Committed : t < s => receipts[t].rt = id[l][0].rt
  BY <1>1 DEF LedgerInv, HolderInv, ScanInv
<1>6. Committed' = Committed /\ \A t \in Committed : t \in Nat
  BY <1>1 DEF Committed, ShardIds
<1> HIDE DEF s, list
<1>7. Counts(done'[l][0], {t \in Committed : t < s + 1})
  <2>1. CASE receipts[s] # None
    <3>1. s \in Committed
      BY <1>4, <2>1 DEF Committed
    <3>2. Len(list) = s
      BY <1>1, <1>4, <1>5, <3>1, PrefixBelow, CountsLen
    <3>3. Counts(Append(list, s), {t \in Committed : t < s} \cup {s})
      BY <1>4, <1>5, <3>2, CountsAppend
    <3>4. {t \in Committed : t < s} \cup {s} = {t \in Committed : t < s + 1}
      BY <1>1, <1>6, <3>1
    <3> QED BY <1>2, <2>1, <3>3, <3>4
  <2>2. CASE receipts[s] = None
    <3>1. s \notin Committed
      BY <2>2 DEF Committed
    <3>2. {t \in Committed : t < s} = {t \in Committed : t < s + 1}
      BY <1>1, <1>6, <3>1
    <3> QED BY <1>2, <1>5, <2>2, <3>2
  <2> QED BY <2>1, <2>2
<1>8. \A t \in Committed : t < s + 1 => receipts[t].rt = id[l][0].rt
  <2> SUFFICES ASSUME NEW t \in Committed, t < s + 1 PROVE receipts[t].rt = id[l][0].rt
    OBVIOUS
  <2>1. CASE t < s
    BY <1>5, <2>1
  <2>2. CASE t = s
    BY <1>1, <2>2 DEF ValidReceipt, Committed
  <2> QED BY <1>1, <1>6, <2>1, <2>2
<1>9. HolderInv(l)'
  <2>1. ScanInv(l)'
    <3>1. cursor'[l][0] <= NumShards
      BY <1>1, <1>2, <1>4
    <3>2. {t \in Committed' : t < cursor'[l][0]} = {t \in Committed : t < s + 1}
      BY <1>2, <1>6
    <3>3. \A t \in Committed' : t < cursor'[l][0] => receipts'[t].rt = id'[l][0].rt
      BY <1>1, <1>2, <1>6, <1>8
    <3> QED BY <1>7, <3>1, <3>2, <3>3 DEF ScanInv
  <2> QED BY <1>1, <2>1 DEF HolderInv, FreshInv, WorkInv, Working, Holding
<1>10. LockInv'
  BY <1>1, <1>3, LockKept DEF LedgerInv
<1> QED BY <1>1, <1>3, <1>9, <1>10, LedgerLocal

LEMMA LedgerShare ==
  ASSUME SkipsCommitted, TypeInv, LedgerInv, NEW l \in Launches, ShareCommitted(l)
  PROVE  LedgerInv'
<1> DEFINE list == done[l][0]
           mode == id[l][0].mode
<1>1. /\ pc[l][0] = "scan" /\ cursor[l][0] = NumShards
      /\ Goto(l, 0, "loop")
      /\ done' = [done EXCEPT ![l][0] = list]
      /\ todo' = [todo EXCEPT ![l][0] = PlannedTodo(mode, list)]
      /\ pilot' = [pilot EXCEPT ![l][0] = PlannedPilot(mode, list)]
      /\ UNCHANGED <<id, phase, cursor, lock, receipts, status>>
  BY DEF ShareCommitted, Plan, disk
<1>2. pc'[l][0] = "loop" /\ \A k \in Launches \ {l} : pc'[k] = pc[k]
  BY <1>1, GotoZero
<1>3. /\ done'[l][0] = list /\ todo'[l][0] = PlannedTodo(mode, list)
      /\ pilot'[l][0] = PlannedPilot(mode, list)
  BY <1>1 DEF TypeInv, TypeOK, MemoryOK, Ranks
<1>4. \A k \in Launches \ {l} : Same(k)
  BY <1>1, <1>2 DEF Same, TypeInv, TypeOK, MemoryOK
<1>5. Committed' = Committed /\ Committed = {t \in Committed : t < NumShards}
  BY <1>1, ManifestAssumption DEF Committed, ShardIds, ValidManifest
<1>6. Counts(list, Committed) /\ \A t \in Committed : receipts[t].rt = id[l][0].rt
  BY <1>1, <1>5 DEF LedgerInv, HolderInv, ScanInv
<1>7. Production(list) = Missing
  <2>1. FirstShard = 0 /\ Listed(list) = Committed
    BY <1>6, DriverAssumption DEF Counts
  <2> QED BY <2>1 DEF Production, Missing, ShardIds
<1> HIDE DEF list
<1>8. WorkInv(l)'
  <2>1. Unlisted(l)' = {} /\ Upcoming(l)' = todo'[l][0] /\ Missing' = Missing
    BY <1>2, <1>5 DEF Unlisted, Upcoming, InPhase, Missing
  <2>2. mode = "smoke" => SmokeInv(l)'
    BY <1>2, <1>3 DEF SmokeInv, PlannedTodo, PlannedPilot
  <2>3. mode # "smoke" => Upcoming(l)' = Missing
    BY <1>3, <1>7, <2>1 DEF PlannedTodo
  <2>4. ~InPhase(l, {"forward", "gather"})' /\ ~InPhase(l, {"barrier"})'
    BY <1>2 DEF InPhase
  <2>5. Counts(done'[l][0], Committed' \ Unlisted(l)')
    BY <1>3, <1>5, <1>6, <2>1
  <2> QED BY <1>1, <1>2, <1>5, <1>6, <2>1, <2>2, <2>3, <2>4, <2>5 DEF WorkInv
<1>9. HolderInv(l)'
  BY <1>2, <1>8 DEF HolderInv, FreshInv, ScanInv
<1>10. LockInv'
  BY <1>1, <1>2, <1>4, LockKept DEF LedgerInv, Holding
<1> QED BY <1>1, <1>4, <1>9, <1>10, LedgerLocal

------------------------------------------------------------------------------
\* Steps of rank 0 in the phase loop.

LEMMA LedgerBegin ==
  ASSUME TypeInv, LedgerInv, NEW l \in Launches, BeginPhase(l, 0)
  PROVE  LedgerInv'
<1>1. /\ pc[l][0] = "loop" /\ Goto(l, 0, "forward")
      /\ UNCHANGED <<id, done, lock, receipts, status>>
  BY DEF BeginPhase, disk
<1>2. pc'[l][0] = "forward" /\ \A k \in Launches \ {l} : pc'[k] = pc[k]
  BY <1>1, GotoZero
<1>3. \A k \in Launches \ {l} : Same(k)
  <2>1. /\ \E p : phase' = [phase EXCEPT ![l][0] = p]
        /\ todo' = todo \/ \E rest : todo' = [todo EXCEPT ![l][0] = rest]
        /\ \E b : pilot' = [pilot EXCEPT ![l][0] = b]
        /\ \E n : cursor' = [cursor EXCEPT ![l][0] = n]
    BY DEF BeginPhase
  <2> QED BY <1>1, <1>2, <2>1 DEF Same, TypeInv, TypeOK, MemoryOK
<1>4. Committed' = Committed /\ Missing' = Missing
  BY <1>1 DEF Committed, Missing
<1>5. /\ WorkInv(l) /\ Unlisted(l) = {} /\ Upcoming(l) = todo[l][0]
  BY <1>1 DEF LedgerInv, HolderInv, Unlisted, Upcoming, InPhase
<1>6. WorkInv(l)'
  <2>1. /\ \A t \in Committed' : receipts'[t].rt = id'[l][0].rt
        /\ Unlisted(l)' = {} /\ ~InPhase(l, {"barrier"})'
        /\ Counts(done'[l][0], Committed')
    BY <1>1, <1>2, <1>4, <1>5 DEF WorkInv, Working, Holding, Unlisted, InPhase
  <2>2. CASE pilot[l][0]
    <3>1. phase'[l][0].smoke = TRUE /\ todo' = todo
      BY <2>2 DEF BeginPhase, TypeInv, TypeOK, MemoryOK, Ranks
    <3>2. ~InPhase(l, {"forward", "gather"})' /\ Upcoming(l)' = todo[l][0]
      BY <3>1 DEF InPhase, Upcoming
    <3>3. SmokeInv(l) => SmokeInv(l)'
      BY <1>2, <3>1 DEF SmokeInv
    <3> QED
      BY <1>1, <1>2, <1>4, <1>5, <2>1, <3>2, <3>3 DEF WorkInv, Working, Holding
  <2>3. CASE ~pilot[l][0]
    <3>1. PICK s \in todo[l][0] :
            /\ \A t \in todo[l][0] : s <= t
            /\ phase' = [phase EXCEPT ![l][0] = [shard |-> s, smoke |-> FALSE]]
            /\ todo' = [todo EXCEPT ![l][0] = @ \ {s}]
      BY <2>3 DEF BeginPhase
    <3>2. /\ phase'[l][0] = [shard |-> s, smoke |-> FALSE] /\ todo'[l][0] = todo[l][0] \ {s}
          /\ todo[l][0] \subseteq ShardIds
      BY <3>1 DEF TypeInv, TypeOK, MemoryOK, Ranks
    <3>3. InPhase(l, {"forward", "gather"})' /\ Upcoming(l)' = todo[l][0]
      BY <1>2, <3>2 DEF InPhase, Upcoming
    <3>4. \A t \in todo'[l][0] : phase'[l][0].shard < t
      BY <3>1, <3>2 DEF ShardIds
    <3>5. id[l][0].mode # "smoke"
      BY <1>1, <1>5, <2>3 DEF WorkInv, Working, Holding, SmokeInv
    <3> QED
      BY <1>1, <1>2, <1>4, <1>5, <2>1, <3>3, <3>4, <3>5 DEF WorkInv, Working, Holding
  <2> QED BY <2>2, <2>3
<1>7. HolderInv(l)'
  BY <1>2, <1>6 DEF HolderInv, FreshInv, ScanInv
<1>8. LockInv'
  BY <1>1, <1>2, <1>3, LockKept DEF LedgerInv, Holding
<1> QED BY <1>1, <1>3, <1>7, <1>8, LedgerLocal

\* Rank 0 forwards a record or exports: nothing its phase list depends on changes.
LEMMA LedgerForward ==
  ASSUME TypeInv, LedgerInv, NEW l \in Launches, Forward(l) \/ Export(l, 0)
  PROVE  LedgerInv'
<1>1. /\ pc[l][0] = "forward"
      /\ pc' = pc \/ Goto(l, 0, "gather")
      /\ cursor' = cursor \/ \E n : cursor' = [cursor EXCEPT ![l][0] = n]
      /\ UNCHANGED <<id, done, todo, pilot, phase, lock, receipts, status>>
  BY DEF Forward, Export, Observe, memory, disk
<1>2. pc'[l][0] \in {"forward", "gather"} /\ \A k \in Launches \ {l} : pc'[k] = pc[k]
  BY <1>1, GotoZero
<1>3. \A k \in Launches \ {l} : Same(k)
  BY <1>1, <1>2 DEF Same, TypeInv, TypeOK, MemoryOK
<1>4. Committed' = Committed /\ Missing' = Missing
  BY <1>1 DEF Committed, Missing
<1>5. WorkInv(l)'
  <2>1. /\ Unlisted(l)' = Unlisted(l) /\ Upcoming(l)' = Upcoming(l)
        /\ InPhase(l, {"forward", "gather"})' = InPhase(l, {"forward", "gather"})
        /\ ~InPhase(l, {"barrier"})'
    BY <1>1, <1>2 DEF Unlisted, Upcoming, InPhase
  <2>2. SmokeInv(l) => SmokeInv(l)'
    BY <1>1, <1>2 DEF SmokeInv
  <2>3. WorkInv(l) /\ pc[l][0] \in Working
    BY <1>1 DEF LedgerInv, HolderInv, Working, Holding
  <2> QED BY <1>1, <1>2, <1>4, <2>1, <2>2, <2>3 DEF WorkInv
<1>6. HolderInv(l)'
  BY <1>2, <1>5 DEF HolderInv, FreshInv, ScanInv
<1>7. LockInv'
  BY <1>1, <1>2, <1>3, LockKept DEF LedgerInv, Holding
<1> QED BY <1>1, <1>3, <1>6, <1>7, LedgerLocal

LEMMA LedgerPassBarrier ==
  ASSUME TypeInv, LedgerInv, NEW l \in Launches, PassBarrier(l, 0), ~Quits(l, 0)
  PROVE  LedgerInv'
<1> DEFINE p == phase[l][0]
           list == done[l][0]
<1>1. /\ pc[l][0] = "barrier" /\ Goto(l, 0, IF p.smoke THEN "loop" ELSE "poll")
      /\ ~(p.smoke /\ id[l][0].mode = "smoke")
      /\ done' = [done EXCEPT ![l][0] = IF p.smoke THEN @ ELSE Append(@, p.shard)]
      /\ UNCHANGED <<id, todo, pilot, phase, cursor, lock, receipts, status>>
  BY DEF PassBarrier, disk
<1>2. /\ pc'[l][0] = IF p.smoke THEN "loop" ELSE "poll"
      /\ \A k \in Launches \ {l} : pc'[k] = pc[k]
  BY <1>1, GotoZero
<1>3. done'[l][0] = IF p.smoke THEN list ELSE Append(list, p.shard)
  BY <1>1 DEF TypeInv, TypeOK, MemoryOK, Ranks
<1>4. \A k \in Launches \ {l} : Same(k)
  BY <1>1, <1>2 DEF Same, TypeInv, TypeOK, MemoryOK
<1>5. Committed' = Committed /\ Missing' = Missing
  BY <1>1 DEF Committed, Missing
<1>6. WorkInv(l) /\ pc[l][0] \in Working /\ CommittedPrefix /\ p \in Phase /\ list \in Seq(ShardIds)
  BY <1>1 DEF LedgerInv, HolderInv, Working, Holding, TypeInv, TypeOK, MemoryOK, Ranks
<1>7. id[l][0].mode # "smoke"
  BY <1>1, <1>6 DEF WorkInv, SmokeInv
<1>8. /\ Unlisted(l)' = {} /\ Upcoming(l) = todo[l][0] /\ Upcoming(l)' = todo[l][0]
      /\ ~InPhase(l, {"forward", "gather"})' /\ ~InPhase(l, {"barrier"})'
  BY <1>1, <1>2 DEF Unlisted, Upcoming, InPhase
<1>9. Counts(done'[l][0], Committed) /\ (~p.smoke => done'[l][0] # <<>>)
  <2>1. CASE p.smoke
    BY <1>3, <1>6, <2>1 DEF WorkInv, Unlisted, InPhase
  <2>2. CASE ~p.smoke
    <3>1. /\ Unlisted(l) = {p.shard} /\ p.shard \in Committed /\ p.shard \in ShardIds
          /\ Counts(list, Committed \ {p.shard})
          /\ \A t \in Committed : t <= p.shard
      BY <1>1, <1>6, <2>2 DEF WorkInv, Unlisted, InPhase, Phase
    <3>2. Committed \ {p.shard} = {t \in Committed : t < p.shard}
      BY <3>1 DEF Committed, ShardIds
    <3>3. Len(list) = p.shard
      <4>1. p.shard \in Nat /\ {t \in Committed : t < p.shard} = 0 .. (p.shard - 1)
        BY <1>6, <3>1, PrefixBelow DEF ShardIds
      <4>2. Counts(list, 0 .. (p.shard - 1))
        BY <3>1, <3>2, <4>1
      <4> QED BY <1>6, <4>1, <4>2, CountsLen
    <3>4. Counts(Append(list, p.shard), (Committed \ {p.shard}) \cup {p.shard})
      BY <1>6, <3>1, <3>3, CountsAppend
    <3>5. (Committed \ {p.shard}) \cup {p.shard} = Committed
      BY <3>1
    <3>6. Append(list, p.shard) # <<>>
      BY <1>6, <3>1
    <3> QED BY <1>3, <2>2, <3>4, <3>5, <3>6
  <2> QED BY <2>1, <2>2
<1> HIDE DEF p, list
<1>10. WorkInv(l)'
  <2>1. Counts(done'[l][0], Committed' \ Unlisted(l)')
    BY <1>5, <1>8, <1>9
  <2>2. pc'[l][0] \in {"poll", "paused"} => done'[l][0] # <<>>
    BY <1>2, <1>9
  <2>3. Upcoming(l)' = Missing'
    BY <1>5, <1>6, <1>7, <1>8 DEF WorkInv
  <2>4. \A t \in Committed' : receipts'[t].rt = id'[l][0].rt
    BY <1>1, <1>5, <1>6 DEF WorkInv
  <2> QED BY <1>1, <1>5, <1>7, <1>8, <2>1, <2>2, <2>3, <2>4 DEF WorkInv
<1>11. HolderInv(l)'
  BY <1>2, <1>10 DEF HolderInv, FreshInv, ScanInv
<1>12. LockInv'
  BY <1>1, <1>2, <1>4, LockKept DEF LedgerInv, Holding
<1> QED BY <1>1, <1>4, <1>11, <1>12, LedgerLocal

LEMMA LedgerPoll ==
  ASSUME TypeInv, LedgerInv, NEW l \in Launches, PollPause(l)
  PROVE  LedgerInv'
<1>1. /\ pc[l][0] = "poll"
      /\ Goto(l, 0, "paused") \/ Goto(l, 0, "loop")
      /\ UNCHANGED <<id, done, todo, pilot, phase, cursor, lock, receipts, status>>
  BY DEF PollPause, memory, disk
<1>2. pc'[l][0] \in {"paused", "loop"} /\ \A k \in Launches \ {l} : pc'[k] = pc[k]
  BY <1>1, GotoZero
<1>3. \A k \in Launches \ {l} : Same(k)
  BY <1>1, <1>2 DEF Same
<1>4. Committed' = Committed /\ Missing' = Missing
  BY <1>1 DEF Committed, Missing
<1>5. WorkInv(l) /\ pc[l][0] \in Working
  BY <1>1 DEF LedgerInv, HolderInv, Working, Holding
<1>6. /\ Unlisted(l)' = Unlisted(l) /\ Upcoming(l)' = Upcoming(l)
      /\ ~InPhase(l, {"forward", "gather"})' /\ ~InPhase(l, {"barrier"})'
  BY <1>1, <1>2 DEF Unlisted, Upcoming, InPhase
<1>7. id[l][0].mode # "smoke"
  BY <1>1, <1>5 DEF WorkInv, SmokeInv
<1>8. WorkInv(l)'
  BY <1>1, <1>2, <1>4, <1>5, <1>6, <1>7 DEF WorkInv
<1>9. HolderInv(l)'
  BY <1>2, <1>8 DEF HolderInv, FreshInv, ScanInv
<1>10. LockInv'
  BY <1>1, <1>2, <1>3, LockKept DEF LedgerInv, Holding
<1> QED BY <1>1, <1>3, <1>9, <1>10, LedgerLocal

------------------------------------------------------------------------------
\* The commit, and the end of a launch that reached it.

\* What a commit writes: exact statistics, under this runtime.
LEMMA PublishFacts ==
  ASSUME TypeInv, ExactInv, NEW l \in Launches, Merge(l, 0), ~Quits(l, 0), ~phase[l][0].smoke
  PROVE  LET s == phase[l][0].shard
             receipt == [rt |-> id[l][0].rt, obs |-> Observations(l)] IN
         /\ pc[l][0] = "gather" /\ s \in ShardIds /\ id[l][0].rt \in Runtimes
         /\ receipt \in Receipt /\ receipt # None
         /\ receipt.obs = [r \in Ranks |-> Exactly([shard |-> s, smoke |-> FALSE])]
         /\ receipts' = [receipts EXCEPT ![s] = receipt]
         /\ status' = status /\ Committed' = Committed \cup {s}
<1> DEFINE p == phase[l][0]
           s == p.shard
           receipt == [rt |-> id[l][0].rt, obs |-> Observations(l)]
<1>1. /\ pc[l][0] = "gather" /\ Mergeable(l, 0)
      /\ receipts' = [receipts EXCEPT ![s] = receipt] /\ status' = status
  BY DEF Merge, Publish
<1>2. p \in Phase /\ s \in ShardIds /\ p = [shard |-> s, smoke |-> FALSE]
  <2>1. p \in Phase /\ ~p.smoke
    BY DEF TypeInv, TypeOK, MemoryOK, Ranks
  <2> HIDE DEF p
  <2>2. s \in ShardIds /\ p = [shard |-> s, smoke |-> FALSE]
    BY <2>1 DEF Phase
  <2> QED BY <2>1, <2>2
<1>3. receipt \in Receipt /\ id[l][0].rt \in Runtimes
  BY <1>1 DEF Mergeable, Observations, Receipt, Stats, Payload, TypeInv, TypeOK, NetworkOK,
              Identified, Identities, Ranks
<1>4. Observations(l) = [r \in Ranks |-> Exactly(p)]
  <2>1. ASSUME NEW q \in Ranks PROVE gift[l][q].acc = Exactly(p)
    <3>1. gift[l][q].acc = Exactly(gift[l][q].phase) /\ SameRange(gift[l][q].phase, p)
      BY <1>1 DEF ExactInv, ExactGifts, Mergeable
    <3> QED BY <3>1, ExactRange
  <2> QED BY <2>1 DEF Observations
<1>5. receipt # None
  BY <1>3, NoneAssumption
<1>6. receipt.obs = [r \in Ranks |-> Exactly([shard |-> s, smoke |-> FALSE])]
  BY <1>2, <1>4
<1> HIDE DEF p, s, receipt
<1>7. Committed' = Committed \cup {s}
  BY <1>1, <1>2, <1>5 DEF Committed, TypeInv, TypeOK, DiskOK
<1> QED BY <1>1, <1>2, <1>3, <1>5, <1>6, <1>7 DEF p, s, receipt

\* And it is the first missing shard.
LEMMA CommitFacts ==
  ASSUME TypeInv, ExactInv, LedgerInv, NEW l \in Launches, Merge(l, 0), ~Quits(l, 0),
         ~phase[l][0].smoke
  PROVE  LET s == phase[l][0].shard
             receipt == [rt |-> id[l][0].rt, obs |-> Observations(l)] IN
         /\ lock = l /\ s \in Missing /\ \A t \in Missing : s <= t
         /\ \A t \in Committed : receipts[t].rt = id[l][0].rt
         /\ receipt \in Receipt /\ receipt # None
         /\ receipt.obs = [r \in Ranks |-> Exactly([shard |-> s, smoke |-> FALSE])]
         /\ receipts' = [receipts EXCEPT ![s] = receipt]
         /\ status' = status /\ Committed' = Committed \cup {s}
<1> DEFINE s == phase[l][0].shard
           receipt == [rt |-> id[l][0].rt, obs |-> Observations(l)]
<1>1. /\ pc[l][0] = "gather" /\ s \in ShardIds
      /\ receipt \in Receipt /\ receipt # None
      /\ receipt.obs = [r \in Ranks |-> Exactly([shard |-> s, smoke |-> FALSE])]
      /\ receipts' = [receipts EXCEPT ![s] = receipt]
      /\ status' = status /\ Committed' = Committed \cup {s}
  BY PublishFacts
<1>2. WorkInv(l) /\ lock = l
  BY <1>1 DEF LedgerInv, LockInv, HolderInv, Holding
<1>3. InPhase(l, {"forward", "gather"}) /\ Upcoming(l) = todo[l][0] \cup {s}
  BY <1>1 DEF InPhase, Upcoming
<1>4. id[l][0].mode # "smoke"
  BY <1>1, <1>2 DEF WorkInv, SmokeInv, Working, Holding
<1>5. s \in Missing /\ \A t \in Missing : s <= t
  <2>1. Missing = todo[l][0] \cup {s} /\ \A t \in todo[l][0] : s < t
    BY <1>1, <1>2, <1>3, <1>4 DEF WorkInv, Working, Holding
  <2>2. \A t \in Missing : t \in Nat
    BY DEF Missing, ShardIds
  <2> HIDE DEF s
  <2> QED BY <2>1, <2>2
<1>6. \A t \in Committed : receipts[t].rt = id[l][0].rt
  BY <1>1, <1>2 DEF WorkInv, Working, Holding
<1> HIDE DEF s, receipt
<1> QED BY <1>1, <1>2, <1>5, <1>6 DEF s, receipt

LEMMA LedgerMerge ==
  ASSUME TypeInv, ExactInv, LedgerInv, NEW l \in Launches, Merge(l, 0), ~Quits(l, 0)
  PROVE  LedgerInv'
<1> DEFINE p == phase[l][0]
           s == p.shard
<1>1. /\ pc[l][0] = "gather" /\ Goto(l, 0, "barrier") /\ Publish(l)
      /\ UNCHANGED <<id, done, todo, pilot, phase, cursor, lock>>
  BY DEF Merge, memory
<1>2. pc'[l][0] = "barrier" /\ \A k \in Launches \ {l} : pc'[k] = pc[k]
  BY <1>1, GotoZero
<1>3. \A k \in Launches \ {l} : Same(k)
  BY <1>1, <1>2 DEF Same
<1>4. LockInv'
  BY <1>1, <1>2, <1>3, LockKept DEF LedgerInv, Holding
<1>5. WorkInv(l) /\ pc[l][0] \in Working
  BY <1>1 DEF LedgerInv, HolderInv, Working, Holding
<1>6. CASE p.smoke
  <2>1. UNCHANGED <<receipts, status>>
    BY <1>1, <1>6 DEF Publish
  <2>2. Committed' = Committed /\ Missing' = Missing
    BY <2>1 DEF Committed, Missing
  <2>3. /\ Unlisted(l)' = Unlisted(l) /\ Upcoming(l)' = Upcoming(l)
        /\ ~InPhase(l, {"forward", "gather"})' /\ ~InPhase(l, {"barrier"})'
    BY <1>1, <1>2, <1>6 DEF Unlisted, Upcoming, InPhase
  <2>4. SmokeInv(l) => SmokeInv(l)'
    BY <1>1, <1>2 DEF SmokeInv
  <2>5. WorkInv(l)'
    BY <1>1, <1>2, <1>5, <2>1, <2>2, <2>3, <2>4 DEF WorkInv
  <2>6. HolderInv(l)'
    BY <1>2, <2>5 DEF HolderInv, FreshInv, ScanInv
  <2> QED BY <1>3, <1>4, <2>1, <2>6, LedgerLocal
<1>7. CASE ~p.smoke
  <2>1. /\ lock = l /\ s \in Missing /\ \A t \in Missing : s <= t
        /\ \A t \in Committed : receipts[t].rt = id[l][0].rt
        /\ status' = status /\ Committed' = Committed \cup {s} /\ s \notin Committed
        /\ \A t \in Committed : receipts'[t] = receipts[t]
        /\ receipts'[s].rt = id[l][0].rt
    <3>1. PICK receipt : /\ receipt.rt = id[l][0].rt
                         /\ receipts' = [receipts EXCEPT ![s] = receipt]
      BY <1>7, CommitFacts
    <3>2. /\ lock = l /\ s \in Missing /\ \A t \in Missing : s <= t
          /\ \A t \in Committed : receipts[t].rt = id[l][0].rt
          /\ status' = status /\ Committed' = Committed \cup {s}
      BY <1>7, CommitFacts
    <3>3. s \in ShardIds /\ s \notin Committed /\ \A t \in Committed : t \in ShardIds /\ t # s
      BY <3>2 DEF Missing, Committed
    <3> HIDE DEF s
    <3>4. receipts'[s] = receipt /\ \A t \in Committed : receipts'[t] = receipts[t]
      BY <3>1, <3>3 DEF TypeInv, TypeOK, DiskOK
    <3> QED BY <3>1, <3>2, <3>3, <3>4
  <2>2. Missing = todo[l][0] \cup {s} /\ \A t \in todo[l][0] : s < t
    BY <1>1, <1>5, <1>7 DEF WorkInv, InPhase, Upcoming, SmokeInv
  <2>3. s \in ShardIds /\ s \in Nat /\ \A t \in ShardIds : t \in Nat
    BY <2>1 DEF Missing, ShardIds
  <2>4. id[l][0].mode # "smoke" /\ Unlisted(l) = {}
    BY <1>1, <1>5, <1>7 DEF WorkInv, SmokeInv, Unlisted, InPhase
  <2>5. ASSUME NEW t \in Committed, t > s PROVE FALSE
    BY <2>1, <2>3, <2>5 DEF LedgerInv, CommittedPrefix
  <2>6. WorkInv(l)'
    <3>1. /\ Unlisted(l)' = {s} /\ Upcoming(l)' = todo[l][0]
          /\ ~InPhase(l, {"forward", "gather"})'
      BY <1>1, <1>2, <1>7 DEF Unlisted, Upcoming, InPhase
    <3>2. Missing' = todo[l][0] /\ Committed' \ {s} = Committed
      BY <2>1, <2>2, <2>3 DEF Missing
    <3>3. \A t \in Committed' : receipts'[t].rt = id'[l][0].rt /\ t <= phase'[l][0].shard
      BY <1>1, <2>1, <2>3, <2>5 DEF Committed
    <3>4. Counts(done'[l][0], Committed' \ Unlisted(l)')
      BY <1>1, <1>5, <2>4, <3>1, <3>2 DEF WorkInv
    <3>5. Unlisted(l)' \subseteq Committed'
      BY <2>1, <3>1
    <3> HIDE DEF p, s
    <3> QED BY <1>1, <1>2, <2>4, <3>1, <3>2, <3>3, <3>4, <3>5 DEF WorkInv
  <2>7. HolderInv(l)'
    BY <1>2, <2>6 DEF HolderInv, FreshInv, ScanInv
  <2>8. ASSUME NEW k \in Launches, k # l PROVE HolderInv(k)'
    <3>1. pc[k][0] \notin Holding
      BY <2>1, <2>8 DEF LedgerInv, LockInv
    <3> QED
      BY <1>3, <2>8, <3>1 DEF LedgerInv, HolderInv, FreshInv, ScanInv, WorkInv, Same, Working, Holding
  <2>9. CommittedPrefix'
    <3> SUFFICES ASSUME NEW t \in Committed', NEW u \in ShardIds, u < t PROVE u \in Committed'
      BY DEF CommittedPrefix
    <3>1. CASE t \in Committed
      BY <2>1, <3>1 DEF LedgerInv, CommittedPrefix
    <3>2. CASE t = s
      BY <2>1, <2>3, <3>2 DEF Missing
    <3> QED BY <2>1, <3>1, <3>2
  <2>10. OneRuntime'
    BY <1>1, <2>1 DEF OneRuntime
  <2>11. StatusHonest'
    <3>1. Committed \subseteq Committed' /\ Committed' \subseteq ShardIds
      BY <2>1 DEF Committed
    <3> QED BY <2>1, <3>1 DEF LedgerInv, StatusHonest
  <2> QED BY <1>4, <2>7, <2>8, <2>9, <2>10, <2>11 DEF LedgerInv
<1> QED BY <1>6, <1>7

\* Rank 0 writes record-status.json: the list is what is on disk.
LEMMA ConcludeFacts ==
  ASSUME LedgerInv, NEW l \in Launches, Conclude(l, 0)
  PROVE  /\ lock = l /\ Counts(done[l][0], Committed)
         /\ status' = Summary(l, 0) /\ Ends(l, 0) /\ UNCHANGED receipts
         /\ Summary(l, 0).state = "RECORD_LOCAL_COMPLETE" => Committed = ShardIds
         /\ Summary(l, 0).state = "PAUSED_AT_RECORD_SHARD" => done[l][0] # <<>>
<1>1. /\ \/ pc[l][0] = "paused"
         \/ pc[l][0] = "loop" /\ ~pilot[l][0] /\ todo[l][0] = {}
      /\ Ends(l, 0) /\ status' = Summary(l, 0) /\ UNCHANGED receipts
  BY DEF Conclude
<1>2. WorkInv(l) /\ pc[l][0] \in Working /\ lock = l
  BY <1>1 DEF LedgerInv, LockInv, HolderInv, Working, Holding
<1>3. Unlisted(l) = {} /\ Upcoming(l) = todo[l][0]
  BY <1>1 DEF Unlisted, Upcoming, InPhase
<1>4. pc[l][0] = "loop" => Missing = {}
  BY <1>1, <1>2, <1>3 DEF WorkInv, SmokeInv
<1>5. pc[l][0] = "loop" => Committed = ShardIds
  BY <1>4 DEF Missing, Committed
<1>6. Counts(done[l][0], Committed) /\ (pc[l][0] = "paused" => done[l][0] # <<>>)
  BY <1>2, <1>3 DEF WorkInv
<1> QED BY <1>1, <1>2, <1>5, <1>6 DEF Summary

LEMMA LedgerConclude ==
  ASSUME TypeInv, LedgerInv, NEW l \in Launches, Conclude(l, 0)
  PROVE  LedgerInv'
<1>1. (\A k \in Launches : HolderInv(k)') /\ LockInv'
  BY ConcludeFacts, LedgerEnds DEF Ranks
<1>2. Committed' = Committed
  BY ConcludeFacts DEF Committed
<1>3. CommittedPrefix' /\ OneRuntime'
  BY <1>2, ConcludeFacts DEF LedgerInv, CommittedPrefix, OneRuntime
<1>4. StatusHonest'
  BY <1>2, ConcludeFacts DEF StatusHonest, Counts, Summary
<1> QED BY <1>1, <1>3, <1>4 DEF LedgerInv

------------------------------------------------------------------------------
\* The invariant.

LEMMA LedgerInit == Init => LedgerInv
<1> SUFFICES ASSUME Init PROVE LedgerInv
  OBVIOUS
<1>1. Committed = {} /\ lock = None /\ status = None
  BY DEF Init, Committed
<1>2. \A l \in Launches : pc[l][0] = "off" /\ done[l][0] = <<>> /\ cursor[l][0] = 0
  BY DEF Init, Ranks
<1>3. LockInv
  BY <1>1, <1>2, NoneAssumption DEF LockInv, Holding
<1>4. \A l \in Launches : HolderInv(l)
  BY <1>2 DEF HolderInv, FreshInv, ScanInv, WorkInv, Working, Holding
<1> QED BY <1>1, <1>3, <1>4 DEF LedgerInv, CommittedPrefix, OneRuntime, StatusHonest

LEMMA LedgerStep ==
  ASSUME SkipsCommitted, TypeInv, ExactInv, LedgerInv, [Next]_vars
  PROVE  LedgerInv'
<1>1. ASSUME NEW l \in Launches, NEW ids \in [Ranks -> Identities], Start(l, ids)
      PROVE  LedgerInv'
  BY <1>1, LedgerStart
<1>2. ASSUME NEW l \in Launches, RankStep(l, 1)
      PROVE  LedgerInv'
  <2>1. CASE Ends(l, 1)
    <3>1. UNCHANGED <<receipts, status>>
      BY <1>2, <2>1 DEF RankStep, OfferIdentity, CheckPeers, BeginPhase, Export, Merge, PassBarrier,
         Conclude, HearCommitted, Receive, HearPause, Plan, Quits, disk
    <3> QED BY <2>1, <3>1, LedgerEnds, DiskSame DEF LedgerInv, Ranks
  <2>2. CASE ~Ends(l, 1)
    BY <1>2, <2>2, LedgerRankOne
  <2> QED BY <2>1, <2>2
<1>3. ASSUME NEW l \in Launches, RankStep(l, 0)
      PROVE  LedgerInv'
  <2>1. CASE Quits(l, 0)
    BY <2>1, LedgerQuits DEF Ranks
  <2>2. CASE ~Quits(l, 0)
    <3>1. \/ OfferIdentity(l, 0) \/ CheckPeers(l, 0) \/ BeginPhase(l, 0) \/ Export(l, 0)
          \/ Merge(l, 0) \/ PassBarrier(l, 0) \/ Conclude(l, 0)
          \/ TakeLock(l) \/ ScanShard(l) \/ ShareCommitted(l) \/ Forward(l) \/ PollPause(l)
      BY <1>3 DEF RankStep
    <3> QED
      BY <2>2, <3>1, LedgerHandshake, LedgerTakeLock, LedgerScan, LedgerShare, LedgerBegin,
         LedgerForward, LedgerMerge, LedgerPassBarrier, LedgerPoll, LedgerConclude
  <2> QED BY <2>1, <2>2
<1>4. ASSUME NEW l \in Launches, NEW r \in Ranks, TimeOut(l, r) \/ Crash(l, r)
      PROVE  LedgerInv'
  BY <1>4, LedgerQuits DEF TimeOut, Crash
<1>5. CASE UNCHANGED vars
  <2>1. UNCHANGED <<pc, id, done, todo, pilot, phase, cursor, lock, receipts, status>>
    BY <1>5 DEF vars, memory, disk
  <2> QED BY <2>1, LedgerSame DEF Same
<1> QED BY <1>1, <1>2, <1>3, <1>4, <1>5 DEF Next, Ranks

LEMMA RootInv ==
  ASSUME SkipsCommitted
  PROVE  Spec => [](TypeInv /\ ExactInv /\ LedgerInv)
<1>1. Spec => []TypeInv
  BY TypeInit, TypeStep, PTL DEF Spec
<1>2. Spec => []ExactInv
  BY <1>1, ExactInit, ExactStep, PTL DEF Spec
<1>3. TypeInv /\ ExactInv /\ LedgerInv /\ [Next]_vars => LedgerInv'
  BY LedgerStep
<1>4. Spec => []LedgerInv
  BY <1>1, <1>2, <1>3, LedgerInit, PTL DEF Spec
<1> QED BY <1>1, <1>2, <1>4, PTL

\* When committed shards are skipped, the receipts on disk are a prefix of the
\* manifest whatever launches crash, pause or contend.
THEOREM PrefixCommitted == ASSUME SkipsCommitted PROVE Spec => []CommittedPrefix
BY RootInv, PTL DEF LedgerInv

\* Launches under different runtimes never both leave receipts in one root.
THEOREM RuntimesNeverMix == ASSUME SkipsCommitted PROVE Spec => []OneRuntime
BY RootInv, PTL DEF LedgerInv

\* record-status.json never claims a shard that has no receipt, nor completion
\* before the last shard.
THEOREM StatusNeverLies == ASSUME SkipsCommitted PROVE Spec => []StatusHonest
BY RootInv, PTL DEF LedgerInv

------------------------------------------------------------------------------
\* What a step does to the output root.

Quiet ==
  /\ UNCHANGED <<receipts, status>>
  /\ \/ lock' = lock
     \/ lock = None /\ lock' # None
     \/ lock # None /\ lock' = None

Commits(l) == Merge(l, 0) /\ ~Quits(l, 0) /\ ~phase[l][0].smoke

LEMMA QuietEnds ==
  ASSUME NEW l \in Launches, NEW r \in Ranks, Ends(l, r), UNCHANGED <<receipts, status>>
  PROVE  Quiet
BY NoneAssumption DEF Ends, Quiet

LEMMA StepKinds ==
  ASSUME [Next]_vars
  PROVE  Quiet \/ \E l \in Launches : Commits(l) \/ Conclude(l, 0)
<1>1. ASSUME NEW l \in Launches, NEW ids \in [Ranks -> Identities], Start(l, ids)
      PROVE  Quiet
  BY <1>1 DEF Start, Quiet, disk
<1>2. ASSUME NEW l \in Launches, NEW r \in Ranks, Quits(l, r)
      PROVE  Quiet
  BY <1>2, QuietEnds DEF Quits, disk
<1>3. ASSUME NEW l \in Launches, NEW r \in Ranks, RankStep(l, r), ~Quits(l, r)
      PROVE  Quiet \/ Commits(l) \/ Conclude(l, 0)
  <2>1. CASE \/ OfferIdentity(l, r) \/ CheckPeers(l, r) \/ BeginPhase(l, r) \/ Export(l, r)
             \/ PassBarrier(l, r)
    BY <1>3, <2>1 DEF OfferIdentity, CheckPeers, BeginPhase, Export, PassBarrier, Quiet, disk
  <2>2. CASE Merge(l, r)
    <3>1. CASE r = 0 /\ ~phase[l][0].smoke
      BY <1>3, <2>2, <3>1 DEF Commits
    <3>2. CASE ~(r = 0 /\ ~phase[l][0].smoke)
      <4>1. lock' = lock /\ UNCHANGED <<receipts, status>>
        BY <1>3, <2>2, <3>2 DEF Merge, Publish, disk
      <4> QED BY <4>1 DEF Quiet
    <3> QED BY <3>1, <3>2
  <2>3. CASE Conclude(l, r)
    <3>1. CASE r = 0
      BY <2>3, <3>1
    <3>2. CASE r # 0
      BY <2>3, <3>2, QuietEnds DEF Conclude
    <3> QED BY <3>1, <3>2
  <2>4. CASE r = 0 /\ (TakeLock(l) \/ ScanShard(l) \/ ShareCommitted(l) \/ Forward(l) \/ PollPause(l))
    BY <1>3, <2>4, NoneAssumption
       DEF TakeLock, ScanShard, ShareCommitted, Forward, PollPause, Quiet, disk
  <2>5. CASE r = 1 /\ (HearCommitted(l) \/ Receive(l) \/ HearPause(l))
    BY <1>3, <2>5 DEF HearCommitted, Receive, HearPause, Quiet, disk
  <2> QED BY <1>3, <2>1, <2>2, <2>3, <2>4, <2>5 DEF RankStep
<1>4. ASSUME NEW l \in Launches, NEW r \in Ranks, TimeOut(l, r) \/ Crash(l, r)
      PROVE  Quiet
  BY <1>2, <1>4 DEF TimeOut, Crash
<1>5. CASE UNCHANGED vars
  BY <1>5 DEF vars, disk, Quiet
<1> QED BY <1>1, <1>2, <1>3, <1>4, <1>5 DEF Next

\* A committed receipt is never rewritten.
THEOREM CommittedOnce == ASSUME SkipsCommitted PROVE Spec => CommitOnce
<1>1. TypeInv /\ ExactInv /\ LedgerInv /\ [Next]_vars =>
        [\A s \in Committed : receipts'[s] = receipts[s]]_receipts
  <2> SUFFICES ASSUME TypeInv, ExactInv, LedgerInv, [Next]_vars, receipts' # receipts,
                      NEW t \in Committed
               PROVE  receipts'[t] = receipts[t]
    OBVIOUS
  <2>1. PICK l \in Launches : Commits(l)
    BY StepKinds DEF Quiet, Conclude
  <2>2. PICK s, receipt : s \in Missing /\ receipts' = [receipts EXCEPT ![s] = receipt]
    BY <2>1, CommitFacts DEF Commits
  <2>3. t # s /\ t \in ShardIds
    BY <2>2 DEF Missing, Committed
  <2> QED BY <2>2, <2>3 DEF TypeInv, TypeOK, DiskOK
<1> QED BY <1>1, RootInv, PTL DEF Spec, CommitOnce

------------------------------------------------------------------------------
\* The refinement: every step is a ledger step or leaves the ledger alone.

LEMMA CommitMaps ==
  ASSUME TypeInv, ExactInv, LedgerInv, NEW l \in Launches, Commits(l)
  PROVE  Ledger!Next
<1> DEFINE s == phase[l][0].shard
           rt == id[l][0].rt
           exact == [q \in ShardIds |-> [r \in Ranks |-> Exactly([shard |-> q, smoke |-> FALSE])]]
<1>1. /\ lock = l /\ s \in Missing /\ \A t \in Missing : s <= t
      /\ \A t \in Committed : receipts[t].rt = rt
      /\ status' = status
  BY CommitFacts DEF Commits
<1>2. receipts' = [receipts EXCEPT ![s] =
        [rt |-> rt, obs |-> [r \in Ranks |-> Exactly([shard |-> s, smoke |-> FALSE])]]]
  BY CommitFacts DEF Commits
<1>3. lock' = lock /\ lock # None
  BY <1>1, NoneAssumption DEF Commits, Merge
<1>4. rt \in Runtimes
  BY DEF Commits, Merge, TypeInv, Identified, Identities, Ranks
<1> HIDE DEF rt, s
<1>5. s \in ShardIds \ Ledger!Present /\ \A t \in ShardIds \ Ledger!Present : s <= t
  BY <1>1 DEF Missing, Committed, Ledger!Present
<1>6. \A t \in Ledger!Present : receipts[t].rt = rt
  BY <1>1 DEF Committed, Ledger!Present
<1>7. receipts' = [receipts EXCEPT ![s] = [rt |-> rt, obs |-> exact[s]]]
  BY <1>2, <1>5
<1> HIDE DEF exact
<1>8. Ledger!CommitNext(rt)
  BY <1>1, <1>3, <1>5, <1>6, <1>7 DEF Ledger!CommitNext, exact
<1> QED BY <1>4, <1>8 DEF Ledger!Next

LEMMA CloseMaps ==
  ASSUME TypeInv, LedgerInv, NEW l \in Launches, Conclude(l, 0)
  PROVE  Ledger!Next
<1> DEFINE list == done[l][0]
           k == Len(list)
           state == Summary(l, 0).state
<1>1. /\ lock = l /\ Counts(list, Committed)
      /\ status' = Summary(l, 0) /\ Ends(l, 0) /\ UNCHANGED receipts
      /\ state = "RECORD_LOCAL_COMPLETE" => Committed = ShardIds
      /\ state = "PAUSED_AT_RECORD_SHARD" => list # <<>>
  BY ConcludeFacts
<1>2. /\ list \in Seq(ShardIds) /\ k \in Nat /\ list = [i \in 1 .. k |-> list[i]]
      /\ list # <<>> => k # 0
  <2>1. list \in Seq(ShardIds)
    BY DEF TypeInv, TypeOK, MemoryOK, Ranks
  <2> HIDE DEF list
  <2> QED BY <2>1, LenProperties, EmptySeq
<1>3. status' = [state |-> state, completed |-> list]
  BY <1>1 DEF Summary
<1>4. state \in {"PAUSED_AT_RECORD_SHARD", "RECORD_LOCAL_COMPLETE"}
  BY DEF Summary
<1>5. lock # None /\ lock' = None
  BY <1>1, NoneAssumption DEF Ends
<1> HIDE DEF list, state
<1>6. list = [i \in 1 .. k |-> i - 1]
  BY <1>1, <1>2 DEF Counts
<1>7. Committed = 0 .. (k - 1)
  <2>1. \A x \in Committed : x \in 0 .. (k - 1)
    BY <1>1, <1>2 DEF Counts, Listed
  <2>2. ASSUME NEW x \in 0 .. (k - 1) PROVE x \in Committed
    <3>1. x + 1 \in 1 .. Len(list) /\ list[x + 1] = x
      BY <1>1, <1>2 DEF Counts
    <3> QED BY <1>1, <3>1 DEF Counts, Listed
  <2> QED BY <2>1, <2>2
<1>8. k \in {s + 1 : s \in ShardIds} \cup {0}
  <2>1. CASE k # 0
    <3>1. k - 1 \in ShardIds
      BY <1>2, <1>7, <2>1 DEF Committed
    <3> QED BY <1>2, <3>1
  <2> QED BY <2>1
<1>9. Ledger!Present = Committed
  BY DEF Ledger!Present, Committed
<1> HIDE DEF k
<1>10. list # <<>> => Committed # {}
  <2>1. k # 0 => 0 \in 0 .. (k - 1)
    BY <1>2
  <2> QED BY <1>2, <1>7, <2>1
<1>11. Ledger!Close(state)
  BY <1>1, <1>3, <1>5, <1>6, <1>7, <1>8, <1>9, <1>10 DEF Ledger!Close
<1> QED BY <1>4, <1>11 DEF Ledger!Next

LEMMA QuietMaps ==
  ASSUME Quiet
  PROVE  [Ledger!Next]_(Ledger!ledgerVars)
BY DEF Quiet, Ledger!Next, Ledger!Open, Ledger!Abandon, Ledger!ledgerVars

\* The capture implements the ledger: nobody who reads the output root can tell
\* the two-rank pipeline, its crashes and its restarts from one careful writer.
THEOREM CaptureImplementsLedger == ASSUME SkipsCommitted PROVE Spec => ImplementsLedger
<1>1. Init => Ledger!Init
  BY DEF Init, Ledger!Init
<1>2. TypeInv /\ ExactInv /\ LedgerInv /\ [Next]_vars => [Ledger!Next]_(Ledger!ledgerVars)
  BY StepKinds, CommitMaps, CloseMaps, QuietMaps
<1> QED BY <1>1, <1>2, RootInv, PTL DEF Spec, ImplementsLedger, Ledger!Spec

------------------------------------------------------------------------------
\* The completion driver does not skip committed shards.  Its root is a gapless run
\* from FirstShard on, and what rank 0 of the holder lists is two such runs.

\* The shards of the tail from the first up to, not including, n: as a set, in order.
Below(n) == FirstShard .. (n - 1)
Run(n) == [i \in 1 .. (n - FirstShard) |-> FirstShard + i - 1]
Reaches == FirstShard .. NumShards

\* Receipts on disk have no gap from the first shard of the tail on.
TailGapless == \A s \in Committed : FirstShard <= s /\ \A t \in FirstShard .. s : t \in Committed

\* The scan lists what is on disk up to its cursor.
TailScan(l, found) ==
  /\ cursor[l][0] <= NumShards
  /\ done[l][0] = Run(found)
  /\ {s \in Committed : s < cursor[l][0]} = Below(found)
  /\ \A s \in Committed : s < cursor[l][0] => receipts[s].rt = id[l][0].rt

\* It found the shards below found, captured again those below captured, and is at
\* the next one or before it.
TailWork(l, found, captured) ==
  LET published == IF InPhase(l, {"barrier"}) THEN captured + 1 ELSE captured IN
  /\ done[l][0] = Run(found) \o Run(captured)
  /\ published <= NumShards
  /\ Committed = Below(IF published < found THEN found ELSE published)
  /\ \A s \in Committed : receipts[s].rt = id[l][0].rt
  /\ IF id[l][0].mode = "smoke"
     THEN SmokeInv(l)
     ELSE IF InPhase(l, {"forward", "gather", "barrier"})
          THEN phase[l][0].shard = captured /\ todo[l][0] = (captured + 1) .. (NumShards - 1)
          ELSE todo[l][0] = captured .. (NumShards - 1)
  /\ pc[l][0] \in {"poll", "paused"} => FirstShard < captured

TailHolder(l) ==
  /\ FreshInv(l)
  /\ pc[l][0] = "scan" => \E found \in Reaches : TailScan(l, found)
  /\ pc[l][0] \in Working => \E found, captured \in Reaches : TailWork(l, found, captured)

TailInv ==
  /\ LockInv
  /\ \A l \in Launches : TailHolder(l)
  /\ TailGapless

LEMMA RunFacts ==
  ASSUME NEW n \in Reaches
  PROVE  /\ Run(n) \in Seq(ShardIds) /\ Len(Run(n)) = n - FirstShard
         /\ \A i \in 1 .. (n - FirstShard) : Run(n)[i] = FirstShard + i - 1
         /\ n - FirstShard \in Nat
<1> DEFINE k == n - FirstShard
<1>1. k \in Nat /\ FirstShard \in Nat /\ n <= NumShards /\ NumShards \in Nat /\ n \in Nat
  BY ManifestAssumption, DriverAssumption DEF Reaches, ShardIds, ValidManifest
<1>2. \A i \in 1 .. k : FirstShard + i - 1 \in ShardIds
  BY <1>1 DEF ShardIds
<1> HIDE DEF k
<1>3. [i \in 1 .. k |-> FirstShard + i - 1] \in [1 .. k -> ShardIds]
  BY <1>2
<1>4. Run(n) = [i \in 1 .. k |-> FirstShard + i - 1]
  BY DEF Run, k
<1>5. Run(n) \in Seq(ShardIds)
  <2>1. Seq(ShardIds) = UNION {[1 .. j -> ShardIds] : j \in Nat}
    BY SeqDef
  <2>2. [1 .. k -> ShardIds] \in {[1 .. j -> ShardIds] : j \in Nat}
    BY <1>1
  <2>3. Run(n) \in [1 .. k -> ShardIds]
    BY <1>3, <1>4
  <2> HIDE DEF Run
  <2> QED BY <2>1, <2>2, <2>3, Zenon
<1>6. Len(Run(n)) = k
  <2>1. 1 .. k = 1 .. Len(Run(n)) /\ Len(Run(n)) \in Nat
    BY <1>4, <1>5, LenProperties
  <2> QED BY <1>1, <2>1
<1> QED BY <1>1, <1>4, <1>5, <1>6 DEF k

\* Listing the next shard makes the list the longer run.
LEMMA RunAppend ==
  ASSUME NEW n \in Reaches, n < NumShards
  PROVE  n \in ShardIds /\ n + 1 \in Reaches /\ Append(Run(n), n) = Run(n + 1)
<1> DEFINE k == n - FirstShard
<1>1. n \in ShardIds /\ n + 1 \in Reaches /\ FirstShard \in Nat /\ n \in Nat /\ k \in Nat
      /\ (n + 1) - FirstShard = k + 1
  BY ManifestAssumption, DriverAssumption DEF Reaches, ShardIds, ValidManifest
<1>2. /\ Run(n) \in Seq(ShardIds) /\ Len(Run(n)) = k
      /\ \A i \in 1 .. k : Run(n)[i] = FirstShard + i - 1
  BY RunFacts
<1>3. /\ Run(n + 1) \in Seq(ShardIds) /\ Len(Run(n + 1)) = k + 1
      /\ \A i \in 1 .. (k + 1) : Run(n + 1)[i] = FirstShard + i - 1
  BY <1>1, RunFacts
<1>4. FirstShard + (k + 1) - 1 = n
  BY <1>1
<1> HIDE DEF k
<1>5. /\ Append(Run(n), n) \in Seq(ShardIds) /\ Len(Append(Run(n), n)) = k + 1
      /\ \A i \in 1 .. k : Append(Run(n), n)[i] = Run(n)[i]
      /\ Append(Run(n), n)[k + 1] = n
  BY <1>1, <1>2, AppendProperties
<1>6. \A i \in 1 .. (k + 1) : Append(Run(n), n)[i] = Run(n + 1)[i]
  BY <1>1, <1>2, <1>3, <1>4, <1>5
<1>7. Append(Run(n), n) = Run(n + 1)
  BY <1>3, <1>5, <1>6, SeqEqual
<1> QED BY <1>1, <1>7

LEMMA RunEmpty == FirstShard \in Reaches /\ Run(FirstShard) = <<>>
<1>1. FirstShard \in Reaches
  BY ManifestAssumption, DriverAssumption DEF Reaches, ShardIds, ValidManifest
<1>2. Run(FirstShard) \in Seq(ShardIds) /\ Len(Run(FirstShard)) = FirstShard - FirstShard
  BY <1>1, RunFacts
<1>3. FirstShard - FirstShard = 0
  BY DriverAssumption DEF ShardIds
<1> QED BY <1>1, <1>2, <1>3, EmptySeq

LEMMA RunsAppend ==
  ASSUME NEW found \in Reaches, NEW n \in Reaches, n < NumShards
  PROVE  Append(Run(found) \o Run(n), n) = Run(found) \o Run(n + 1)
<1>1. /\ Run(found) \in Seq(ShardIds) /\ Run(n) \in Seq(ShardIds)
      /\ n \in ShardIds /\ Append(Run(n), n) = Run(n + 1) /\ <<n>> \in Seq(ShardIds)
  BY RunFacts, RunAppend
<1>2. Append(Run(n), n) = Run(n) \o <<n>>
  BY <1>1, AppendIsConcat
<1>3. Run(found) \o Run(n) \in Seq(ShardIds)
  BY <1>1, ConcatProperties
<1>4. Append(Run(found) \o Run(n), n) = (Run(found) \o Run(n)) \o <<n>>
  BY <1>1, <1>3, AppendIsConcat
<1>5. (Run(found) \o Run(n)) \o <<n>> = Run(found) \o (Run(n) \o <<n>>)
  BY <1>1, ConcatAssociative
<1> QED BY <1>1, <1>2, <1>4, <1>5

\* An interval of the tail determines its end.
LEMMA BelowEnds ==
  ASSUME NEW m \in Reaches, NEW n \in Reaches, Below(m) = Below(n)
  PROVE  m = n
<1>1. FirstShard \in Nat /\ m \in Nat /\ n \in Nat /\ FirstShard <= m /\ FirstShard <= n
  BY ManifestAssumption, DriverAssumption DEF Reaches, ShardIds, ValidManifest
<1>2. CASE m < n
  <2>1. m \in Below(n) /\ m \notin Below(m)
    BY <1>1, <1>2 DEF Below
  <2> QED BY <2>1
<1>3. CASE n < m
  <2>1. n \in Below(m) /\ n \notin Below(n)
    BY <1>1, <1>3 DEF Below
  <2> QED BY <2>1
<1> QED BY <1>1, <1>2, <1>3

\* What is committed before a committed shard.
LEMMA TailBelow ==
  ASSUME TailGapless, NEW s \in Committed
  PROVE  {t \in Committed : t < s} = Below(s) /\ s \in Reaches
<1>1. NumShards \in Nat /\ FirstShard \in Nat /\ s \in ShardIds /\ \A t \in Committed : t \in Nat
  BY ManifestAssumption, DriverAssumption DEF Committed, ShardIds, ValidManifest
<1>2. FirstShard <= s /\ s \in Reaches
  BY <1>1 DEF TailGapless, Reaches, ShardIds
<1>3. ASSUME NEW t \in Below(s) PROVE t \in Committed /\ t < s
  <2>1. t \in FirstShard .. s /\ t < s
    BY <1>1 DEF Below, ShardIds
  <2> QED BY <2>1 DEF TailGapless
<1>4. ASSUME NEW t \in Committed, t < s PROVE t \in Below(s)
  BY <1>1, <1>4 DEF Below, ShardIds, TailGapless
<1> QED BY <1>2, <1>3, <1>4

------------------------------------------------------------------------------
\* The completion driver: what holds between its steps.

LEMMA TailHolderSame ==
  ASSUME NEW k \in Launches, TailHolder(k), Same(k), UNCHANGED receipts
  PROVE  TailHolder(k)'
<1>1. Committed' = Committed
  BY DEF Committed
<1>2. FreshInv(k)'
  BY DEF TailHolder, FreshInv, Same
<1>3. ASSUME NEW found \in Reaches, pc[k][0] = "scan", TailScan(k, found)
      PROVE  TailScan(k, found)'
  BY <1>1, <1>3 DEF TailScan, Same
<1>4. ASSUME NEW found \in Reaches, NEW captured \in Reaches, pc[k][0] \in Working,
             TailWork(k, found, captured)
      PROVE  TailWork(k, found, captured)'
  <2>1. id'[k][0] = id[k][0]
    BY <1>4 DEF Same, Working, Holding
  <2>2. /\ InPhase(k, {"barrier"})' = InPhase(k, {"barrier"})
        /\ InPhase(k, {"forward", "gather", "barrier"})' = InPhase(k, {"forward", "gather", "barrier"})
        /\ SmokeInv(k)' = SmokeInv(k)
    BY DEF InPhase, SmokeInv, Same
  <2> QED BY <1>1, <1>4, <2>1, <2>2 DEF TailWork, Same
<1> QED BY <1>2, <1>3, <1>4 DEF TailHolder, Same, Reaches

LEMMA TailLocal ==
  ASSUME TailInv, NEW l \in Launches, \A k \in Launches \ {l} : Same(k),
         UNCHANGED receipts, LockInv', TailHolder(l)'
  PROVE  TailInv'
<1>1. ASSUME NEW k \in Launches PROVE TailHolder(k)'
  BY <1>1, TailHolderSame DEF TailInv
<1>2. TailGapless'
  BY DEF TailInv, TailGapless, Committed
<1> QED BY <1>1, <1>2 DEF TailInv

LEMMA TailSame ==
  ASSUME TailInv, \A k \in Launches : Same(k), UNCHANGED <<receipts, lock>>
  PROVE  TailInv'
<1>1. ASSUME NEW k \in Launches PROVE TailHolder(k)'
  BY <1>1, TailHolderSame DEF TailInv
<1>2. LockInv'
  BY DEF TailInv, LockInv, Same
<1>3. TailGapless'
  BY DEF TailInv, TailGapless, Committed
<1> QED BY <1>1, <1>2, <1>3 DEF TailInv

LEMMA TailEnds ==
  ASSUME TypeInv, TailInv, NEW l \in Launches, NEW r \in Ranks, Ends(l, r), UNCHANGED receipts
  PROVE  TailInv'
<1>1. /\ \A k \in Launches \ {l} : Same(k)
      /\ r = 0 => pc'[l][0] = "off" /\ done'[l][0] = <<>> /\ cursor'[l][0] = 0
      /\ r = 1 => Same(l)
      /\ LockInv'
  BY EndsSame DEF TailInv
<1>2. TailHolder(l)'
  <2>1. CASE r = 0
    BY <1>1, <2>1 DEF TailHolder, FreshInv, Working, Holding
  <2>2. CASE r = 1
    BY <1>1, <2>2, TailHolderSame DEF TailInv
  <2> QED BY <2>1, <2>2 DEF Ranks
<1> QED BY <1>1, <1>2, TailLocal

LEMMA TailStart ==
  ASSUME TypeInv, TailInv, NEW l \in Launches,
         NEW ids \in [Ranks -> Identities], Start(l, ids)
  PROVE  TailInv'
<1>1. /\ pc[l][0] = "off" /\ pc' = [pc EXCEPT ![l] = [r \in Ranks |-> "init"]]
      /\ id' = [id EXCEPT ![l] = ids]
      /\ UNCHANGED <<done, todo, pilot, phase, cursor, lock, receipts>>
  BY DEF Start, disk, Ranks
<1>2. \A k \in Launches \ {l} : Same(k)
  BY <1>1 DEF Same, TypeInv, TypeOK, MemoryOK
<1>3. pc'[l][0] = "init"
  BY <1>1 DEF TypeInv, TypeOK, MemoryOK, Ranks
<1>4. TailHolder(l)'
  BY <1>1, <1>3 DEF TailInv, TailHolder, FreshInv, Working, Holding
<1>5. LockInv'
  BY <1>1, <1>2, <1>3, LockKept DEF TailInv, Holding
<1> QED BY <1>1, <1>2, <1>4, <1>5, TailLocal

LEMMA TailHandshake ==
  ASSUME TypeInv, TailInv, NEW l \in Launches,
         OfferIdentity(l, 0) \/ CheckPeers(l, 0), ~Quits(l, 0)
  PROVE  TailInv'
<1>1. /\ pc[l][0] \in {"init", "peers"}
      /\ Goto(l, 0, "peers") \/ Goto(l, 0, "lock")
      /\ UNCHANGED <<id, done, todo, pilot, phase, cursor, lock, receipts>>
  BY DEF OfferIdentity, CheckPeers, memory, disk
<1>2. pc'[l][0] \in {"peers", "lock"} /\ \A k \in Launches \ {l} : pc'[k] = pc[k]
  BY <1>1, GotoZero
<1>3. \A k \in Launches \ {l} : Same(k)
  BY <1>1, <1>2 DEF Same
<1>4. TailHolder(l)'
  BY <1>1, <1>2 DEF TailInv, TailHolder, FreshInv, Working, Holding
<1>5. LockInv'
  BY <1>1, <1>2, <1>3, LockKept DEF TailInv, Holding
<1> QED BY <1>1, <1>3, <1>4, <1>5, TailLocal

LEMMA TailTakeLock ==
  ASSUME TypeInv, TailInv, NEW l \in Launches, TakeLock(l), ~Quits(l, 0)
  PROVE  TailInv'
<1>1. /\ pc[l][0] = "lock" /\ lock = None /\ lock' = l /\ Goto(l, 0, "scan")
      /\ UNCHANGED <<id, done, todo, pilot, phase, cursor, receipts>>
  BY DEF TakeLock, memory, disk
<1>2. pc'[l][0] = "scan" /\ \A k \in Launches \ {l} : pc'[k] = pc[k]
  BY <1>1, GotoZero
<1>3. \A k \in Launches \ {l} : Same(k)
  BY <1>1, <1>2 DEF Same
<1>4. TailScan(l, FirstShard)'
  <2>1. done'[l][0] = <<>> /\ cursor'[l][0] = 0
    BY <1>1 DEF TailInv, TailHolder, FreshInv
  <2>2. {s \in Committed' : s < cursor'[l][0]} = {} /\ Below(FirstShard) = {}
    BY <2>1, DriverAssumption DEF Committed, ShardIds, Below
  <2>3. cursor'[l][0] <= NumShards
    BY <2>1, ManifestAssumption DEF ValidManifest
  <2>4. \A s \in Committed' : ~(s < cursor'[l][0])
    BY <2>2
  <2> QED BY <2>1, <2>2, <2>3, <2>4, RunEmpty DEF TailScan
<1>5. TailHolder(l)'
  BY <1>2, <1>4, RunEmpty DEF TailHolder, FreshInv, Working, Holding, Reaches
<1>6. LockInv'
  BY <1>1, <1>2, NoneAssumption DEF TailInv, LockInv, Holding
<1> QED BY <1>1, <1>3, <1>5, <1>6, TailLocal

LEMMA TailScanShard ==
  ASSUME TypeInv, TailInv, NEW l \in Launches, ScanShard(l), ~Quits(l, 0)
  PROVE  TailInv'
<1> DEFINE s == cursor[l][0]
           list == done[l][0]
<1>1. /\ pc[l][0] = "scan" /\ s \in Nat /\ s < NumShards
      /\ cursor' = [cursor EXCEPT ![l][0] = s + 1]
      /\ done' = [done EXCEPT ![l][0] = IF receipts[s] # None THEN Append(@, s) ELSE @]
      /\ receipts[s] = None \/ ValidReceipt(s, receipts[s], id[l][0].rt)
      /\ UNCHANGED <<pc, id, todo, pilot, phase, lock, receipts>>
  BY DEF ScanShard, disk, TypeInv, TypeOK, MemoryOK, Ranks
<1>2. /\ cursor'[l][0] = s + 1
      /\ done'[l][0] = IF receipts[s] # None THEN Append(list, s) ELSE list
  BY <1>1 DEF TypeInv, TypeOK, MemoryOK, Ranks
<1>3. \A k \in Launches \ {l} : Same(k)
  BY <1>1 DEF Same, TypeInv, TypeOK, MemoryOK
<1>4. s \in ShardIds /\ NumShards \in Nat /\ list \in Seq(ShardIds)
  BY <1>1, ManifestAssumption DEF ShardIds, ValidManifest, TypeInv, TypeOK, MemoryOK, Ranks
<1>5. PICK found \in Reaches : TailScan(l, found)
  BY <1>1 DEF TailInv, TailHolder
<1>6. /\ list = Run(found) /\ {t \in Committed : t < s} = Below(found)
      /\ \A t \in Committed : t < s => receipts[t].rt = id[l][0].rt
      /\ TailGapless
  BY <1>5 DEF TailScan, TailInv
<1>7. Committed' = Committed /\ \A t \in Committed : t \in Nat
  BY <1>1 DEF Committed, ShardIds
<1> HIDE DEF s, list
<1>8. \A t \in Committed : t < s + 1 => receipts[t].rt = id[l][0].rt
  <2> SUFFICES ASSUME NEW t \in Committed, t < s + 1 PROVE receipts[t].rt = id[l][0].rt
    OBVIOUS
  <2>1. CASE t < s
    BY <1>6, <2>1
  <2>2. CASE t = s
    BY <1>1, <2>2 DEF ValidReceipt, Committed
  <2> QED BY <1>1, <1>7, <2>1, <2>2
<1>9. \E m \in Reaches : done'[l][0] = Run(m) /\ {t \in Committed : t < s + 1} = Below(m)
  <2>1. CASE receipts[s] # None
    <3>1. s \in Committed
      BY <1>4, <2>1 DEF Committed
    <3>2. Below(s) = {t \in Committed : t < s} /\ s \in Reaches
      BY <1>6, <3>1, TailBelow
    <3>3. found = s
      BY <1>5, <1>6, <3>2, BelowEnds
    <3>4. s + 1 \in Reaches /\ Append(Run(s), s) = Run(s + 1)
      BY <1>1, <3>2, RunAppend
    <3>5. {t \in Committed : t < s + 1} = Below(s) \cup {s}
      BY <1>1, <1>7, <3>1, <3>2
    <3>6. Below(s) \cup {s} = Below(s + 1)
      BY <1>1, <3>2, DriverAssumption DEF Below, Reaches, ShardIds
    <3> QED BY <1>2, <1>6, <2>1, <3>3, <3>4, <3>5, <3>6
  <2>2. CASE receipts[s] = None
    <3>1. s \notin Committed
      BY <2>2 DEF Committed
    <3>2. {t \in Committed : t < s} = {t \in Committed : t < s + 1}
      BY <1>1, <1>7, <3>1
    <3> QED BY <1>2, <1>5, <1>6, <2>2, <3>2
  <2> QED BY <2>1, <2>2
<1>10. PICK m \in Reaches : done'[l][0] = Run(m) /\ {t \in Committed : t < s + 1} = Below(m)
  BY <1>9
<1>11. TailScan(l, m)'
  <2>1. cursor'[l][0] <= NumShards
    BY <1>1, <1>2, <1>4
  <2>2. {t \in Committed' : t < cursor'[l][0]} = Below(m)
    BY <1>2, <1>7, <1>10
  <2>3. \A t \in Committed' : t < cursor'[l][0] => receipts'[t].rt = id'[l][0].rt
    BY <1>1, <1>2, <1>7, <1>8
  <2> QED BY <1>10, <2>1, <2>2, <2>3 DEF TailScan
<1>12. TailHolder(l)'
  BY <1>1, <1>10, <1>11 DEF TailHolder, FreshInv, Working, Holding, Reaches
<1>13. LockInv'
  BY <1>1, <1>3, LockKept DEF TailInv
<1> QED BY <1>1, <1>3, <1>12, <1>13, TailLocal

\* The phase list is planned: found stays what it is, nothing is captured yet.
LEMMA TailShare ==
  ASSUME ~SkipsCommitted, TypeInv, TailInv, NEW l \in Launches, ShareCommitted(l)
  PROVE  TailInv'
<1> DEFINE list == done[l][0]
           mode == id[l][0].mode
<1>1. /\ pc[l][0] = "scan" /\ cursor[l][0] = NumShards
      /\ Goto(l, 0, "loop")
      /\ done' = [done EXCEPT ![l][0] = list]
      /\ todo' = [todo EXCEPT ![l][0] = PlannedTodo(mode, list)]
      /\ pilot' = [pilot EXCEPT ![l][0] = PlannedPilot(mode, list)]
      /\ UNCHANGED <<id, phase, cursor, lock, receipts>>
  BY DEF ShareCommitted, Plan, disk
<1>2. pc'[l][0] = "loop" /\ \A k \in Launches \ {l} : pc'[k] = pc[k]
  BY <1>1, GotoZero
<1>3. /\ done'[l][0] = list /\ todo'[l][0] = PlannedTodo(mode, list)
      /\ pilot'[l][0] = PlannedPilot(mode, list)
  BY <1>1 DEF TypeInv, TypeOK, MemoryOK, Ranks
<1>4. \A k \in Launches \ {l} : Same(k)
  BY <1>1, <1>2 DEF Same, TypeInv, TypeOK, MemoryOK
<1>5. Committed' = Committed /\ Committed = {t \in Committed : t < NumShards}
  BY <1>1, ManifestAssumption DEF Committed, ShardIds, ValidManifest
<1>6. PICK found \in Reaches : TailScan(l, found)
  BY <1>1 DEF TailInv, TailHolder
<1>7. /\ list = Run(found) /\ Committed = Below(found)
      /\ \A t \in Committed : receipts[t].rt = id[l][0].rt
  BY <1>1, <1>5, <1>6 DEF TailScan
<1>8. Run(found) \o Run(FirstShard) = Run(found)
  BY <1>6, RunFacts, RunEmpty, ConcatEmptySeq
<1>9. Production(list) = FirstShard .. (NumShards - 1)
  BY DEF Production
<1> HIDE DEF list
<1>10. TailWork(l, found, FirstShard)'
  <2>1. ~InPhase(l, {"barrier"})' /\ ~InPhase(l, {"forward", "gather", "barrier"})'
    BY <1>2 DEF InPhase
  <2>2. mode = "smoke" => SmokeInv(l)'
    BY <1>2, <1>3 DEF SmokeInv, PlannedTodo, PlannedPilot
  <2>3. mode # "smoke" => todo'[l][0] = FirstShard .. (NumShards - 1)
    BY <1>3, <1>9 DEF PlannedTodo
  <2>4. done'[l][0] = Run(found) \o Run(FirstShard)
    BY <1>3, <1>7, <1>8
  <2>5. /\ FirstShard <= NumShards /\ FirstShard \in Nat /\ found \in Nat
        /\ (IF FirstShard < found THEN found ELSE FirstShard) = found
    BY <1>6, ManifestAssumption, DriverAssumption DEF Reaches, ShardIds, ValidManifest
  <2> QED BY <1>1, <1>2, <1>5, <1>7, <2>1, <2>2, <2>3, <2>4, <2>5 DEF TailWork
<1>11. TailHolder(l)'
  BY <1>2, <1>6, <1>10, RunEmpty DEF TailHolder, FreshInv, Reaches
<1>12. LockInv'
  BY <1>1, <1>2, <1>4, LockKept DEF TailInv, Holding
<1> QED BY <1>1, <1>4, <1>11, <1>12, TailLocal

\* A step inside the loop that leaves receipts, identity and lock alone.
LEMMA TailLoops ==
  ASSUME TypeInv, TailInv, NEW l \in Launches, \A k \in Launches \ {l} : Same(k),
         UNCHANGED <<lock, receipts>>, pc[l][0] \in Working, pc'[l][0] \in Working,
         NEW found \in Reaches, NEW captured \in Reaches, TailWork(l, found, captured)'
  PROVE  TailInv'
<1>1. TailHolder(l)'
  BY DEF TailHolder, FreshInv, Working, Holding, Reaches
<1>2. LockInv'
  BY LockKept DEF TailInv, Working
<1> QED BY <1>1, <1>2, TailLocal

LEMMA TailBegin ==
  ASSUME TypeInv, TailInv, NEW l \in Launches, BeginPhase(l, 0)
  PROVE  TailInv'
<1>1. /\ pc[l][0] = "loop" /\ Goto(l, 0, "forward") /\ UNCHANGED <<id, done, lock, receipts>>
  BY DEF BeginPhase, disk
<1>2. pc'[l][0] = "forward" /\ \A k \in Launches \ {l} : pc'[k] = pc[k]
  BY <1>1, GotoZero
<1>3. \A k \in Launches \ {l} : Same(k)
  <2>1. /\ \E p : phase' = [phase EXCEPT ![l][0] = p]
        /\ todo' = todo \/ \E rest : todo' = [todo EXCEPT ![l][0] = rest]
        /\ \E b : pilot' = [pilot EXCEPT ![l][0] = b]
        /\ \E n : cursor' = [cursor EXCEPT ![l][0] = n]
    BY DEF BeginPhase
  <2> QED BY <1>1, <1>2, <2>1 DEF Same, TypeInv, TypeOK, MemoryOK
<1>4. pc[l][0] \in Working /\ pc'[l][0] \in Working
  BY <1>1, <1>2 DEF Working, Holding
<1>5. PICK found \in Reaches, captured \in Reaches : TailWork(l, found, captured)
  BY <1>4 DEF TailInv, TailHolder
<1>6. /\ ~InPhase(l, {"barrier"}) /\ ~InPhase(l, {"barrier"})'
      /\ ~InPhase(l, {"forward", "gather", "barrier"})
      /\ InPhase(l, {"forward", "gather", "barrier"})' <=> ~phase'[l][0].smoke
  BY <1>1, <1>2 DEF InPhase
<1>7. Committed' = Committed /\ done'[l][0] = done[l][0] /\ id'[l][0] = id[l][0]
  BY <1>1 DEF Committed
<1>8. TailWork(l, found, captured)'
  <2>1. CASE pilot[l][0]
    <3>1. phase'[l][0].smoke = TRUE /\ todo'[l][0] = todo[l][0]
      BY <2>1 DEF BeginPhase, TypeInv, TypeOK, MemoryOK, Ranks
    <3>2. SmokeInv(l) => SmokeInv(l)'
      BY <1>2, <3>1 DEF SmokeInv
    <3> QED BY <1>1, <1>2, <1>5, <1>6, <1>7, <3>1, <3>2 DEF TailWork
  <2>2. CASE ~pilot[l][0]
    <3>1. PICK s \in todo[l][0] :
            /\ \A t \in todo[l][0] : s <= t
            /\ phase' = [phase EXCEPT ![l][0] = [shard |-> s, smoke |-> FALSE]]
            /\ todo' = [todo EXCEPT ![l][0] = @ \ {s}]
      BY <2>2 DEF BeginPhase
    <3>2. phase'[l][0] = [shard |-> s, smoke |-> FALSE] /\ todo'[l][0] = todo[l][0] \ {s}
      BY <3>1 DEF TypeInv, TypeOK, MemoryOK, Ranks
    <3>3. id[l][0].mode # "smoke" /\ todo[l][0] = captured .. (NumShards - 1)
      BY <1>1, <1>5, <1>6, <2>2 DEF TailWork, SmokeInv
    <3>4. s = captured /\ todo'[l][0] = (captured + 1) .. (NumShards - 1)
      <4>1. captured \in Nat /\ NumShards \in Nat /\ s \in captured .. (NumShards - 1)
        BY <3>1, <3>3, ManifestAssumption, DriverAssumption DEF Reaches, ShardIds, ValidManifest
      <4>2. s <= captured
        <5>1. captured \in todo[l][0]
          BY <3>3, <4>1
        <5> QED BY <3>1, <5>1
      <4> QED BY <3>2, <3>3, <4>1, <4>2
    <3> QED BY <1>1, <1>2, <1>5, <1>6, <1>7, <3>2, <3>3, <3>4 DEF TailWork
  <2> QED BY <2>1, <2>2
<1> QED BY <1>1, <1>3, <1>4, <1>5, <1>8, TailLoops

LEMMA TailForward ==
  ASSUME TypeInv, TailInv, NEW l \in Launches, Forward(l) \/ Export(l, 0)
  PROVE  TailInv'
<1>1. /\ pc[l][0] = "forward"
      /\ pc' = pc \/ Goto(l, 0, "gather")
      /\ cursor' = cursor \/ \E n : cursor' = [cursor EXCEPT ![l][0] = n]
      /\ UNCHANGED <<id, done, todo, pilot, phase, lock, receipts>>
  BY DEF Forward, Export, Observe, memory, disk
<1>2. pc'[l][0] \in {"forward", "gather"} /\ \A k \in Launches \ {l} : pc'[k] = pc[k]
  BY <1>1, GotoZero
<1>3. \A k \in Launches \ {l} : Same(k)
  BY <1>1, <1>2 DEF Same, TypeInv, TypeOK, MemoryOK
<1>4. pc[l][0] \in Working /\ pc'[l][0] \in Working
  BY <1>1, <1>2 DEF Working, Holding
<1>5. PICK found \in Reaches, captured \in Reaches : TailWork(l, found, captured)
  BY <1>4 DEF TailInv, TailHolder
<1>6. TailWork(l, found, captured)'
  <2>1. /\ ~InPhase(l, {"barrier"}) /\ ~InPhase(l, {"barrier"})'
        /\ InPhase(l, {"forward", "gather", "barrier"})' = InPhase(l, {"forward", "gather", "barrier"})
        /\ Committed' = Committed
    BY <1>1, <1>2 DEF InPhase, Committed
  <2>2. SmokeInv(l) => SmokeInv(l)'
    BY <1>1, <1>2 DEF SmokeInv
  <2> QED BY <1>1, <1>2, <1>5, <2>1, <2>2 DEF TailWork
<1> QED BY <1>1, <1>3, <1>4, <1>5, <1>6, TailLoops

LEMMA TailPassBarrier ==
  ASSUME TypeInv, TailInv, NEW l \in Launches, PassBarrier(l, 0), ~Quits(l, 0)
  PROVE  TailInv'
<1> DEFINE p == phase[l][0]
           list == done[l][0]
<1>1. /\ pc[l][0] = "barrier" /\ Goto(l, 0, IF p.smoke THEN "loop" ELSE "poll")
      /\ ~(p.smoke /\ id[l][0].mode = "smoke")
      /\ done' = [done EXCEPT ![l][0] = IF p.smoke THEN @ ELSE Append(@, p.shard)]
      /\ UNCHANGED <<id, todo, pilot, phase, cursor, lock, receipts>>
  BY DEF PassBarrier, disk
<1>2. /\ pc'[l][0] = IF p.smoke THEN "loop" ELSE "poll"
      /\ \A k \in Launches \ {l} : pc'[k] = pc[k]
  BY <1>1, GotoZero
<1>3. done'[l][0] = IF p.smoke THEN list ELSE Append(list, p.shard)
  BY <1>1 DEF TypeInv, TypeOK, MemoryOK, Ranks
<1>4. \A k \in Launches \ {l} : Same(k)
  BY <1>1, <1>2 DEF Same, TypeInv, TypeOK, MemoryOK
<1>5. pc[l][0] \in Working /\ pc'[l][0] \in Working
  BY <1>1, <1>2 DEF Working, Holding
<1>6. PICK found \in Reaches, captured \in Reaches : TailWork(l, found, captured)
  BY <1>5 DEF TailInv, TailHolder
<1>7. Committed' = Committed
  BY <1>1 DEF Committed
<1>8. id[l][0].mode # "smoke"
  BY <1>1, <1>6 DEF TailWork, SmokeInv
<1>9. ~InPhase(l, {"barrier"})' /\ ~InPhase(l, {"forward", "gather", "barrier"})'
  BY <1>2 DEF InPhase
<1>10. CASE p.smoke
  <2>1. ~InPhase(l, {"barrier"}) /\ ~InPhase(l, {"forward", "gather", "barrier"})
    BY <1>10 DEF InPhase
  <2>2. TailWork(l, found, captured)'
    BY <1>1, <1>2, <1>3, <1>6, <1>7, <1>8, <1>9, <1>10, <2>1 DEF TailWork
  <2> QED BY <1>1, <1>4, <1>5, <1>6, <2>2, TailLoops
<1>11. CASE ~p.smoke
  <2>1. InPhase(l, {"barrier"}) /\ InPhase(l, {"forward", "gather", "barrier"})
    BY <1>1, <1>11 DEF InPhase
  <2>2. /\ p.shard = captured /\ todo[l][0] = (captured + 1) .. (NumShards - 1)
        /\ list = Run(found) \o Run(captured) /\ captured + 1 <= NumShards
        /\ Committed = Below(IF captured + 1 < found THEN found ELSE captured + 1)
        /\ \A s \in Committed : receipts[s].rt = id[l][0].rt
    BY <1>6, <1>8, <2>1 DEF TailWork
  <2>3. captured + 1 \in Reaches /\ captured < NumShards /\ FirstShard < captured + 1
    BY <2>2, ManifestAssumption, DriverAssumption DEF Reaches, ShardIds, ValidManifest
  <2>4. Append(list, p.shard) = Run(found) \o Run(captured + 1)
    BY <1>6, <2>2, <2>3, RunsAppend
  <2> HIDE DEF p, list
  <2>5. TailWork(l, found, captured + 1)'
    BY <1>1, <1>2, <1>3, <1>7, <1>8, <1>9, <1>11, <2>2, <2>3, <2>4 DEF TailWork
  <2> QED BY <1>1, <1>4, <1>5, <1>6, <2>3, <2>5, TailLoops
<1> QED BY <1>10, <1>11

LEMMA TailPoll ==
  ASSUME TypeInv, TailInv, NEW l \in Launches, PollPause(l)
  PROVE  TailInv'
<1>1. /\ pc[l][0] = "poll"
      /\ Goto(l, 0, "paused") \/ Goto(l, 0, "loop")
      /\ UNCHANGED <<id, done, todo, pilot, phase, cursor, lock, receipts>>
  BY DEF PollPause, memory, disk
<1>2. pc'[l][0] \in {"paused", "loop"} /\ \A k \in Launches \ {l} : pc'[k] = pc[k]
  BY <1>1, GotoZero
<1>3. \A k \in Launches \ {l} : Same(k)
  BY <1>1, <1>2 DEF Same
<1>4. pc[l][0] \in Working /\ pc'[l][0] \in Working
  BY <1>1, <1>2 DEF Working, Holding
<1>5. PICK found \in Reaches, captured \in Reaches : TailWork(l, found, captured)
  BY <1>4 DEF TailInv, TailHolder
<1>6. TailWork(l, found, captured)'
  <2>1. /\ ~InPhase(l, {"barrier"}) /\ ~InPhase(l, {"barrier"})'
        /\ ~InPhase(l, {"forward", "gather", "barrier"})
        /\ ~InPhase(l, {"forward", "gather", "barrier"})'
        /\ Committed' = Committed
    BY <1>1, <1>2 DEF InPhase, Committed
  <2>2. id[l][0].mode # "smoke"
    BY <1>1, <1>5 DEF TailWork, SmokeInv
  <2> QED BY <1>1, <1>2, <1>5, <2>1, <2>2 DEF TailWork
<1> QED BY <1>1, <1>3, <1>4, <1>5, <1>6, TailLoops

\* A set of committed shards that ends somewhere grows by the shard at its end, and a
\* shard before its end is there already.
LEMMA BelowGrows ==
  ASSUME NEW found \in Reaches, NEW n \in Reaches, n < NumShards
  PROVE  /\ Below(IF n < found THEN found ELSE n) \cup {n} =
              Below(IF n + 1 < found THEN found ELSE n + 1)
         /\ n < found => n \in Below(found)
         /\ n + 1 \in Reaches
<1>1. /\ FirstShard \in Nat /\ found \in Nat /\ n \in Nat /\ FirstShard <= n /\ FirstShard <= found
      /\ n + 1 \in Reaches
  BY ManifestAssumption, DriverAssumption DEF Reaches, ShardIds, ValidManifest
<1>2. CASE n < found
  <2>1. n \in Below(found)
    BY <1>1, <1>2 DEF Below
  <2>2. (IF n + 1 < found THEN found ELSE n + 1) = found /\ (IF n < found THEN found ELSE n) = found
    BY <1>1, <1>2
  <2> QED BY <1>1, <2>1, <2>2
<1>3. CASE ~(n < found)
  <2>1. (IF n + 1 < found THEN found ELSE n + 1) = n + 1 /\ (IF n < found THEN found ELSE n) = n
    BY <1>1, <1>3
  <2>2. Below(n) \cup {n} = Below(n + 1)
    BY <1>1 DEF Below
  <2> QED BY <1>1, <1>3, <2>1, <2>2
<1> QED BY <1>2, <1>3

\* What a commit of the completion driver meets.
LEMMA TailCommitFacts ==
  ASSUME TypeInv, ExactInv, TailInv, NEW l \in Launches, Merge(l, 0), ~Quits(l, 0),
         ~phase[l][0].smoke
  PROVE  /\ lock = l
         /\ \E found \in Reaches : \E captured \in Reaches :
              /\ TailWork(l, found, captured)
              /\ phase[l][0].shard = captured /\ captured < NumShards
              /\ todo[l][0] = (captured + 1) .. (NumShards - 1)
              /\ id[l][0].mode # "smoke"
              /\ Committed = Below(IF captured < found THEN found ELSE captured)
              /\ \A t \in Committed : receipts[t].rt = id[l][0].rt
<1>1. pc[l][0] = "gather" /\ phase[l][0].shard \in ShardIds
  BY PublishFacts
<1>2. lock = l /\ pc[l][0] \in Working
  BY <1>1 DEF TailInv, LockInv, Working, Holding
<1>3. PICK found \in Reaches, captured \in Reaches : TailWork(l, found, captured)
  BY <1>2 DEF TailInv, TailHolder
<1>4. ~InPhase(l, {"barrier"}) /\ InPhase(l, {"forward", "gather", "barrier"})
  BY <1>1 DEF InPhase
<1>5. id[l][0].mode # "smoke"
  BY <1>1, <1>3 DEF TailWork, SmokeInv
<1>6. /\ phase[l][0].shard = captured /\ todo[l][0] = (captured + 1) .. (NumShards - 1)
      /\ Committed = Below(IF captured < found THEN found ELSE captured)
      /\ \A t \in Committed : receipts[t].rt = id[l][0].rt
  BY <1>3, <1>4, <1>5 DEF TailWork
<1>7. captured < NumShards
  BY <1>1, <1>6, ManifestAssumption DEF ShardIds, ValidManifest
<1> QED BY <1>2, <1>3, <1>5, <1>6, <1>7

LEMMA TailMerge ==
  ASSUME TypeInv, ExactInv, TailInv, NEW l \in Launches, Merge(l, 0), ~Quits(l, 0)
  PROVE  TailInv'
<1>1. /\ pc[l][0] = "gather" /\ Goto(l, 0, "barrier") /\ Publish(l)
      /\ UNCHANGED <<id, done, todo, pilot, phase, cursor, lock>>
  BY DEF Merge, memory
<1>2. pc'[l][0] = "barrier" /\ \A k \in Launches \ {l} : pc'[k] = pc[k]
  BY <1>1, GotoZero
<1>3. \A k \in Launches \ {l} : Same(k)
  BY <1>1, <1>2 DEF Same
<1>4. pc[l][0] \in Working /\ pc'[l][0] \in Working
  BY <1>1, <1>2 DEF Working, Holding
<1>5. CASE phase[l][0].smoke
  <2>1. UNCHANGED receipts /\ Committed' = Committed
    BY <1>1, <1>5 DEF Publish, Committed
  <2>2. PICK found \in Reaches, captured \in Reaches : TailWork(l, found, captured)
    BY <1>4 DEF TailInv, TailHolder
  <2>3. TailWork(l, found, captured)'
    <3>1. /\ ~InPhase(l, {"barrier"}) /\ ~InPhase(l, {"barrier"})'
          /\ ~InPhase(l, {"forward", "gather", "barrier"})
          /\ ~InPhase(l, {"forward", "gather", "barrier"})'
      BY <1>1, <1>5 DEF InPhase
    <3>2. SmokeInv(l) => SmokeInv(l)'
      BY <1>1, <1>2 DEF SmokeInv
    <3> QED BY <1>1, <1>2, <2>1, <2>2, <3>1, <3>2 DEF TailWork
  <2> QED BY <1>1, <1>3, <1>4, <2>1, <2>2, <2>3, TailLoops
<1>6. CASE ~phase[l][0].smoke
  <2>1. lock = l
    BY <1>6, TailCommitFacts
  <2>2. PICK found \in Reaches : \E captured \in Reaches :
              /\ TailWork(l, found, captured)
              /\ phase[l][0].shard = captured /\ captured < NumShards
              /\ todo[l][0] = (captured + 1) .. (NumShards - 1)
              /\ id[l][0].mode # "smoke"
              /\ Committed = Below(IF captured < found THEN found ELSE captured)
              /\ \A t \in Committed : receipts[t].rt = id[l][0].rt
    BY <1>6, TailCommitFacts
  <2>3. PICK captured \in Reaches :
              /\ TailWork(l, found, captured)
              /\ phase[l][0].shard = captured /\ captured < NumShards
              /\ todo[l][0] = (captured + 1) .. (NumShards - 1)
              /\ id[l][0].mode # "smoke"
              /\ Committed = Below(IF captured < found THEN found ELSE captured)
              /\ \A t \in Committed : receipts[t].rt = id[l][0].rt
    BY <2>2
  <2>4. PICK receipt : /\ receipts' = [receipts EXCEPT ![captured] = receipt]
                       /\ receipt.rt = id[l][0].rt
    <3> DEFINE made == [rt |-> id[l][0].rt, obs |-> Observations(l)]
    <3>1. receipts' = [receipts EXCEPT ![phase[l][0].shard] = made] /\ made.rt = id[l][0].rt
      BY <1>6, PublishFacts
    <3> HIDE DEF made
    <3> QED BY <2>3, <3>1
  <2>5. captured \in ShardIds /\ Committed' = Committed \cup {captured}
    BY <1>6, <2>3, PublishFacts
  <2>6. \A t \in Committed' : receipts'[t].rt = id'[l][0].rt
    BY <1>1, <2>3, <2>4, <2>5 DEF Committed, TypeInv, TypeOK, DiskOK
  <2>7. /\ Committed' = Below(IF captured + 1 < found THEN found ELSE captured + 1)
        /\ captured + 1 \in Reaches /\ captured + 1 <= NumShards
    <3>1. captured + 1 \in Reaches
      BY <2>2, <2>3, BelowGrows
    <3> QED BY <2>2, <2>3, <2>5, <3>1, BelowGrows DEF Reaches
  <2>8. InPhase(l, {"barrier"})' /\ InPhase(l, {"forward", "gather", "barrier"})'
    BY <1>1, <1>2, <1>6 DEF InPhase
  <2>9. done'[l][0] = Run(found) \o Run(captured)
    BY <1>1, <2>3 DEF TailWork
  <2>10. TailWork(l, found, captured)'
    BY <1>1, <1>2, <2>3, <2>6, <2>7, <2>8, <2>9 DEF TailWork
  <2>11. TailHolder(l)'
    BY <1>2, <2>2, <2>3, <2>10 DEF TailHolder, FreshInv, Reaches
  <2>12. ASSUME NEW k \in Launches, k # l PROVE TailHolder(k)'
    <3>1. pc[k][0] \notin Holding
      BY <2>1, <2>12 DEF TailInv, LockInv
    <3> QED BY <1>3, <2>12, <3>1 DEF TailInv, TailHolder, FreshInv, Same, Working, Holding
  <2>13. LockInv'
    BY <1>1, <1>2, <1>3, LockKept DEF TailInv, Holding
  <2>14. TailGapless'
    <3>1. \A t \in Committed' : t \in Below(captured + 1) \/ t \in Below(found)
      BY <2>7
    <3>2. ASSUME NEW t \in Committed', NEW u \in FirstShard .. t
          PROVE  FirstShard <= t /\ u \in Committed'
      <4>1. found \in Nat /\ captured \in Nat /\ FirstShard \in Nat
        BY <2>2, <2>3, DriverAssumption DEF Reaches, ShardIds
      <4> QED BY <2>7, <3>2, <4>1 DEF Below
    <3>3. \A t \in Committed' : FirstShard <= t
      BY <2>7 DEF Below
    <3> QED BY <3>2, <3>3 DEF TailGapless
  <2> QED BY <2>11, <2>12, <2>13, <2>14 DEF TailInv
<1> QED BY <1>5, <1>6

LEMMA TailInit == Init => TailInv
<1> SUFFICES ASSUME Init PROVE TailInv
  OBVIOUS
<1>1. Committed = {} /\ lock = None
  BY DEF Init, Committed
<1>2. \A l \in Launches : pc[l][0] = "off" /\ done[l][0] = <<>> /\ cursor[l][0] = 0
  BY DEF Init, Ranks
<1>3. LockInv
  BY <1>1, <1>2, NoneAssumption DEF LockInv, Holding
<1>4. \A l \in Launches : TailHolder(l)
  BY <1>2 DEF TailHolder, FreshInv, Working, Holding
<1> QED BY <1>1, <1>3, <1>4 DEF TailInv, TailGapless

LEMMA TailStep ==
  ASSUME ~SkipsCommitted, TypeInv, ExactInv, TailInv, [Next]_vars
  PROVE  TailInv'
<1>1. ASSUME NEW l \in Launches, NEW ids \in [Ranks -> Identities], Start(l, ids)
      PROVE  TailInv'
  BY <1>1, TailStart
<1>2. ASSUME NEW l \in Launches, NEW r \in Ranks, Quits(l, r)
      PROVE  TailInv'
  BY <1>2, TailEnds DEF Quits, disk
<1>3. ASSUME NEW l \in Launches, NEW r \in Ranks, Conclude(l, r)
      PROVE  TailInv'
  BY <1>3, TailEnds DEF Conclude
<1>4. ASSUME NEW l \in Launches, RankStep(l, 1)
      PROVE  TailInv'
  <2>1. CASE Ends(l, 1)
    <3>1. UNCHANGED receipts
      BY <1>4, <2>1 DEF RankStep, OfferIdentity, CheckPeers, BeginPhase, Export, Merge, PassBarrier,
         Conclude, HearCommitted, Receive, HearPause, Plan, Quits, disk
    <3> QED BY <2>1, <3>1, TailEnds DEF Ranks
  <2>2. CASE ~Ends(l, 1)
    BY <1>4, <2>2, RankOneSame, TailSame
  <2> QED BY <2>1, <2>2
<1>5. ASSUME NEW l \in Launches, RankStep(l, 0)
      PROVE  TailInv'
  <2>1. CASE Quits(l, 0)
    BY <1>2, <2>1 DEF Ranks
  <2>2. CASE ~Quits(l, 0)
    <3>1. \/ OfferIdentity(l, 0) \/ CheckPeers(l, 0) \/ BeginPhase(l, 0) \/ Export(l, 0)
          \/ Merge(l, 0) \/ PassBarrier(l, 0) \/ Conclude(l, 0)
          \/ TakeLock(l) \/ ScanShard(l) \/ ShareCommitted(l) \/ Forward(l) \/ PollPause(l)
      BY <1>5 DEF RankStep
    <3>2. 0 \in Ranks
      BY DEF Ranks
    <3> QED
      BY <1>3, <2>2, <3>1, <3>2, TailHandshake, TailTakeLock, TailScanShard, TailShare, TailBegin,
         TailForward, TailMerge, TailPassBarrier, TailPoll
  <2> QED BY <2>1, <2>2
<1>6. ASSUME NEW l \in Launches, NEW r \in Ranks, TimeOut(l, r) \/ Crash(l, r)
      PROVE  TailInv'
  BY <1>2, <1>6 DEF TimeOut, Crash
<1>7. CASE UNCHANGED vars
  <2>1. UNCHANGED <<pc, id, done, todo, pilot, phase, cursor, lock, receipts>>
    BY <1>7 DEF vars, memory, disk
  <2> QED BY <2>1, TailSame DEF Same
<1> QED BY <1>1, <1>4, <1>5, <1>6, <1>7 DEF Next, Ranks

LEMMA TailRootInv ==
  ASSUME ~SkipsCommitted
  PROVE  Spec => [](TypeInv /\ ExactInv /\ TailInv)
<1>1. Spec => []TypeInv
  BY TypeInit, TypeStep, PTL DEF Spec
<1>2. Spec => []ExactInv
  BY <1>1, ExactInit, ExactStep, PTL DEF Spec
<1>3. TypeInv /\ ExactInv /\ TailInv /\ [Next]_vars => TailInv'
  BY TailStep
<1>4. Spec => []TailInv
  BY <1>1, <1>2, <1>3, TailInit, PTL DEF Spec
<1> QED BY <1>1, <1>2, <1>4, PTL

------------------------------------------------------------------------------
\* The refinement of the tail: a replay rewrites what is there, a capture of a missing
\* shard is the next commit, and the summary lists the shards found and captured.

LEMMA TailQuietMaps ==
  ASSUME Quiet
  PROVE  [TailRoot!Next]_(TailRoot!ledgerVars)
BY DEF Quiet, TailRoot!Next, TailRoot!Root!Open, TailRoot!Root!Abandon, TailRoot!ledgerVars,
       TailRoot!Root!ledgerVars

LEMMA ReplayMaps ==
  ASSUME TypeInv, ExactInv, NEW l \in Launches, Commits(l),
         phase[l][0].shard \in Committed,
         receipts[phase[l][0].shard].rt = id[l][0].rt
  PROVE  UNCHANGED <<lock, receipts, status>>
<1> DEFINE s == phase[l][0].shard
           receipt == [rt |-> id[l][0].rt, obs |-> Observations(l)]
<1>1. /\ s \in ShardIds /\ receipts' = [receipts EXCEPT ![s] = receipt] /\ status' = status
      /\ receipt.obs = [r \in Ranks |-> Exactly([shard |-> s, smoke |-> FALSE])]
      /\ lock' = lock
  BY PublishFacts DEF Commits, Merge
<1>2. receipts[s] \in Receipt /\ receipts[s].rt = receipt.rt
  BY <1>1 DEF Committed, TypeInv, TypeOK, DiskOK
<1>3. \A r \in Ranks : receipts[s].obs[r] = Exactly([shard |-> s, smoke |-> FALSE])
  BY DEF ExactInv, ExactReceipts, Exact, Committed
<1>4. receipts[s].obs = receipt.obs
  <2>1. receipts[s].obs = [r \in Ranks |-> receipts[s].obs[r]]
    BY <1>2 DEF Receipt, Stats
  <2> HIDE DEF receipt, s
  <2> QED BY <1>1, <1>3, <2>1
<1>5. receipts[s] = receipt
  BY <1>2, <1>4 DEF Receipt
<1> HIDE DEF s, receipt
<1>6. receipts' = receipts
  BY <1>1, <1>5 DEF TypeInv, TypeOK, DiskOK
<1> QED BY <1>1, <1>6

TailShards == FirstShard .. (NumShards - 1)
TailReceipts == [s \in TailShards |-> receipts[s]]

LEMMA TailCommitMaps ==
  ASSUME TypeInv, ExactInv, TailInv, NEW l \in Launches, Commits(l)
  PROVE  [TailRoot!Next]_(TailRoot!ledgerVars)
<1> DEFINE exact == [q \in ShardIds |-> [r \in Ranks |-> Exactly([shard |-> q, smoke |-> FALSE])]]
<1>1. lock = l
  BY TailCommitFacts DEF Commits
<1>2. PICK rt \in Runtimes : rt = id[l][0].rt
  BY PublishFacts DEF Commits
<1>3. PICK found \in Reaches : \E n \in Reaches :
        /\ phase[l][0].shard = n /\ n < NumShards
        /\ Committed = Below(IF n < found THEN found ELSE n)
        /\ \A t \in Committed : receipts[t].rt = rt
  BY <1>2, TailCommitFacts DEF Commits
<1>4. PICK n \in Reaches :
        /\ phase[l][0].shard = n /\ n < NumShards
        /\ Committed = Below(IF n < found THEN found ELSE n)
        /\ \A t \in Committed : receipts[t].rt = rt
  BY <1>3
<1>5. CASE n < found
  <2>1. n \in Committed
    BY <1>3, <1>4, <1>5, BelowGrows
  <2>2. UNCHANGED <<lock, receipts, status>>
    BY <1>4, <1>2, <2>1, ReplayMaps
  <2> QED BY <2>2 DEF TailRoot!ledgerVars
<1>6. CASE ~(n < found)
  <2>1. Committed = Below(n) /\ n \in TailShards /\ TailShards \subseteq ShardIds
    BY <1>3, <1>4, <1>6, ManifestAssumption, DriverAssumption
       DEF Reaches, TailShards, ShardIds, ValidManifest
  <2>2. TailRoot!Root!Present = Committed
    <3>1. TailRoot!Root!Present = {s \in TailShards : receipts[s] # None}
      BY DEF TailRoot!Root!Present, TailShards
    <3>2. Committed = {s \in TailShards : receipts[s] # None}
      <4>1. \A s \in Committed : s \in TailShards
        BY <1>4, <2>1, ManifestAssumption, DriverAssumption
           DEF Below, TailShards, Reaches, ShardIds, ValidManifest
      <4> QED BY <2>1, <4>1 DEF Committed
    <3> QED BY <3>1, <3>2
  <2>3. n \in TailShards \ Committed /\ \A t \in TailShards \ Committed : n <= t
    BY <1>4, <2>1, DriverAssumption DEF Below, TailShards, Reaches, ShardIds
  <2>4. /\ receipts' = [receipts EXCEPT ![n] = [rt |-> rt, obs |-> exact[n]]]
        /\ status' = status
    <3> DEFINE made == [rt |-> rt, obs |-> Observations(l)]
    <3>1. /\ receipts' = [receipts EXCEPT ![n] = made]
          /\ made.obs = [r \in Ranks |-> Exactly([shard |-> n, smoke |-> FALSE])]
          /\ status' = status
      BY <1>4, <1>2, PublishFacts DEF Commits
    <3>2. exact[n] = [r \in Ranks |-> Exactly([shard |-> n, smoke |-> FALSE])]
      BY <2>1
    <3>3. made = [rt |-> rt, obs |-> exact[n]]
      BY <3>1, <3>2
    <3> HIDE DEF made, exact
    <3> QED BY <3>1, <3>3
  <2>5. lock' = lock /\ lock # None
    BY <1>1, NoneAssumption DEF Commits, Merge
  <2> HIDE DEF exact
  <2>6. TailReceipts' = [TailReceipts EXCEPT ![n] = [rt |-> rt, obs |-> exact[n]]]
    BY <2>1, <2>4 DEF TailReceipts, TypeInv, TypeOK, DiskOK
  <2>7. \A t \in Committed : TailReceipts[t].rt = rt
    <3>1. Committed \subseteq TailShards
      BY <2>2 DEF TailRoot!Root!Present, TailShards
    <3> QED BY <1>4, <3>1 DEF TailReceipts
  <2>8. TailRoot!Root!CommitNext(rt)
    BY <2>2, <2>3, <2>4, <2>5, <2>6, <2>7
       DEF TailRoot!Root!CommitNext, TailReceipts, TailShards, exact
  <2>9. TailRoot!Next
    BY <1>2, <2>8 DEF TailRoot!Next
  <2> QED BY <2>9
<1> QED BY <1>5, <1>6

LEMMA TailCloseMaps ==
  ASSUME TypeInv, TailInv, NEW l \in Launches, Conclude(l, 0)
  PROVE  TailRoot!Next
<1> DEFINE state == Summary(l, 0).state
<1>1. /\ \/ pc[l][0] = "paused"
         \/ pc[l][0] = "loop" /\ ~pilot[l][0] /\ todo[l][0] = {}
      /\ Ends(l, 0) /\ status' = Summary(l, 0) /\ UNCHANGED receipts
  BY DEF Conclude
<1>2. lock = l /\ pc[l][0] \in Working
  BY <1>1 DEF TailInv, LockInv, Working, Holding
<1>3. PICK found \in Reaches, captured \in Reaches : TailWork(l, found, captured)
  BY <1>2 DEF TailInv, TailHolder
<1>4. ~InPhase(l, {"barrier"}) /\ ~InPhase(l, {"forward", "gather", "barrier"})
  BY <1>1 DEF InPhase
<1>5. /\ done[l][0] = Run(found) \o Run(captured)
      /\ Committed = Below(IF captured < found THEN found ELSE captured)
      /\ pc[l][0] = "paused" => FirstShard < captured
      /\ pc[l][0] = "loop" => todo[l][0] = captured .. (NumShards - 1)
  BY <1>1, <1>3, <1>4 DEF TailWork, SmokeInv
<1>6. found \in Nat /\ captured \in Nat /\ FirstShard \in Nat /\ NumShards \in Nat
      /\ captured <= NumShards /\ (NumShards - 1) + 1 = NumShards
  BY <1>3, ManifestAssumption, DriverAssumption DEF Reaches, ShardIds, ValidManifest
<1>7. state = "RECORD_LOCAL_COMPLETE" => captured = (NumShards - 1) + 1
  <2>1. ASSUME pc[l][0] = "loop", captured < NumShards PROVE FALSE
    <3>1. captured \in captured .. (NumShards - 1)
      BY <1>6, <2>1
    <3> QED BY <1>1, <1>5, <2>1, <3>1
  <2> QED BY <1>1, <1>6, <2>1 DEF Summary
<1>8. state = "PAUSED_AT_RECORD_SHARD" => captured > FirstShard
  BY <1>1, <1>5, <1>6 DEF Summary
<1>9. status' = [state |-> state, completed |-> TailRoot!Run(found) \o TailRoot!Run(captured)]
  BY <1>1, <1>5 DEF Summary, Run, TailRoot!Run
<1>10. state \in {"PAUSED_AT_RECORD_SHARD", "RECORD_LOCAL_COMPLETE"}
  BY DEF Summary
<1>11. lock # None /\ lock' = None
  BY <1>1, <1>2, NoneAssumption DEF Ends
<1> HIDE DEF state
<1>12. TailRoot!Root!Present = FirstShard .. ((IF captured < found THEN found ELSE captured) - 1)
  <2>1. TailRoot!Root!Present = {s \in TailShards : receipts[s] # None}
    BY DEF TailRoot!Root!Present, TailShards
  <2>2. \A s \in Committed : s \in TailShards
    BY <1>5, <1>6, <1>3 DEF Below, TailShards, Reaches
  <2>3. TailShards \subseteq ShardIds
    BY <1>6 DEF TailShards, ShardIds
  <2>4. Committed = {s \in TailShards : receipts[s] # None}
    BY <2>2, <2>3 DEF Committed
  <2> QED BY <1>5, <2>1, <2>4 DEF Below
<1>13. found \in FirstShard .. ((NumShards - 1) + 1) /\ captured \in FirstShard .. ((NumShards - 1) + 1)
  BY <1>3, <1>6 DEF Reaches
<1>14. TailRoot!CloseReplayed(state)
  BY <1>1, <1>7, <1>8, <1>9, <1>11, <1>12, <1>13 DEF TailRoot!CloseReplayed
<1> QED BY <1>10, <1>14 DEF TailRoot!Next

\* The completion driver implements the ledger of the tail: a restarted launch that
\* captures again what was committed changes no receipt, and the summary it leaves is
\* that of a writer who found some shards and captured some, possibly the same ones.
THEOREM TailImplementsLedger == ASSUME ~SkipsCommitted PROVE Spec => ImplementsTail
<1>1. Init => TailRoot!Init
  <2> SUFFICES ASSUME Init PROVE TailRoot!Init
    OBVIOUS
  <2>1. TailShards \subseteq ShardIds
    BY ManifestAssumption, DriverAssumption DEF TailShards, ShardIds, ValidManifest
  <2>2. TailReceipts = [s \in TailShards |-> None]
    BY <2>1 DEF TailReceipts, Init
  <2>3. lock = None /\ status = None
    BY DEF Init
  <2> QED BY <2>2, <2>3 DEF TailReceipts, TailShards, TailRoot!Init, TailRoot!Root!Init
<1>2. TypeInv /\ ExactInv /\ TailInv /\ [Next]_vars => [TailRoot!Next]_(TailRoot!ledgerVars)
  BY StepKinds, TailCommitMaps, TailCloseMaps, TailQuietMaps
<1> QED BY <1>1, <1>2, TailRootInv, PTL DEF Spec, ImplementsTail, TailRoot!Spec
==============================================================================
