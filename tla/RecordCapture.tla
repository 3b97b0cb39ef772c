------------------------------ MODULE RecordCapture ------------------------------
(***************************************************************************)
(* The two-rank record-observation pipeline: one torchrun process per node *)
(* (rank 0 and rank 1) captures router statistics of every shard of a     *)
(* token manifest and commits one receipt per shard.  Two drivers share   *)
(* the code and differ in their phase list only:                          *)
(*   glm53_record_observation_pipeline.py   (SkipsCommitted = TRUE)        *)
(*   glm53_completion_capture.py            (SkipsCommitted = FALSE, the   *)
(*                                           tail from FirstShard on)      *)
(*                                                                         *)
(* A launch is one torchrun invocation, a pair of processes.  Several      *)
(* launches may run against the same output root, and any process may die *)
(* at any point.  Disk survives; process memory and kernel buffers of the  *)
(* process group do not survive the launch.                                *)
(*                                                                         *)
(* Abstractions.  A record is its index in the manifest.  What a rank adds *)
(* up for its layers is the bag of the records it has forwarded: every     *)
(* statistic is a sum (or maximum) over them.  Files replaced with         *)
(* atomic_json are written in one step.  The gathers of the start-up       *)
(* handshake are one gather.  A send enqueues; a broadcast does not block  *)
(* its source; a gather or barrier is left once both ranks have entered.   *)
(***************************************************************************)
EXTENDS Integers, Sequences, FiniteSetsExt

CONSTANTS
  Launches,        \* torchrun invocations that may be alive at the same time
  Runtimes,        \* runtime identities (kernels, chunk size, code digests)
  Modes,           \* how the operator starts it, see AllModes
  None,            \* no lock holder, no receipt, no status file
  NumShards,       \* shards of the token manifest
  ShardStart,      \* ShardStart[s] is the first record of shard s
  TokensIn,        \* TokensIn[n] is the length of record n in tokens
  FirstShard,      \* 0, or --completion-start-shard
  SkipsCommitted   \* does the driver leave out shards that have a receipt?

Ranks == {0, 1}
ShardIds == 0 .. (NumShards - 1)
Records == 0 .. (ShardStart[NumShards] - 1)

\* validate_manifest: shards are nonempty and cover the records without a gap.
ValidManifest ==
  /\ NumShards \in Nat \ {0}
  /\ ShardStart \in [0 .. NumShards -> Nat]
  /\ ShardStart[0] = 0
  /\ \A s \in ShardIds : ShardStart[s] < ShardStart[s + 1]
  /\ \A s, t \in 0 .. NumShards : s < t => ShardStart[s] < ShardStart[t]
  /\ TokensIn \in [Records -> Nat \ {0}]

ASSUME ManifestAssumption == ValidManifest
ASSUME DriverAssumption ==
  /\ SkipsCommitted \in BOOLEAN
  /\ FirstShard \in ShardIds
  /\ SkipsCommitted => FirstShard = 0

\* What a rank adds up, and what shard-s/receipt.json holds.
Stats == [Ranks -> [Records -> Nat]]
Receipt == [rt : Runtimes, obs : Stats]

ASSUME NoneAssumption == None \notin Launches /\ None \notin Receipt

\* The ways a driver is started: plain, --smoke-records, --qualify-then-collect.
AllModes == {"collect", "smoke", "qualify"}
ASSUME ModesAssumption == Modes \subseteq AllModes

Identities == [mode : Modes, rt : Runtimes]

VARIABLES
  pc,        \* pc[l][r]: where the process of rank r in launch l is
  id,        \* id[l][r]: the identity it offers in the handshake
  done,      \* its list of committed shards
  todo,      \* production shards its phase iterator has not yielded
  pilot,     \* is the one-record qualification phase still to come?
  phase,     \* the phase it is in
  cursor,    \* loop variable: a shard while scanning, a record while forwarding
  acc,       \* acc[l][r]: the bag of records its accumulators hold
  met,       \* how many collectives it has entered
  wire,      \* wire[l]: records sent by rank 0, not yet received by rank 1
  gift,      \* gift[l][r]: what it put into the last statistics gather
  roll,      \* roll[l]: the committed list rank 0 broadcast
  stop,      \* stop[l]: the last pause decision rank 0 broadcast
  lock,      \* holder of pipeline.lock
  receipts,  \* receipts[s]: shard-s/receipt.json
  smokefile, \* record-smoke.json
  status     \* record-status.json

memory == <<id, done, todo, pilot, phase, cursor, acc>>
network == <<met, wire, gift, roll, stop>>
disk == <<receipts, smokefile, status>>
vars == <<pc, memory, network, lock, disk>>

------------------------------------------------------------------------------
\* Phases.  A smoke phase observes the first record of its shard only.

Phase == [shard : ShardIds, smoke : BOOLEAN]
IdlePhase == [shard |-> 0, smoke |-> FALSE]
First(p) == ShardStart[p.shard]
Bound(p) == IF p.smoke THEN First(p) + 1 ELSE ShardStart[p.shard + 1]

\* The bag that holds the records from a up to, not including, b once each.
Span(a, b) == [n \in Records |-> IF a <= n /\ n < b THEN 1 ELSE 0]
NoRecords == [n \in Records |-> 0]
Exactly(p) == Span(First(p), Bound(p))

\* What a rank puts into the statistics gather: what its accumulators hold.
Payload == [phase : Phase, rt : Runtimes, acc : [Records -> Nat]]
ASSUME PayloadAssumption == None \notin Payload

TokensOf(bag) == MapThenSumSet(LAMBDA n : bag[n] * TokensIn[n], Records)

\* _validated_observation, as make_receipt applies it: token totals must agree.
Counted(p, obs) == \A r \in Ranks : TokensOf(obs[r]) = TokensOf(Exactly(p))

\* Mutant: the runtime is not compared.
ValidReceiptAnyRuntime(s, receipt, rt) ==
  Counted([shard |-> s, smoke |-> FALSE], receipt.obs)

\* validate_receipt: rebuild the receipt under this launch's runtime and compare.
ValidReceipt(s, receipt, rt) ==
  /\ receipt.rt = rt
  /\ Counted([shard |-> s, smoke |-> FALSE], receipt.obs)

\* The entries of a list of committed shards.
Listed(list) == {list[i] : i \in 1 .. Len(list)}

\* Mutant: shards with a receipt are captured again.
ProductionAgain(list) == FirstShard .. (NumShards - 1)

\* Mutant: the range of shards runs one too far.
ProductionPastEnd(list) ==
  {s \in FirstShard .. NumShards : SkipsCommitted => s \notin Listed(list)}

Production(list) ==
  {s \in FirstShard .. (NumShards - 1) : SkipsCommitted => s \notin Listed(list)}

\* phase_plan, and the list that replaces it in the completion driver.
PlannedTodo(mode, list) == IF mode = "smoke" THEN {} ELSE Production(list)
PlannedPilot(mode, list) ==
  \/ mode = "smoke"
  \/ mode = "qualify" /\ Production(list) # {}

------------------------------------------------------------------------------
Peer(r) == 1 - r
Goto(l, r, label) == pc' = [pc EXCEPT ![l][r] = label]
Enter(l, r) == met' = [met EXCEPT ![l][r] = @ + 1]

\* A gather or barrier entered by r is complete once the peer entered it too.
BothEntered(l, r) == met[l][Peer(r)] >= met[l][r]
\* A broadcast from rank 0 has reached rank 1, which has not read it yet.
Broadcast(l) == met[l][0] > met[l][1]

\* Both processes are gone, and with them the process group.
GroupGone(l) ==
  /\ id' = [id EXCEPT ![l] = [r \in Ranks |-> None]]
  /\ met' = [met EXCEPT ![l] = [r \in Ranks |-> 0]]
  /\ wire' = [wire EXCEPT ![l] = <<>>]
  /\ gift' = [gift EXCEPT ![l] = [r \in Ranks |-> None]]
  /\ roll' = [roll EXCEPT ![l] = <<>>]
  /\ stop' = [stop EXCEPT ![l] = FALSE]

\* A process ends, by return, exception or death: its memory is gone and the
\* kernel drops its flock.  What it put into collectives its peer can still read.
Ends(l, r) ==
  /\ Goto(l, r, "off")
  /\ done' = [done EXCEPT ![l][r] = <<>>]
  /\ todo' = [todo EXCEPT ![l][r] = {}]
  /\ pilot' = [pilot EXCEPT ![l][r] = FALSE]
  /\ phase' = [phase EXCEPT ![l][r] = IdlePhase]
  /\ cursor' = [cursor EXCEPT ![l][r] = 0]
  /\ acc' = [acc EXCEPT ![l][r] = NoRecords]
  /\ lock' = IF r = 0 /\ lock = l THEN None ELSE lock
  /\ IF pc[l][Peer(r)] = "off" THEN GroupGone(l) ELSE UNCHANGED <<id, network>>

Quits(l, r) == Ends(l, r) /\ UNCHANGED disk

Init ==
  /\ pc = [l \in Launches |-> [r \in Ranks |-> "off"]]
  /\ id = [l \in Launches |-> [r \in Ranks |-> None]]
  /\ done = [l \in Launches |-> [r \in Ranks |-> <<>>]]
  /\ todo = [l \in Launches |-> [r \in Ranks |-> {}]]
  /\ pilot = [l \in Launches |-> [r \in Ranks |-> FALSE]]
  /\ phase = [l \in Launches |-> [r \in Ranks |-> IdlePhase]]
  /\ cursor = [l \in Launches |-> [r \in Ranks |-> 0]]
  /\ acc = [l \in Launches |-> [r \in Ranks |-> NoRecords]]
  /\ met = [l \in Launches |-> [r \in Ranks |-> 0]]
  /\ wire = [l \in Launches |-> <<>>]
  /\ gift = [l \in Launches |-> [r \in Ranks |-> None]]
  /\ roll = [l \in Launches |-> <<>>]
  /\ stop = [l \in Launches |-> FALSE]
  /\ lock = None
  /\ receipts = [s \in ShardIds |-> None]
  /\ smokefile = None
  /\ status = None

------------------------------------------------------------------------------
\* Start-up: launch, handshake, lock, scan of the receipts on disk.

\* torchrun starts both processes; nothing forces the nodes' arguments to agree.
Start(l, ids) ==
  /\ \A r \in Ranks : pc[l][r] = "off"
  /\ pc' = [pc EXCEPT ![l] = [r \in Ranks |-> "init"]]
  /\ id' = [id EXCEPT ![l] = ids]
  /\ UNCHANGED <<done, todo, pilot, phase, cursor, acc, network, lock, disk>>

\* all_gather_object of the identities, entered.
OfferIdentity(l, r) ==
  /\ pc[l][r] = "init"
  /\ Enter(l, r)
  /\ Goto(l, r, "peers")
  /\ UNCHANGED <<memory, wire, gift, roll, stop, lock, disk>>

\* Mutant: the identities are gathered but not compared.
PeersUnchecked(l) == TRUE

\* validate_peer_identities: both ranks refuse to go on when they disagree.
PeersAgree(l) == id[l][0] = id[l][1]

CheckPeers(l, r) ==
  /\ pc[l][r] = "peers"
  /\ BothEntered(l, r)
  /\ IF PeersAgree(l)
     THEN /\ Goto(l, r, IF r = 0 THEN "lock" ELSE "roll")
          /\ UNCHANGED <<memory, network, lock, disk>>
     ELSE Quits(l, r)

\* Mutant: the lock file is opened and not locked.
TakeNoLock(l) ==
  /\ pc[l][0] = "lock"
  /\ Goto(l, 0, "scan")
  /\ UNCHANGED <<memory, network, lock, disk>>

\* flock(LOCK_EX | LOCK_NB): the loser raises.
TakeLock(l) ==
  /\ pc[l][0] = "lock"
  /\ IF lock = None
     THEN /\ lock' = l
          /\ Goto(l, 0, "scan")
          /\ UNCHANGED <<memory, network, disk>>
     ELSE Quits(l, 0)

\* One iteration of the resume scan: an existing receipt must validate.
ScanShard(l) ==
  LET s == cursor[l][0] IN
  /\ pc[l][0] = "scan"
  /\ s < NumShards
  /\ IF receipts[s] # None /\ ~ValidReceipt(s, receipts[s], id[l][0].rt)
     THEN Quits(l, 0)
     ELSE /\ cursor' = [cursor EXCEPT ![l][0] = s + 1]
          /\ done' = [done EXCEPT ![l][0] =
                        IF receipts[s] # None THEN Append(@, s) ELSE @]
          /\ UNCHANGED <<pc, id, todo, pilot, phase, acc, network, lock, disk>>

\* Both ranks derive the same phase list from the committed list.
Plan(l, r, list) ==
  /\ done' = [done EXCEPT ![l][r] = list]
  /\ todo' = [todo EXCEPT ![l][r] = PlannedTodo(id[l][r].mode, list)]
  /\ pilot' = [pilot EXCEPT ![l][r] = PlannedPilot(id[l][r].mode, list)]
  /\ Goto(l, r, "loop")
  /\ UNCHANGED <<id, phase, cursor, acc>>

ShareCommitted(l) ==
  /\ pc[l][0] = "scan"
  /\ cursor[l][0] = NumShards
  /\ roll' = [roll EXCEPT ![l] = done[l][0]]
  /\ Enter(l, 0)
  /\ Plan(l, 0, done[l][0])
  /\ UNCHANGED <<wire, gift, stop, lock, disk>>

HearCommitted(l) ==
  /\ pc[l][1] = "roll"
  /\ Broadcast(l)
  /\ Enter(l, 1)
  /\ Plan(l, 1, roll[l])
  /\ UNCHANGED <<wire, gift, roll, stop, lock, disk>>

------------------------------------------------------------------------------
\* The phase loop.

\* Mutant: the accumulators are not reset between phases.
KeepObservations(l, r) == UNCHANGED acc

\* observation_phases: reset_observations, then yield the next phase.
ResetObservations(l, r) == acc' = [acc EXCEPT ![l][r] = NoRecords]

\* Mutant: production takes the shards in another order.
BeginLastPhase(l, r) ==
  /\ pc[l][r] = "loop"
  /\ \E s \in todo[l][r] :
       /\ \A t \in todo[l][r] : t <= s
       /\ phase' = [phase EXCEPT ![l][r] = [shard |-> s, smoke |-> FALSE]]
       /\ todo' = [todo EXCEPT ![l][r] = @ \ {s}]
  /\ pilot' = [pilot EXCEPT ![l][r] = FALSE]
  /\ cursor' = [cursor EXCEPT ![l][r] = First(phase'[l][r])]
  /\ ResetObservations(l, r)
  /\ Goto(l, r, "forward")
  /\ UNCHANGED <<id, done, network, lock, disk>>

BeginPhase(l, r) ==
  /\ pc[l][r] = "loop"
  /\ \/ /\ pilot[l][r]
        /\ phase' = [phase EXCEPT ![l][r] = [shard |-> FirstShard, smoke |-> TRUE]]
        /\ UNCHANGED todo
     \/ /\ ~pilot[l][r]
        /\ \E s \in todo[l][r] :
             /\ \A t \in todo[l][r] : s <= t
             /\ phase' = [phase EXCEPT ![l][r] = [shard |-> s, smoke |-> FALSE]]
             /\ todo' = [todo EXCEPT ![l][r] = @ \ {s}]
  /\ pilot' = [pilot EXCEPT ![l][r] = FALSE]
  /\ cursor' = [cursor EXCEPT ![l][r] = First(phase'[l][r])]
  /\ ResetObservations(l, r)
  /\ Goto(l, r, "forward")
  /\ UNCHANGED <<id, done, network, lock, disk>>

\* A rank adds the record it forwards to its accumulators.
Observe(l, r, n) ==
  /\ acc' = [acc EXCEPT ![l][r][n] = @ + 1]
  /\ cursor' = [cursor EXCEPT ![l][r] = @ + 1]

MoreRecords(l, r) == cursor[l][r] < Bound(phase[l][r])

\* Rank 0 runs its layers, then sends ids and hidden state.
Forward(l) ==
  /\ pc[l][0] = "forward"
  /\ MoreRecords(l, 0)
  /\ Observe(l, 0, cursor[l][0])
  /\ wire' = [wire EXCEPT ![l] = Append(@, cursor[l][0])]
  /\ UNCHANGED <<pc, id, done, todo, pilot, phase, met, gift, roll, stop, lock, disk>>

\* Rank 1 compares the ids with its own record and runs the remaining layers.
Receive(l) ==
  /\ pc[l][1] = "forward"
  /\ MoreRecords(l, 1)
  /\ wire[l] # <<>>
  /\ IF Head(wire[l]) = cursor[l][1]
     THEN /\ Observe(l, 1, Head(wire[l]))
          /\ wire' = [wire EXCEPT ![l] = Tail(@)]
          /\ UNCHANGED <<pc, id, done, todo, pilot, phase, met, gift, roll, stop, lock, disk>>
     ELSE Quits(l, 1)

\* _export_stage and the gather of both ranks' aggregates, entered.
Export(l, r) ==
  /\ pc[l][r] = "forward"
  /\ ~MoreRecords(l, r)
  /\ gift' = [gift EXCEPT ![l][r] =
                [phase |-> phase[l][r], rt |-> id[l][r].rt, acc |-> acc[l][r]]]
  /\ Enter(l, r)
  /\ Goto(l, r, "gather")
  /\ UNCHANGED <<memory, wire, roll, stop, lock, disk>>

\* _merge_stage_range and make_receipt on the two gathered payloads: both must be
\* there, cover the record range of this rank's phase and name this runtime.
Observations(l) == [q \in Ranks |-> gift[l][q].acc]
SameRange(p, q) == p.shard = q.shard /\ Bound(p) = Bound(q)
Mergeable(l, r) ==
  /\ \A q \in Ranks :
       /\ gift[l][q] # None
       /\ SameRange(gift[l][q].phase, phase[l][r])
       /\ gift[l][q].rt = id[l][r].rt
  /\ Counted(phase[l][r], Observations(l))

\* Mutant: a pilot is written to the shard's receipt path.
PublishAlwaysReceipt(l) ==
  /\ receipts' = [receipts EXCEPT ![phase[l][0].shard] =
                    [rt |-> id[l][0].rt, obs |-> Observations(l)]]
  /\ UNCHANGED <<smokefile, status>>

\* Rank 0 publishes: the smoke file, or the shard receipt, which is the commit.
Publish(l) ==
  LET p == phase[l][0]
      receipt == [rt |-> id[l][0].rt, obs |-> Observations(l)]
  IN IF p.smoke
     THEN /\ smokefile' = [phase |-> p, receipt |-> receipt]
          /\ UNCHANGED <<receipts, status>>
     ELSE /\ receipts' = [receipts EXCEPT ![p.shard] = receipt]
          /\ UNCHANGED <<smokefile, status>>

Merge(l, r) ==
  /\ pc[l][r] = "gather"
  /\ BothEntered(l, r)
  /\ IF Mergeable(l, r)
     THEN /\ IF r = 0 THEN Publish(l) ELSE UNCHANGED disk
          /\ Enter(l, r)
          /\ Goto(l, r, "barrier")
          /\ UNCHANGED <<memory, wire, gift, roll, stop, lock>>
     ELSE Quits(l, r)

\* Past the barrier: a standalone smoke run returns, a qualification goes on to
\* production, a production phase is listed and the pause file looked at.
PassBarrier(l, r) ==
  /\ pc[l][r] = "barrier"
  /\ BothEntered(l, r)
  /\ IF phase[l][r].smoke /\ id[l][r].mode = "smoke"
     THEN Quits(l, r)
     ELSE /\ Goto(l, r, IF phase[l][r].smoke THEN "loop" ELSE "poll")
          /\ done' = [done EXCEPT ![l][r] =
                        IF phase[l][r].smoke THEN @ ELSE Append(@, phase[l][r].shard)]
          /\ UNCHANGED <<id, todo, pilot, phase, cursor, acc, network, lock, disk>>

\* The operator creates and removes the pause file at any time.
PollPause(l) ==
  /\ pc[l][0] = "poll"
  /\ \E present \in BOOLEAN :
       /\ stop' = [stop EXCEPT ![l] = present]
       /\ Goto(l, 0, IF present THEN "paused" ELSE "loop")
  /\ Enter(l, 0)
  /\ UNCHANGED <<memory, wire, gift, roll, lock, disk>>

HearPause(l) ==
  /\ pc[l][1] = "poll"
  /\ Broadcast(l)
  /\ Enter(l, 1)
  /\ Goto(l, 1, IF stop[l] THEN "paused" ELSE "loop")
  /\ UNCHANGED <<memory, wire, gift, roll, stop, lock, disk>>

\* Mutant: a paused run reports the same state as a complete one.
SummaryComplete(l, r) ==
  [state |-> "RECORD_LOCAL_COMPLETE", completed |-> done[l][r]]

\* The loop is over: rank 0 writes record-status.json, the process returns.
Summary(l, r) ==
  [state |-> IF pc[l][r] = "paused" THEN "PAUSED_AT_RECORD_SHARD" ELSE "RECORD_LOCAL_COMPLETE",
   completed |-> done[l][r]]

Conclude(l, r) ==
  /\ \/ pc[l][r] = "paused"
     \/ pc[l][r] = "loop" /\ ~pilot[l][r] /\ todo[l][r] = {}
  /\ Ends(l, r)
  /\ status' = IF r = 0 THEN Summary(l, r) ELSE status
  /\ UNCHANGED <<receipts, smokefile>>

------------------------------------------------------------------------------
\* Failures and the operator.

\* What a rank waits for, when only its peer can provide it.
Blocked(l, r) ==
  \/ pc[l][r] \in {"peers", "gather", "barrier"} /\ ~BothEntered(l, r)
  \/ r = 1 /\ pc[l][r] \in {"roll", "poll"} /\ ~Broadcast(l)
  \/ r = 1 /\ pc[l][r] = "forward" /\ MoreRecords(l, r) /\ wire[l] = <<>>

\* Mutant: only rank 1 was given a timeout.
TimeOutRankOne(l, r) ==
  /\ r = 1
  /\ Blocked(l, r)
  /\ pc[l][Peer(r)] = "off"
  /\ Quits(l, r)

\* The process-group timeout fires on a peer that is gone.
TimeOut(l, r) ==
  /\ Blocked(l, r)
  /\ pc[l][Peer(r)] = "off"
  /\ Quits(l, r)

\* A process dies: killed, out of memory, load_stage refused, a peer too slow.
Crash(l, r) == pc[l][r] # "off" /\ Quits(l, r)

RankStep(l, r) ==
  \/ OfferIdentity(l, r) \/ CheckPeers(l, r) \/ BeginPhase(l, r) \/ Export(l, r)
  \/ Merge(l, r) \/ PassBarrier(l, r) \/ Conclude(l, r)
  \/ r = 0 /\ (TakeLock(l) \/ ScanShard(l) \/ ShareCommitted(l) \/ Forward(l) \/ PollPause(l))
  \/ r = 1 /\ (HearCommitted(l) \/ Receive(l) \/ HearPause(l))

Next ==
  \/ \E l \in Launches : \E ids \in [Ranks -> Identities] : Start(l, ids)
  \/ \E l \in Launches, r \in Ranks : RankStep(l, r) \/ TimeOut(l, r) \/ Crash(l, r)

Spec == Init /\ [][Next]_vars

\* A live process runs until it blocks, and a blocked collective times out.
Fairness == \A l \in Launches, r \in Ranks :
              WF_vars(RankStep(l, r)) /\ WF_vars(TimeOut(l, r))
FairSpec == Spec /\ Fairness
------------------------------------------------------------------------------
(* Properties. *)

\* Every variable keeps its type.
MemoryOK ==
  /\ pc \in [Launches -> [Ranks ->
       {"off", "init", "peers", "lock", "scan", "roll", "loop", "forward",
        "gather", "barrier", "poll", "paused"}]]
  /\ id \in [Launches -> [Ranks -> Identities \cup {None}]]
  /\ done \in [Launches -> [Ranks -> Seq(ShardIds)]]
  /\ todo \in [Launches -> [Ranks -> SUBSET ShardIds]]
  /\ pilot \in [Launches -> [Ranks -> BOOLEAN]]
  /\ phase \in [Launches -> [Ranks -> Phase]]
  /\ cursor \in [Launches -> [Ranks -> Nat]]
  /\ acc \in [Launches -> Stats]

NetworkOK ==
  /\ met \in [Launches -> [Ranks -> Nat]]
  /\ wire \in [Launches -> Seq(Records)]
  /\ gift \in [Launches -> [Ranks -> Payload \cup {None}]]
  /\ roll \in [Launches -> Seq(ShardIds)]
  /\ stop \in [Launches -> BOOLEAN]

DiskOK ==
  /\ receipts \in [ShardIds -> {None} \cup Receipt]
  /\ smokefile \in {None} \cup [phase : Phase, receipt : Receipt]
  /\ status \in {None} \cup
       [state : {"PAUSED_AT_RECORD_SHARD", "RECORD_LOCAL_COMPLETE"}, completed : Seq(ShardIds)]

TypeOK == MemoryOK /\ NetworkOK /\ DiskOK /\ lock \in Launches \cup {None}

\* Every receipt on disk counts each record of its shard exactly once in the
\* layers of both ranks and nothing else: no pilot record, no record of another
\* shard, no replay after a crash.  The smoke file counts its one record once.
Exact(p, obs) == \A r \in Ranks : obs[r] = Exactly(p)
ExactReceipts ==
  /\ \A s \in ShardIds : receipts[s] # None =>
       Exact([shard |-> s, smoke |-> FALSE], receipts[s].obs)
  /\ smokefile # None => smokefile.phase.smoke /\ Exact(smokefile.phase, smokefile.receipt.obs)

\* The committed shards are always a prefix of the manifest, whatever launches
\* crashed: what the sealer requires of completed_shards.
Committed == {s \in ShardIds : receipts[s] # None}
CommittedPrefix == \A s \in Committed : \A t \in ShardIds : t < s => t \in Committed

\* Receipts of launches with different runtimes never mix in one output root.
OneRuntime == \A s, t \in Committed : receipts[s].rt = receipts[t].rt

\* A committed receipt is never rewritten: restart replays only shards without one.
CommitOnce == [][\A s \in Committed : receipts'[s] = receipts[s]]_receipts

\* A launch captures only shards that have no receipt yet: after a crash it goes
\* on at the next uncommitted shard.
CapturesOnlyMissing ==
  \A l \in Launches : pc[l][0] = "forward" /\ ~phase[l][0].smoke =>
    phase[l][0].shard \notin Committed

\* record-status.json never claims more than is on disk: its list is 0..k-1, in
\* order and without repetition, each with a receipt; COMPLETE means all shards.
StatusHonest ==
  status # None =>
    /\ \A i \in 1 .. Len(status.completed) : status.completed[i] = i - 1
    /\ Listed(status.completed) \subseteq Committed
    /\ status.state = "RECORD_LOCAL_COMPLETE" => Committed = ShardIds
    /\ status.state = "PAUSED_AT_RECORD_SHARD" => status.completed # <<>>

\* The ranks of one launch never wait for each other: no gather against a
\* receive, no barrier against a broadcast.
NoMutualWait == \A l \in Launches : ~(Blocked(l, 0) /\ Blocked(l, 1))

\* Once the handshake has passed, the content checks of the pipeline refuse
\* nothing the pipeline itself produced: ids match, gathered statistics merge, and
\* a receipt on disk fails the resume scan only under another runtime.
NoSelfRefusal ==
  \A l \in Launches :
    /\ pc[l][1] = "forward" /\ wire[l] # <<>> =>
         MoreRecords(l, 1) /\ Head(wire[l]) = cursor[l][1]
    /\ \A r \in Ranks : pc[l][r] = "gather" /\ BothEntered(l, r) => Mergeable(l, r)
    /\ \A s \in Committed : pc[l][0] = "scan" /\ ~ValidReceipt(s, receipts[s], id[l][0].rt) =>
         receipts[s].rt # id[l][0].rt

\* Every launch ends and so gives the lock back, whichever of its processes die.
EveryLaunchEnds == \A l \in Launches : pc[l][0] # "off" ~> pc[l][0] = "off"
------------------------------------------------------------------------------
\* The capture implements the ledger: the lock is the open ledger, the receipts
\* on disk are its entries, record-status.json is its summary.  Handshakes, scans,
\* pilots and everything in process memory are invisible steps.
Ledger == INSTANCE ShardLedger WITH
  Shards <- ShardIds,
  ExactStats <- [s \in ShardIds |-> [r \in Ranks |-> Exactly([shard |-> s, smoke |-> FALSE])]],
  open <- lock # None,
  ledger <- receipts,
  summary <- status

ImplementsLedger == Ledger!Spec

\* The completion driver implements the ledger of the tail: it replays shards it
\* committed before, and a replay writes what was there.
TailRoot == INSTANCE TailLedger WITH
  Low <- FirstShard,
  High <- NumShards - 1,
  ExactStats <- [s \in ShardIds |-> [r \in Ranks |-> Exactly([shard |-> s, smoke |-> FALSE])]],
  open <- lock # None,
  ledger <- [s \in FirstShard .. (NumShards - 1) |-> receipts[s]],
  summary <- status

ImplementsTail == TailRoot!Spec
==============================================================================
