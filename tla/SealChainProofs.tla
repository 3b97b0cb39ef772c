----------------------------- MODULE SealChainProofs -----------------------------
(***************************************************************************)
(* SealChain for any manifest, any number of runtimes and domains.  The    *)
(* original root stands still under the sealer, which holds its lock; the  *)
(* completion root does not under the merge, which holds none, but what    *)
(* is in a root never changes, so a list that was right once stays right.  *)
(* What a program has added up is, shard by shard, what it has walked over *)
(* of its list.                                                            *)
(***************************************************************************)
EXTENDS SealChain, SequenceTheorems, TLAPS

------------------------------------------------------------------------------
(* The invariant. *)

TailShards == FirstShard .. NumShards - 1

\* Receipts of the original root are exact, without a gap, of one runtime; a status lists some of them.
LedgerInv ==
  /\ \A s \in ShardIds : ledger[s] # None =>
       ledger[s].obs = Once({s}) /\ \A t \in ShardIds : t < s => ledger[t] # None
  /\ \A s, t \in ShardIds : ledger[s] # None /\ ledger[t] # None => ledger[s].rt = ledger[t].rt
  /\ summary # None =>
       \A i \in 1 .. Len(summary.completed) :
         summary.completed[i] = i - 1 /\ ledger[summary.completed[i]] # None

\* The list of a complete tail: the f shards the driver found, then the whole tail.
Replayed(list, f) ==
  /\ Len(list) = f + NumShards - FirstShard
  /\ \A i \in 1 .. Len(list) : list[i] = IF i <= f THEN FirstShard + i - 1 ELSE FirstShard + i - f - 1

\* The same of the completion root, whose status may list a shard twice.
TailInv ==
  /\ \A s \in TailShards : tailLedger[s] # None => tailLedger[s].obs = Once({s})
  /\ \A s, t \in TailShards : tailLedger[s] # None /\ tailLedger[t] # None => tailLedger[s].rt = tailLedger[t].rt
  /\ tailSummary # None =>
       \A i \in 1 .. Len(tailSummary.completed) :
         tailSummary.completed[i] \in TailShards /\ tailLedger[tailSummary.completed[i]] # None
  /\ tailSummary # None /\ tailSummary.state = "RECORD_LOCAL_COMPLETE" =>
       \E f \in Nat : Replayed(tailSummary.completed, f)

LockInv ==
  /\ lock = "seal" <=> pc["seal"] # "off"
  /\ pc["seal"] # "partial"

\* Totals that count the shards below n once.
Counted(a, n) ==
  /\ a.total = Once(0 .. n - 1)
  /\ \A d \in Domains : a.domains[d] = Once(Homogeneous(d, 0 .. n - 1))

\* The runtime of a walk over a root is fixed by its first receipt.
PinnedTo(v, S, root) == IF v.next = 0 THEN v.rt = None ELSE \A s \in S : root[s].rt = v.rt

\* The first file of the seal, where it is whole.
SealedFile(a) ==
  /\ a.ids # <<>> /\ Len(a.ids) <= NumShards /\ IsRange(a.ids, 0, Len(a.ids))
  /\ Counted(a, Len(a.ids))
  /\ \A s \in 0 .. Len(a.ids) - 1 : ledger[s] # None /\ ledger[s].rt = a.rt
  /\ a.state = Kind(a.ids)

\* The first file of the merge, beside a seal whose prefix has k shards.
MergedFile(a, k) ==
  /\ Listed(a.ids) = ShardIds
  /\ Counted(a, NumShards)
  /\ \A s \in 0 .. k - 1 : ledger[s].rt = a.rt
  /\ \A s \in k .. NumShards - 1 : s \in TailShards /\ tailLedger[s] # None /\ tailLedger[s].rt = a.tailrt

Made(p) == out[p] # None /\ out[p] # <<>> /\ out[p][1] # Torn

\* Only the last file is torn, and a seal names the files beside it.
InOrder(p) ==
  out[p] # None =>
    /\ \A n \in 1 .. Len(out[p]) - 1 : out[p][n] # Torn
    /\ Sealed(p) => out[p][3].digests = SubSeq(out[p], 1, 2)

OutInv ==
  /\ \A p \in Programs : InOrder(p)
  /\ Made("seal") => SealedFile(out["seal"][1])
  /\ Made("merge") => Made("seal") /\ MergedFile(out["merge"][1], Len(out["seal"][1].ids))

\* What the sealer works on: the whole root, which stands still.
SealInv ==
  LET v == view["seal"] IN
  /\ pc["seal"] \in {"off", "status"} => v = Empty
  /\ pc["seal"] \in {"add", "write"} =>
       /\ v.ids # <<>> /\ IsRange(v.ids, 0, Len(v.ids))
       /\ Original!Present = 0 .. Len(v.ids) - 1
       /\ v.next <= Len(v.ids) /\ Counted(v, v.next)
       /\ PinnedTo(v, Original!Present, ledger)
  /\ pc["seal"] = "write" => v.next = Len(v.ids) /\ out["seal"] # None

\* What the merge works on: a proper prefix that is sealed, and the tail it lacks.
MergeInv ==
  LET v == view["merge"]
      k == Len(v.base.ids)
  IN
  /\ pc["merge"] = "off" => v = Empty
  /\ pc["merge"] # "off" => Made("seal") /\ v.base = out["seal"][1]
  /\ pc["merge"] \in {"partial", "status"} => v.next = 0 /\ v.rt = None
  /\ pc["merge"] \in {"status", "add", "write"} => k < NumShards
  /\ pc["merge"] \in {"add", "write"} =>
       /\ IsRange(v.ids, k, NumShards)
       /\ \A s \in k .. NumShards - 1 : s \in TailShards /\ tailLedger[s] # None
       /\ v.next <= Len(v.ids) /\ Counted(v, k + v.next)
       /\ PinnedTo(v, k .. NumShards - 1, tailLedger)
  /\ pc["merge"] = "write" => v.next = Len(v.ids) /\ out["merge"] # None

IInv == TypeOK /\ LedgerInv /\ TailInv /\ LockInv /\ OutInv /\ SealInv /\ MergeInv
------------------------------------------------------------------------------
(* Bags of shards. *)

LEMMA Sizes ==
  /\ NumShards \in Nat /\ NumShards >= 1 /\ FirstShard \in ShardIds /\ ShardIds \subseteq Nat
  /\ TailShards \subseteq ShardIds /\ FirstShard \in Nat /\ FirstShard < NumShards
  BY ShardsAssumption DEF ShardIds, TailShards

LEMMA OnceIs ==
  ASSUME NEW S
  PROVE  Once(S) \in Bag /\ \A t \in ShardIds : Once(S)[t] = IF t \in S THEN 1 ELSE 0
  BY DEF Once, Bag

LEMMA PlusIs ==
  ASSUME NEW a \in Bag, NEW b \in Bag
  PROVE  Plus(a, b) \in Bag
  BY DEF Plus, Bag

\* A shard that is not counted yet is counted once more.
LEMMA OnceMore ==
  ASSUME NEW S, NEW s \in ShardIds, s \notin S
  PROVE  Plus(Once(S), Once({s})) = Once(S \cup {s})
  BY DEF Plus, Once

LEMMA NothingIs == Nothing = Once({}) /\ Nothing \in Bag
  BY DEF Nothing, Once, Bag

\* One step of the aggregation: the shards below n were counted, then n is.
LEMMA CountOne ==
  ASSUME NEW a, NEW n \in ShardIds, Counted(a, n)
  PROVE  /\ Plus(a.total, Once({n})) = Once(0 .. n)
         /\ \A d \in Domains :
              AddToDomain(a.domains, n, Once({n}))[d] = Once(Homogeneous(d, 0 .. n))
  <1>1. n \in Nat /\ 0 .. n = (0 .. n - 1) \cup {n} /\ n \notin 0 .. n - 1
    BY Sizes
  <1>2. Plus(a.total, Once({n})) = Once(0 .. n)
    BY <1>1, OnceMore DEF Counted
  <1>3. ASSUME NEW d \in Domains
        PROVE  AddToDomain(a.domains, n, Once({n}))[d] = Once(Homogeneous(d, 0 .. n))
    <2>1. a.domains[d] = Once(Homogeneous(d, 0 .. n - 1))
      BY DEF Counted
    <2>2. CASE DomainsOf[n] = {d}
      <3>1. /\ Homogeneous(d, 0 .. n) = Homogeneous(d, 0 .. n - 1) \cup {n}
            /\ n \notin Homogeneous(d, 0 .. n - 1)
        BY <1>1, <2>2 DEF Homogeneous
      <3>2. Plus(Once(Homogeneous(d, 0 .. n - 1)), Once({n})) = Once(Homogeneous(d, 0 .. n))
        BY <3>1, OnceMore
      <3>. QED  BY <2>1, <2>2, <3>2 DEF AddToDomain
    <2>3. CASE DomainsOf[n] # {d}
      <3>1. Homogeneous(d, 0 .. n) = Homogeneous(d, 0 .. n - 1)
        BY <1>1, <2>3 DEF Homogeneous
      <3>. QED  BY <2>1, <2>3, <3>1 DEF AddToDomain
    <2>. QED  BY <2>2, <2>3
  <1>. QED  BY <1>2, <1>3

LEMMA CountedTypes ==
  ASSUME NEW domains \in [Domains -> Bag], NEW s \in ShardIds, NEW obs \in Bag
  PROVE  AddToDomain(domains, s, obs) \in [Domains -> Bag]
  BY PlusIs DEF AddToDomain

LEMMA EmptyIs ==
  Empty \in Views /\ Empty.ids = <<>> /\ Empty.next = 0 /\ Empty.rt = None
  /\ Empty.total = Nothing /\ Empty.base = None /\ \A d \in Domains : Empty.domains[d] = Nothing
  BY NothingIs DEF Empty, Views

\* Before the first shard nothing is counted.
LEMMA CountedNone ==
  ASSUME NEW a, a.total = Nothing, \A d \in Domains : a.domains[d] = Nothing
  PROVE  Counted(a, 0)
  <1>1. 0 .. 0 - 1 = {} /\ \A d \in Domains : Homogeneous(d, {}) = {}
    BY DEF Homogeneous
  <1>. QED  BY <1>1, NothingIs DEF Counted

------------------------------------------------------------------------------
(* What an action leaves alone. *)

\* The roots only grow.
Grown ==
  /\ \A s \in ShardIds : ledger[s] # None => ledger'[s] = ledger[s]
  /\ \A s \in TailShards : tailLedger[s] # None => tailLedger'[s] = tailLedger[s]

\* What a program has written whole stays.
OutKeeps ==
  /\ \A p \in Programs : out[p] # None => out'[p] # None
  /\ Made("seal") => Made("seal")' /\ out'["seal"][1] = out["seal"][1]

RootsStay == UNCHANGED <<made, ledger, summary, tailRoot>>

LEMMA TwoPrograms == "seal" \in Programs /\ "merge" \in Programs /\ \A p \in Programs : p = "seal" \/ p = "merge"
  BY DEF Programs

LEMMA SealedFileStays ==
  ASSUME NEW a, SealedFile(a), Grown, a.ids \in Seq(ShardIds)
  PROVE  SealedFile(a)'
  <1>1. \A s \in 0 .. Len(a.ids) - 1 : s \in ShardIds
    BY Sizes DEF SealedFile, ShardIds
  <1>. QED  BY <1>1 DEF SealedFile, Grown, Counted

LEMMA MergedFileStays ==
  ASSUME NEW a, NEW k, MergedFile(a, k), Grown,
         k \in 0 .. NumShards, \A s \in 0 .. k - 1 : ledger[s] # None
  PROVE  MergedFile(a, k)'
  <1>1. \A s \in 0 .. k - 1 : s \in ShardIds
    BY Sizes DEF ShardIds
  <1>. QED  BY <1>1 DEF MergedFile, Grown, Counted

\* Where a seal was made its first file is what it says, and of a prefix.
LEMMA SealFirst ==
  ASSUME IInv, Made("seal")
  PROVE  /\ out["seal"][1] \in Observations /\ SealedFile(out["seal"][1])
         /\ out["seal"][1].ids \in Seq(ShardIds)
         /\ Len(out["seal"][1].ids) \in 1 .. NumShards
         /\ \A s \in 0 .. Len(out["seal"][1].ids) - 1 : s \in ShardIds /\ ledger[s] # None
  <1>1. out["seal"] \in Seq(OutputFiles) /\ out["seal"] # <<>>
    BY TwoPrograms DEF Made, IInv, TypeOK
  <1>2. 1 \in 1 .. Len(out["seal"])
    BY <1>1
  <1>3. out["seal"][1] \in Written(1)
    BY <1>2, TwoPrograms DEF Made, IInv, TypeOK
  <1>4. out["seal"][1] \in Observations
    BY <1>3 DEF Written
  <1>5. SealedFile(out["seal"][1]) /\ out["seal"][1].ids \in Seq(ShardIds)
    BY <1>4 DEF IInv, OutInv, Observations
  <1>. QED  BY <1>4, <1>5, Sizes DEF SealedFile, ShardIds

LEMMA OutStays ==
  ASSUME IInv, Grown, UNCHANGED out
  PROVE  OutInv'
  <1>1. (\A p \in Programs : InOrder(p))'
    BY DEF IInv, OutInv, InOrder, Sealed, Writing
  <1>2. PICK a : a = out["seal"][1]
    OBVIOUS
  <1>3. PICK b : b = out["merge"][1]
    OBVIOUS
  <1>4. PICK k : k = Len(out["seal"][1].ids)
    OBVIOUS
  <1>5. Made("seal")' => SealedFile(a)'
    BY <1>2, SealFirst, SealedFileStays DEF Made
  <1>6. Made("merge")' => Made("seal")' /\ MergedFile(b, k)'
    <2>. SUFFICES ASSUME Made("merge")' PROVE Made("seal")' /\ MergedFile(b, k)'
      OBVIOUS
    <2>1. Made("seal") /\ MergedFile(b, k)
      BY <1>3, <1>4 DEF Made, IInv, OutInv
    <2>2. k \in 0 .. NumShards /\ \A s \in 0 .. k - 1 : ledger[s] # None
      BY <1>4, <2>1, SealFirst, Sizes
    <2>3. MergedFile(b, k)'
      BY <2>1, <2>2, MergedFileStays
    <2>. QED  BY <2>1, <2>3 DEF Made
  <1>7. (Made("seal") => SealedFile(out["seal"][1]))'
    BY <1>2, <1>5
  <1>8. (Made("merge") => Made("seal") /\ MergedFile(out["merge"][1], Len(out["seal"][1].ids)))'
    BY <1>3, <1>4, <1>6
  <1>. QED  BY <1>1, <1>7, <1>8 DEF OutInv

LEMMA SealStays ==
  ASSUME IInv, pc'["seal"] = pc["seal"], view'["seal"] = view["seal"],
         ledger' = ledger \/ pc["seal"] = "off", OutKeeps
  PROVE  SealInv'
  BY TwoPrograms DEF IInv, SealInv, OutKeeps, PinnedTo, Counted, Original!Present

LEMMA MergeStays ==
  ASSUME IInv, pc'["merge"] = pc["merge"], view'["merge"] = view["merge"], Grown, OutKeeps
  PROVE  MergeInv'
  <1>. DEFINE v == view["merge"]  k == Len(v.base.ids)
  <1>1. /\ pc["merge"] = "off" => v = Empty
        /\ pc["merge"] # "off" => Made("seal")' /\ v.base = out'["seal"][1]
        /\ pc["merge"] \in {"partial", "status"} => v.next = 0 /\ v.rt = None
        /\ pc["merge"] \in {"status", "add", "write"} => k < NumShards
        /\ pc["merge"] = "write" => v.next = Len(v.ids) /\ out'["merge"] # None
    BY TwoPrograms DEF IInv, MergeInv, OutKeeps
  <1>2. pc["merge"] \in {"add", "write"} =>
          /\ IsRange(v.ids, k, NumShards)
          /\ \A s \in k .. NumShards - 1 : s \in TailShards /\ tailLedger'[s] # None
          /\ v.next <= Len(v.ids) /\ Counted(v, k + v.next)
          /\ IF v.next = 0 THEN v.rt = None ELSE \A s \in k .. NumShards - 1 : tailLedger'[s].rt = v.rt
    BY DEF IInv, MergeInv, Grown, PinnedTo
  <1>. HIDE DEF v, k
  <1>3. view'["merge"] = v /\ Len(view'["merge"].base.ids) = k
    BY DEF v, k
  <1>. QED  BY <1>1, <1>2, <1>3 DEF MergeInv, PinnedTo, Counted

------------------------------------------------------------------------------
(* The writers of the roots. *)

RootsTyped ==
  /\ ledger \in [ShardIds -> Receipts \cup {None}]
  /\ tailLedger \in [TailShards -> Receipts \cup {None}]
  /\ summary \in Summaries \cup {None} /\ tailSummary \in Summaries \cup {None}
  /\ made \in BOOLEAN /\ tailOpen \in BOOLEAN

LEMMA RootTypes == IInv => RootsTyped
  BY DEF IInv, TypeOK, RootsTyped, TailShards

\* The receipt of a shard is exact and is not None.
LEMMA NewReceipt ==
  ASSUME NEW s \in ShardIds, NEW rt \in Runtimes
  PROVE  /\ [rt |-> rt, obs |-> ExactStats[s]] \in Receipts
         /\ [rt |-> rt, obs |-> ExactStats[s]] # None
         /\ ExactStats[s] = Once({s})
  BY OnceIs, NoneAssumption DEF Receipts, ExactStats

\* The writer of the original root works only when the sealer does not.
LEMMA WriterLock ==
  ASSUME IInv, WriterStep
  PROVE  pc["seal"] = "off" /\ lock' \in {None, "writer"} /\ lock' # "seal"
  BY NoneAssumption
  DEF IInv, TypeOK, LockInv, WriterStep, Original!Open, Original!Abandon, Original!CommitNext, Original!Close

LEMMA WriterKeeps ==
  ASSUME IInv, WriterStep
  PROVE  LedgerInv' /\ RootsTyped' /\ Grown
  <1>. UNCHANGED <<tailOpen, tailLedger, tailSummary>> /\ made' = TRUE
    BY DEF WriterStep, tailRoot
  <1>. LedgerInv /\ RootsTyped
    BY RootTypes DEF IInv
  <1>1. CASE UNCHANGED <<ledger, summary>>
    BY <1>1 DEF LedgerInv, RootsTyped, Grown
  <1>2. ASSUME NEW rt \in Runtimes, Original!CommitNext(rt)
        PROVE  LedgerInv' /\ RootsTyped' /\ Grown
    <2>1. PICK s \in ShardIds :
            /\ ledger[s] = None
            /\ \A t \in ShardIds : ledger[t] = None => s <= t
            /\ ledger' = [ledger EXCEPT ![s] = [rt |-> rt, obs |-> ExactStats[s]]]
      BY <1>2 DEF Original!CommitNext, Original!Present
    <2>2. \A t \in ShardIds : ledger[t] # None => ledger[t].rt = rt
      BY <1>2 DEF Original!CommitNext, Original!Present
    <2>3. summary' = summary
      BY <1>2 DEF Original!CommitNext
    <2>4. PICK r \in Receipts : r # None /\ r.rt = rt /\ r.obs = Once({s}) /\ ledger' = [ledger EXCEPT ![s] = r]
      BY <2>1, NewReceipt
    <2>5. Grown
      BY <2>1, <2>4 DEF Grown, RootsTyped
    <2>6. RootsTyped'
      BY <2>3, <2>4 DEF RootsTyped
    <2>7. ledger'[s] = r /\ \A t \in ShardIds : t # s => ledger'[t] = ledger[t]
      BY <2>4 DEF RootsTyped
    <2>8. (\A t \in ShardIds : ledger[t] # None =>
             ledger[t].obs = Once({t}) /\ \A u \in ShardIds : u < t => ledger[u] # None)'
      <3>1. \A u \in ShardIds : ledger[u] # None => ledger'[u] # None
        BY <2>1, <2>7
      <3>2. \A u \in ShardIds : u < s => ledger[u] # None
        BY <2>1, Sizes
      <3>3. ASSUME NEW t \in ShardIds, ledger'[t] # None
            PROVE  ledger'[t].obs = Once({t}) /\ \A u \in ShardIds : u < t => ledger'[u] # None
        BY <2>4, <2>7, <3>1, <3>2, <3>3 DEF LedgerInv
      <3>. QED  BY <3>3
    <2>9. (\A t, u \in ShardIds : ledger[t] # None /\ ledger[u] # None => ledger[t].rt = ledger[u].rt)'
      BY <2>2, <2>4, <2>7 DEF LedgerInv
    <2>10. summary # None => \A i \in 1 .. Len(summary.completed) : summary.completed[i] \in ShardIds
      BY DEF RootsTyped, Summaries
    <2>11. (summary # None => \A i \in 1 .. Len(summary.completed) :
              summary.completed[i] = i - 1 /\ ledger[summary.completed[i]] # None)'
      BY <2>3, <2>4, <2>7, <2>10 DEF LedgerInv
    <2>. QED  BY <2>5, <2>6, <2>8, <2>9, <2>11 DEF LedgerInv
  <1>3. ASSUME NEW state \in {"PAUSED_AT_RECORD_SHARD", "RECORD_LOCAL_COMPLETE"}, Original!Close(state)
        PROVE  LedgerInv' /\ RootsTyped' /\ Grown
    <2>1. PICK k \in {s + 1 : s \in ShardIds} \cup {0} :
            /\ Original!Present = 0 .. (k - 1)
            /\ summary' = [state |-> state, completed |-> [i \in 1 .. k |-> i - 1]]
      BY <1>3 DEF Original!Close
    <2>2. k \in Nat /\ ledger' = ledger
      BY <1>3, <2>1, Sizes DEF Original!Close
    <2>3. \A i \in 1 .. k : i - 1 \in ShardIds /\ ledger[i - 1] # None
      BY <2>1, <2>2 DEF Original!Present
    <2>4. [i \in 1 .. k |-> i - 1] \in Seq(ShardIds) /\ Len([i \in 1 .. k |-> i - 1]) = k
      BY <2>2, <2>3
    <2>5. summary' \in Summaries
      BY <2>1, <2>4 DEF Summaries
    <2>. QED  BY <2>1, <2>2, <2>3, <2>4, <2>5 DEF LedgerInv, RootsTyped, Grown
  <1>. QED  BY <1>1, <1>2, <1>3 DEF WriterStep, Original!Open, Original!Abandon

LEMMA TailKeeps ==
  ASSUME IInv, CompletionStep
  PROVE  TailInv' /\ RootsTyped' /\ Grown
  <1>. UNCHANGED <<made, ledger, summary>>
    BY DEF CompletionStep
  <1>. TailInv /\ RootsTyped
    BY RootTypes DEF IInv
  <1>1. CASE UNCHANGED <<tailLedger, tailSummary>> /\ tailOpen' \in BOOLEAN
    BY <1>1 DEF TailInv, RootsTyped, Grown
  <1>2. ASSUME NEW rt \in Runtimes, Completion!Root!CommitNext(rt)
        PROVE  TailInv' /\ RootsTyped' /\ Grown
    <2>1. PICK s \in TailShards :
            /\ tailLedger[s] = None
            /\ tailLedger' = [tailLedger EXCEPT ![s] = [rt |-> rt, obs |-> ExactStats[s]]]
      BY <1>2 DEF Completion!Root!CommitNext, Completion!Root!Present, TailShards
    <2>2. \A t \in TailShards : tailLedger[t] # None => tailLedger[t].rt = rt
      BY <1>2 DEF Completion!Root!CommitNext, Completion!Root!Present, TailShards
    <2>3. UNCHANGED <<tailSummary, tailOpen>>
      BY <1>2 DEF Completion!Root!CommitNext
    <2>4. PICK r \in Receipts : r # None /\ r.rt = rt /\ r.obs = Once({s})
                                /\ tailLedger' = [tailLedger EXCEPT ![s] = r]
      BY <2>1, NewReceipt, Sizes
    <2>5. Grown
      BY <2>1, <2>4 DEF Grown, RootsTyped
    <2>6. RootsTyped'
      BY <2>3, <2>4 DEF RootsTyped
    <2>7. tailLedger'[s] = r /\ \A t \in TailShards : t # s => tailLedger'[t] = tailLedger[t]
      BY <2>4 DEF RootsTyped
    <2>8. (\A t \in TailShards : tailLedger[t] # None => tailLedger[t].obs = Once({t}))'
      BY <2>4, <2>7 DEF TailInv, TailShards
    <2>9. (\A t, u \in TailShards : tailLedger[t] # None /\ tailLedger[u] # None => tailLedger[t].rt = tailLedger[u].rt)'
      BY <2>2, <2>4, <2>7 DEF TailInv, TailShards
    <2>10. (tailSummary # None => \A i \in 1 .. Len(tailSummary.completed) :
              tailSummary.completed[i] \in TailShards /\ tailLedger[tailSummary.completed[i]] # None)'
      BY <2>3, <2>4, <2>7 DEF TailInv, TailShards
    <2>11. (tailSummary # None /\ tailSummary.state = "RECORD_LOCAL_COMPLETE" =>
              \E f \in Nat : Replayed(tailSummary.completed, f))'
      BY <2>3 DEF TailInv, Replayed
    <2>. QED  BY <2>5, <2>6, <2>8, <2>9, <2>10, <2>11 DEF TailInv
  <1>3. ASSUME NEW state \in {"PAUSED_AT_RECORD_SHARD", "RECORD_LOCAL_COMPLETE"}, Completion!CloseReplayed(state)
        PROVE  TailInv' /\ RootsTyped' /\ Grown
    <2>1. PICK found, captured \in FirstShard .. (NumShards - 1 + 1) :
            /\ Completion!Root!Present = FirstShard .. ((IF captured < found THEN found ELSE captured) - 1)
            /\ state = "RECORD_LOCAL_COMPLETE" => captured = NumShards - 1 + 1
            /\ tailSummary' = [state |-> state, completed |-> Completion!Run(found) \o Completion!Run(captured)]
      BY <1>3 DEF Completion!CloseReplayed
    <2>2. UNCHANGED tailLedger /\ tailOpen' \in BOOLEAN
      BY <1>3 DEF Completion!CloseReplayed
    <2>3. ASSUME NEW n \in {found, captured}
          PROVE  /\ Completion!Run(n) \in Seq(ShardIds)
                 /\ \A i \in 1 .. Len(Completion!Run(n)) :
                      Completion!Run(n)[i] \in TailShards /\ tailLedger[Completion!Run(n)[i]] # None
      <3>1. n \in Nat /\ n >= FirstShard /\ n <= NumShards /\ FirstShard \in Nat
        BY Sizes
      <3>2. Completion!Run(n) = [i \in 1 .. (n - FirstShard) |-> FirstShard + i - 1]
        BY DEF Completion!Run
      <3>3. n - FirstShard \in Nat
        BY <3>1
      <3>4. \A i \in 1 .. (n - FirstShard) : FirstShard + i - 1 \in FirstShard .. n - 1
        BY <3>1
      <3>5. FirstShard .. n - 1 \subseteq Completion!Root!Present
        BY <2>1, <3>1
      <3>6. \A s \in Completion!Root!Present : s \in TailShards /\ tailLedger[s] # None
        BY DEF Completion!Root!Present, TailShards
      <3>. QED  BY <3>2, <3>3, <3>4, <3>5, <3>6, Sizes
    <2>4. tailSummary'.completed \in Seq(ShardIds) /\ tailSummary' \in Summaries
      BY <2>1, <2>3 DEF Summaries
    <2>5. \A i \in 1 .. Len(tailSummary'.completed) :
            tailSummary'.completed[i] \in TailShards /\ tailLedger[tailSummary'.completed[i]] # None
      <3>. DEFINE a == Completion!Run(found)  b == Completion!Run(captured)
      <3>1. a \in Seq(ShardIds) /\ b \in Seq(ShardIds) /\ tailSummary'.completed = a \o b
        BY <2>1, <2>3
      <3>. HIDE DEF a, b
      <3>2. Len(a \o b) = Len(a) + Len(b) /\ Len(a) \in Nat /\ Len(b) \in Nat
        BY <3>1
      <3>3. \A i \in 1 .. Len(a \o b) : (a \o b)[i] = IF i <= Len(a) THEN a[i] ELSE b[i - Len(a)]
        BY <3>1
      <3>4. /\ \A i \in 1 .. Len(a) : a[i] \in TailShards /\ tailLedger[a[i]] # None
            /\ \A i \in 1 .. Len(b) : b[i] \in TailShards /\ tailLedger[b[i]] # None
        <4>1. found \in {found, captured} /\ captured \in {found, captured}
          OBVIOUS
        <4>2. \A i \in 1 .. Len(Completion!Run(found)) :
                Completion!Run(found)[i] \in TailShards /\ tailLedger[Completion!Run(found)[i]] # None
          BY <2>3, <4>1
        <4>3. \A i \in 1 .. Len(Completion!Run(captured)) :
                Completion!Run(captured)[i] \in TailShards /\ tailLedger[Completion!Run(captured)[i]] # None
          BY <2>3, <4>1
        <4>. QED  BY <4>2, <4>3 DEF a, b
      <3>5. ASSUME NEW i \in 1 .. Len(a \o b)
            PROVE  (a \o b)[i] \in TailShards /\ tailLedger[(a \o b)[i]] # None
        <4>1. CASE i <= Len(a)
          <5>1. i \in 1 .. Len(a) /\ (a \o b)[i] = a[i]
            BY <3>2, <3>3, <4>1
          <5>. QED  BY <3>4, <5>1
        <4>2. CASE ~(i <= Len(a))
          <5>1. i - Len(a) \in 1 .. Len(b) /\ (a \o b)[i] = b[i - Len(a)]
            BY <3>2, <3>3, <4>2
          <5>. QED  BY <3>4, <5>1
        <4>. QED  BY <4>1, <4>2
      <3>. QED  BY <3>1, <3>5
    <2>6. ASSUME state = "RECORD_LOCAL_COMPLETE"
          PROVE  \E f \in Nat : Replayed(tailSummary'.completed, f)
      <3>. DEFINE a == Completion!Run(found)  b == Completion!Run(captured)  f == found - FirstShard
      <3>1. captured = NumShards /\ found \in Nat /\ f \in Nat /\ NumShards - FirstShard \in Nat
        BY <2>1, <2>6, Sizes
      <3>2. /\ a = [i \in 1 .. f |-> FirstShard + i - 1]
            /\ b = [i \in 1 .. (NumShards - FirstShard) |-> FirstShard + i - 1]
        BY <3>1 DEF Completion!Run
      <3>3. Len(a) = f /\ Len(b) = NumShards - FirstShard
        BY <3>1, <3>2
      <3>4. a \in Seq(ShardIds) /\ b \in Seq(ShardIds) /\ tailSummary'.completed = a \o b
        BY <2>1, <2>3
      <3>5. /\ \A i \in 1 .. f : a[i] = FirstShard + i - 1
            /\ \A i \in 1 .. (NumShards - FirstShard) : b[i] = FirstShard + i - 1
        BY <3>2
      <3>. HIDE DEF a, b, f
      <3>6. Len(a \o b) = f + (NumShards - FirstShard)
        <4>1. Len(a \o b) = Len(a) + Len(b)
          BY <3>4
        <4>. QED  BY <3>3, <4>1
      <3>7. \A i \in 1 .. Len(a \o b) : (a \o b)[i] = IF i <= f THEN a[i] ELSE b[i - f]
        BY <3>3, <3>4
      <3>8. ASSUME NEW i \in 1 .. Len(a \o b)
            PROVE  (a \o b)[i] = IF i <= f THEN FirstShard + i - 1 ELSE FirstShard + i - f - 1
        <4>1. CASE i <= f
          <5>1. i \in 1 .. f
            BY <3>1, <3>6, <4>1
          <5>. QED  BY <3>5, <3>7, <4>1, <5>1
        <4>2. CASE ~(i <= f)
          <5>1. i - f \in 1 .. (NumShards - FirstShard)
            BY <3>1, <3>6, <4>2
          <5>2. (a \o b)[i] = FirstShard + (i - f) - 1
            BY <3>5, <3>7, <4>2, <5>1
          <5>. QED  BY <3>1, <3>6, <4>2, <5>2, Sizes
        <4>. QED  BY <4>1, <4>2
      <3>9. Replayed(a \o b, f)
        BY <3>1, <3>6, <3>8, Sizes DEF Replayed
      <3>10. Replayed(tailSummary'.completed, f)
        BY <3>4, <3>9
      <3>. QED  BY <3>1, <3>10
    <2>7. tailSummary'.state = state
      BY <2>1
    <2>. QED  BY <2>2, <2>4, <2>5, <2>6, <2>7 DEF TailInv, RootsTyped, Grown
  <1>. QED  BY <1>1, <1>2, <1>3 DEF CompletionStep, Completion!Next, Completion!Root!Open, Completion!Root!Abandon

------------------------------------------------------------------------------
(* The invariant under the steps that write no output. *)

ProgramsTyped ==
  /\ lock \in {None, "writer", "seal"}
  /\ pc \in [Programs -> {"off", "partial", "status", "add", "write"}]
  /\ view \in [Programs -> Views]

OutTyped ==
  /\ out \in [Programs -> Seq(OutputFiles) \cup {None}]
  /\ \A p \in Programs : out[p] # None =>
       Len(out[p]) <= 3 /\ \A n \in 1 .. Len(out[p]) : out[p][n] \in Written(n) \cup {Torn}

LEMMA ProgramTypes == IInv => ProgramsTyped /\ OutTyped
  BY DEF IInv, TypeOK, ProgramsTyped, OutTyped

LEMMA AllTyped ==
  ASSUME RootsTyped', ProgramsTyped', OutTyped'
  PROVE  TypeOK'
  BY DEF TypeOK, RootsTyped, ProgramsTyped, OutTyped, TailShards

LEMMA WritersKeep ==
  ASSUME IInv, WriterStep \/ CompletionStep
  PROVE  IInv'
  <1>1. UNCHANGED <<programs, out>> /\ UNCHANGED <<pc, view>>
    BY DEF WriterStep, CompletionStep, programs
  <1>2. LedgerInv' /\ TailInv' /\ RootsTyped' /\ Grown
    <2>1. CASE WriterStep
      <3>1. UNCHANGED <<tailOpen, tailLedger, tailSummary>>
        BY <2>1 DEF WriterStep, tailRoot
      <3>2. TailInv'
        BY <3>1 DEF IInv, TailInv
      <3>. QED  BY <2>1, <3>2, WriterKeeps
    <2>2. CASE CompletionStep
      <3>1. LedgerInv'
        BY <2>2 DEF IInv, LedgerInv, CompletionStep
      <3>. QED  BY <2>2, <3>1, TailKeeps
    <2>. QED  BY <2>1, <2>2
  <1>3. LockInv' /\ lock' \in {None, "writer", "seal"}
    BY <1>1, WriterLock DEF IInv, LockInv, CompletionStep, TypeOK
  <1>4. ledger' = ledger \/ pc["seal"] = "off"
    BY WriterLock DEF CompletionStep
  <1>5. OutKeeps /\ OutInv'
    BY <1>1, <1>2, OutStays DEF OutKeeps, Made
  <1>6. SealInv' /\ MergeInv'
    BY <1>1, <1>2, <1>4, <1>5, SealStays, MergeStays
  <1>7. TypeOK'
    BY <1>1, <1>2, <1>3, ProgramTypes, AllTyped DEF ProgramsTyped, OutTyped
  <1>. QED  BY <1>2, <1>3, <1>5, <1>6, <1>7 DEF IInv

LEMMA RootsKept ==
  ASSUME IInv, RootsStay
  PROVE  LedgerInv' /\ TailInv' /\ RootsTyped' /\ Grown
  <1>1. UNCHANGED <<made, ledger, summary, tailOpen, tailLedger, tailSummary>>
    BY DEF RootsStay, tailRoot
  <1>. QED  BY <1>1, RootTypes DEF IInv, LedgerInv, TailInv, RootsTyped, Grown

\* A step of one program that writes nothing: what is left to show.
LEMMA StepOfSeal ==
  ASSUME IInv, RootsStay, UNCHANGED out, ProgramsTyped', LockInv', SealInv',
         pc'["merge"] = pc["merge"], view'["merge"] = view["merge"]
  PROVE  IInv'
  <1>1. LedgerInv' /\ TailInv' /\ RootsTyped' /\ Grown
    BY RootsKept
  <1>2. OutKeeps /\ OutInv' /\ OutTyped'
    BY <1>1, OutStays, ProgramTypes DEF OutKeeps, Made, OutTyped
  <1>3. MergeInv'
    BY <1>1, <1>2, MergeStays
  <1>. QED  BY <1>1, <1>2, <1>3, AllTyped DEF IInv

LEMMA StepOfMerge ==
  ASSUME IInv, RootsStay, UNCHANGED out, ProgramsTyped', MergeInv',
         pc'["seal"] = pc["seal"], view'["seal"] = view["seal"], lock' = lock
  PROVE  IInv'
  <1>1. LedgerInv' /\ TailInv' /\ RootsTyped' /\ Grown /\ ledger' = ledger
    BY RootsKept DEF RootsStay
  <1>2. OutKeeps /\ OutInv' /\ OutTyped'
    BY <1>1, OutStays, ProgramTypes DEF OutKeeps, Made, OutTyped
  <1>3. SealInv' /\ LockInv'
    BY <1>1, <1>2, SealStays DEF IInv, LockInv
  <1>. QED  BY <1>1, <1>2, <1>3, AllTyped DEF IInv

LEMMA RefuseKeeps ==
  ASSUME IInv, NEW p \in Programs, Refuse(p), RootsStay
  PROVE  IInv'
  <1>1. /\ pc' = [pc EXCEPT ![p] = "off"]
        /\ view' = [view EXCEPT ![p] = Empty]
        /\ lock' = IF p = "seal" THEN None ELSE lock
        /\ UNCHANGED out
    BY DEF Refuse, Idle
  <1>2. ProgramsTyped'
    BY <1>1, EmptyIs, ProgramTypes DEF ProgramsTyped
  <1>3. pc'[p] = "off" /\ view'[p] = Empty
        /\ \A q \in Programs : q # p => pc'[q] = pc[q] /\ view'[q] = view[q]
    BY <1>1, ProgramTypes DEF ProgramsTyped
  <1>4. CASE p = "seal"
    <2>1. LockInv' /\ SealInv'
      BY <1>1, <1>3, <1>4, NoneAssumption DEF LockInv, SealInv
    <2>. QED  BY <1>1, <1>2, <1>3, <1>4, <2>1, TwoPrograms, StepOfSeal
  <1>5. CASE p = "merge"
    <2>1. MergeInv'
      BY <1>3, <1>5 DEF MergeInv
    <2>2. pc'["seal"] = pc["seal"] /\ view'["seal"] = view["seal"] /\ lock' = lock
      BY <1>1, <1>3, <1>5, TwoPrograms
    <2>. QED  BY <1>1, <1>2, <2>1, <2>2, StepOfMerge
  <1>. QED  BY <1>4, <1>5, TwoPrograms

LEMMA SealStartKeeps ==
  ASSUME IInv, SealStart
  PROVE  IInv'
  <1>1. /\ pc["seal"] = "off" /\ lock = None /\ lock' = "seal"
        /\ pc' = [pc EXCEPT !["seal"] = "status"]
        /\ view' = view /\ UNCHANGED out /\ RootsStay
    BY DEF SealStart, RootsStay
  <1>2. pc'["seal"] = "status" /\ pc'["merge"] = pc["merge"]
    BY <1>1, TwoPrograms, ProgramTypes DEF ProgramsTyped
  <1>3. ProgramsTyped'
    BY <1>1, ProgramTypes DEF ProgramsTyped
  <1>4. LockInv' /\ SealInv'
    BY <1>1, <1>2 DEF IInv, LockInv, SealInv
  <1>. QED  BY <1>1, <1>2, <1>3, <1>4, StepOfSeal

\* A list that is a range from a to b has the shards from a to b - 1.
LEMMA RangeIs ==
  ASSUME NEW list \in Seq(ShardIds), NEW a \in Nat, NEW b \in Nat, IsRange(list, a, b)
  PROVE  /\ b >= a /\ Len(list) = b - a
         /\ Listed(list) = a .. b - 1
         /\ \A s \in a .. b - 1 : s - a + 1 \in 1 .. Len(list) /\ list[s - a + 1] = s
  <1>1. Len(list) \in Nat /\ Len(list) = b - a /\ \A i \in 1 .. Len(list) : list[i] = a + i - 1
    BY DEF IsRange
  <1>2. \A s \in a .. b - 1 : s - a + 1 \in 1 .. Len(list) /\ list[s - a + 1] = s
    BY <1>1
  <1>3. \A i \in 1 .. Len(list) : list[i] \in a .. b - 1
    BY <1>1
  <1>4. Listed(list) \subseteq a .. b - 1
    BY <1>3 DEF Listed
  <1>5. ASSUME NEW s \in a .. b - 1
        PROVE  s \in Listed(list)
    <2>1. PICK i \in 1 .. Len(list) : list[i] = s
      BY <1>2
    <2>. QED  BY <2>1 DEF Listed
  <1>6. Listed(list) = a .. b - 1
    BY <1>4, <1>5
  <1>7. b >= a
    BY <1>1
  <1>. QED  BY <1>1, <1>2, <1>6, <1>7

LEMMA SealStatusKeeps ==
  ASSUME IInv, SealStatus
  PROVE  IInv'
  <1>. RootsStay /\ pc["seal"] = "status"
    BY DEF SealStatus, RootsStay
  <1>1. CASE Refuse("seal")
    BY <1>1, RefuseKeeps, TwoPrograms
  <1>2. CASE /\ RootAccepted
             /\ view' = [view EXCEPT !["seal"].ids = summary.completed]
             /\ Move("seal", "add")
             /\ UNCHANGED out
    <2>. DEFINE ids == summary.completed
    <2>1. /\ ids \in Seq(ShardIds) /\ ids # <<>> /\ IsRange(ids, 0, Len(ids))
          /\ Original!Present = 0 .. Len(ids) - 1
      BY <1>2, RootTypes DEF RootAccepted, RootsTyped, Summaries
    <2>2. view["seal"] = Empty
      BY DEF IInv, SealInv
    <2>3. view'["seal"] = [Empty EXCEPT !.ids = ids] /\ view'["merge"] = view["merge"]
      BY <1>2, <2>2, TwoPrograms, ProgramTypes DEF ProgramsTyped
    <2>. HIDE DEF ids
    <2>4. /\ view'["seal"] \in Views /\ view'["seal"].ids = ids
          /\ view'["seal"].next = 0 /\ view'["seal"].rt = None
          /\ view'["seal"].total = Nothing /\ \A d \in Domains : view'["seal"].domains[d] = Nothing
      <3>1. Empty \in Views /\ Empty.ids = <<>> /\ Empty.next = 0 /\ Empty.rt = None
            /\ Empty.total = Nothing /\ \A d \in Domains : Empty.domains[d] = Nothing
        BY EmptyIs
      <3>. QED  BY <2>1, <2>3, <3>1 DEF Views
    <2>5. pc' = [pc EXCEPT !["seal"] = "add"] /\ lock' = lock
      BY <1>2 DEF Move
    <2>6. pc'["seal"] = "add" /\ pc'["merge"] = pc["merge"]
      BY <2>5, TwoPrograms, ProgramTypes DEF ProgramsTyped
    <2>7. ProgramsTyped'
      <3>1. view' \in [Programs -> Views]
        BY <1>2, <2>3, <2>4, TwoPrograms, ProgramTypes DEF ProgramsTyped
      <3>. QED  BY <2>5, <3>1, ProgramTypes DEF ProgramsTyped
    <2>8. Original!Present' = Original!Present
      BY DEF RootsStay, Original!Present
    <2>9. Counted(view'["seal"], 0)
      <3>1. PICK w : w = view'["seal"]
        OBVIOUS
      <3>2. Counted(w, 0)
        BY <2>4, <3>1, CountedNone
      <3>. QED  BY <3>1, <3>2
    <2>10. SealInv'
      <3>1. PICK w : w = view'["seal"]
        OBVIOUS
      <3>2. Len(ids) \in Nat
        BY <2>1
      <3>. QED  BY <2>1, <2>4, <2>6, <2>8, <2>9, <3>1, <3>2 DEF SealInv, PinnedTo, Counted
    <2>11. LockInv'
      BY <2>5, <2>6 DEF IInv, LockInv
    <2>. QED  BY <1>2, <2>3, <2>6, <2>7, <2>10, <2>11, StepOfSeal
  <1>. QED  BY <1>1, <1>2 DEF SealStatus

LEMMA MergeStartKeeps ==
  ASSUME IInv, MergeStart
  PROVE  IInv'
  <1>1. /\ pc["merge"] = "off" /\ Made("seal") /\ RootsStay /\ UNCHANGED out /\ lock' = lock
        /\ view' = [view EXCEPT !["merge"].base = out["seal"][1]]
        /\ pc' = [pc EXCEPT !["merge"] = "partial"]
    BY DEF MergeStart, RootsStay, Made, Move
  <1>2. PICK a \in Observations : a = out["seal"][1]
    BY <1>1, SealFirst
  <1>3. view["merge"] = Empty
    BY <1>1 DEF IInv, MergeInv
  <1>4. view'["merge"] = [Empty EXCEPT !.base = a] /\ view'["seal"] = view["seal"]
    BY <1>1, <1>2, <1>3, TwoPrograms, ProgramTypes DEF ProgramsTyped
  <1>5. /\ view'["merge"] \in Views /\ view'["merge"].base = a
        /\ view'["merge"].next = 0 /\ view'["merge"].rt = None
    <2>1. Empty \in Views /\ Empty.next = 0 /\ Empty.rt = None
      BY EmptyIs
    <2>. QED  BY <1>2, <1>4, <2>1 DEF Views
  <1>6. pc'["merge"] = "partial" /\ pc'["seal"] = pc["seal"]
    BY <1>1, TwoPrograms, ProgramTypes DEF ProgramsTyped
  <1>7. ProgramsTyped'
    <2>1. view' \in [Programs -> Views]
      BY <1>1, <1>4, <1>5, TwoPrograms, ProgramTypes DEF ProgramsTyped
    <2>. QED  BY <1>1, <2>1, ProgramTypes DEF ProgramsTyped
  <1>8. Made("seal")' /\ out'["seal"][1] = a
    BY <1>1, <1>2 DEF Made
  <1>9. MergeInv'
    <2>1. PICK w : w = view'["merge"]
      OBVIOUS
    <2>. QED  BY <1>5, <1>6, <1>8, <2>1 DEF MergeInv
  <1>. QED  BY <1>1, <1>4, <1>6, <1>7, <1>9, StepOfMerge

LEMMA MergePartialKeeps ==
  ASSUME IInv, MergePartial
  PROVE  IInv'
  <1>. RootsStay /\ pc["merge"] = "partial"
    BY DEF MergePartial, RootsStay
  <1>1. CASE Refuse("merge")
    BY <1>1, RefuseKeeps, TwoPrograms
  <1>2. CASE /\ PartialAccepted(view["merge"].base)
             /\ Move("merge", "status") /\ UNCHANGED <<view, out>>
    <2>1. /\ pc' = [pc EXCEPT !["merge"] = "status"] /\ lock' = lock /\ view' = view /\ out' = out
      BY <1>2 DEF Move
    <2>2. Made("seal") /\ view["merge"].base = out["seal"][1]
          /\ view["merge"].next = 0 /\ view["merge"].rt = None
      BY DEF IInv, MergeInv
    <2>3. Len(out["seal"][1].ids) \in 1 .. NumShards /\ out["seal"][1].state = Kind(out["seal"][1].ids)
      BY <2>2, SealFirst DEF SealedFile
    <2>4. Len(view["merge"].base.ids) < NumShards
      BY <1>2, <2>2, <2>3, Sizes DEF PartialAccepted, Kind
    <2>5. pc'["merge"] = "status" /\ pc'["seal"] = pc["seal"]
      BY <2>1, TwoPrograms, ProgramTypes DEF ProgramsTyped
    <2>6. ProgramsTyped'
      BY <2>1, ProgramTypes DEF ProgramsTyped
    <2>7. Made("seal")' /\ out'["seal"][1] = out["seal"][1]
      BY <2>1, <2>2 DEF Made
    <2>8. MergeInv'
      <3>1. PICK w : w = view["merge"]
        OBVIOUS
      <3>. QED  BY <2>1, <2>2, <2>4, <2>5, <2>7, <3>1 DEF MergeInv
    <2>. QED  BY <1>2, <2>1, <2>5, <2>6, <2>8, StepOfMerge
  <1>. QED  BY <1>1, <1>2 DEF MergePartial

LEMMA MergeStatusKeeps ==
  ASSUME IInv, MergeStatus
  PROVE  IInv'
  <1>. RootsStay /\ pc["merge"] = "status"
    BY DEF MergeStatus, RootsStay
  <1>1. CASE Refuse("merge")
    BY <1>1, RefuseKeeps, TwoPrograms
  <1>2. CASE /\ TailAccepted(view["merge"].base)
             /\ view' = [view EXCEPT !["merge"].ids = tailSummary.completed,
                                     !["merge"].total = view["merge"].base.total,
                                     !["merge"].domains = view["merge"].base.domains]
             /\ Move("merge", "add")
             /\ UNCHANGED out
    <2>1. PICK v \in Views : v = view["merge"]
      BY ProgramTypes, TwoPrograms DEF ProgramsTyped
    <2>2. Made("seal") /\ v.base = out["seal"][1] /\ v.next = 0 /\ v.rt = None
          /\ Len(v.base.ids) < NumShards
      BY <2>1 DEF IInv, MergeInv
    <2>3. PICK a \in Observations : a = v.base /\ SealedFile(a) /\ Len(a.ids) \in 1 .. NumShards
      BY <2>2, SealFirst
    <2>4. PICK ids \in Seq(ShardIds) : ids = tailSummary.completed /\ tailSummary # None
                                       /\ IsRange(ids, Len(a.ids), NumShards)
      BY <1>2, <2>1, <2>3, RootTypes DEF TailAccepted, RootsTyped, Summaries
    <2>5. PICK k \in 1 .. NumShards : k = Len(a.ids) /\ k < NumShards
      BY <2>2, <2>3
    <2>6. \A s \in k .. NumShards - 1 : s \in TailShards /\ tailLedger[s] # None
      <3>1. \A s \in k .. NumShards - 1 : s - k + 1 \in 1 .. Len(ids) /\ ids[s - k + 1] = s
        <4>1. k \in Nat /\ NumShards \in Nat /\ IsRange(ids, k, NumShards)
          BY <2>4, <2>5, Sizes
        <4>. QED  BY <4>1, RangeIs
      <3>2. \A i \in 1 .. Len(ids) : ids[i] \in TailShards /\ tailLedger[ids[i]] # None
        BY <2>4 DEF IInv, TailInv
      <3>. QED  BY <3>1, <3>2
    <2>7. /\ view'["seal"] = view["seal"]
          /\ view'["merge"] = [v EXCEPT !.ids = ids, !.total = a.total, !.domains = a.domains]
      BY <1>2, <2>1, <2>3, <2>4, TwoPrograms, ProgramTypes DEF ProgramsTyped
    <2>8. PICK w : w = view'["merge"]
      OBVIOUS
    <2>9. /\ w \in Views /\ w.ids = ids /\ w.next = 0 /\ w.rt = None /\ w.base = a
          /\ w.total = a.total /\ w.domains = a.domains
      BY <2>2, <2>3, <2>7, <2>8 DEF Views, Observations
    <2>10. pc' = [pc EXCEPT !["merge"] = "add"] /\ lock' = lock /\ out' = out
      BY <1>2 DEF Move
    <2>11. pc'["merge"] = "add" /\ pc'["seal"] = pc["seal"]
      BY <2>10, TwoPrograms, ProgramTypes DEF ProgramsTyped
    <2>12. ProgramsTyped'
      <3>1. view' \in [Programs -> Views]
        BY <1>2, <2>7, <2>8, <2>9, TwoPrograms, ProgramTypes DEF ProgramsTyped
      <3>. QED  BY <2>10, <3>1, ProgramTypes DEF ProgramsTyped
    <2>13. Made("seal")' /\ out'["seal"][1] = a
      BY <2>2, <2>3, <2>10 DEF Made
    <2>14. Counted(w, k)
      BY <2>3, <2>5, <2>9 DEF SealedFile, Counted
    <2>15. tailLedger' = tailLedger
      BY DEF RootsStay, tailRoot
    <2>16. /\ w.next <= Len(w.ids) /\ Counted(w, k + w.next)
      BY <2>4, <2>5, <2>9, <2>14
    <2>17. MergeInv'
      BY <2>3, <2>4, <2>5, <2>6, <2>8, <2>9, <2>11, <2>13, <2>15, <2>16 DEF MergeInv, PinnedTo, Counted
    <2>. QED  BY <1>2, <2>7, <2>10, <2>11, <2>12, <2>17, StepOfMerge
  <1>. QED  BY <1>1, <1>2 DEF MergeStatus

------------------------------------------------------------------------------
(* The aggregation. *)

\* What a program has in memory after one more shard.
LEMMA AddedView ==
  ASSUME NEW p \in Programs, ProgramsTyped, NEW s \in ShardIds, NEW receipt \in Receipts,
         receipt.obs = Once({s}), Counted(view[p], s),
         view' = [view EXCEPT ![p].next = @ + 1,
                              ![p].rt = PinnedRuntime(p, receipt),
                              ![p].total = Plus(@, receipt.obs),
                              ![p].domains = AddToDomain(@, s, receipt.obs)]
  PROVE  \E w \in Views :
           /\ view' = [view EXCEPT ![p] = w]
           /\ w.next = view[p].next + 1 /\ w.ids = view[p].ids /\ w.base = view[p].base
           /\ w.rt = IF view[p].rt = None THEN receipt.rt ELSE view[p].rt
           /\ Counted(w, s + 1)
  <1>1. PICK v \in Views : v = view[p]
    BY DEF ProgramsTyped
  <1>2. PICK rt \in Runtimes \cup {None} :
          rt = PinnedRuntime(p, receipt) /\ rt = IF v.rt = None THEN receipt.rt ELSE v.rt
    BY <1>1 DEF PinnedRuntime, Receipts, Views
  <1>3. PICK total \in Bag : total = Plus(v.total, receipt.obs)
    BY <1>1, PlusIs DEF Receipts, Views
  <1>4. PICK domains \in [Domains -> Bag] : domains = AddToDomain(v.domains, s, receipt.obs)
    BY <1>1, CountedTypes DEF Receipts, Views
  <1>5. PICK next \in Nat : next = v.next + 1
    BY <1>1 DEF Views
  <1>6. PICK w : w = [v EXCEPT !.next = next, !.rt = rt, !.total = total, !.domains = domains]
    OBVIOUS
  <1>7. /\ w \in Views
        /\ w.next = next /\ w.ids = v.ids /\ w.base = v.base /\ w.rt = rt
        /\ w.total = total /\ w.domains = domains
    BY <1>6 DEF Views
  <1>9. view' = [view EXCEPT ![p] = w]
    BY <1>1, <1>2, <1>3, <1>4, <1>5, <1>6 DEF ProgramsTyped
  <1>8. Counted(w, s + 1)
    <2>1. PICK n : n = s + 1 /\ 0 .. n - 1 = 0 .. s
      BY Sizes
    <2>2. /\ Plus(v.total, Once({s})) = Once(0 .. s)
          /\ \A d \in Domains : AddToDomain(v.domains, s, Once({s}))[d] = Once(Homogeneous(d, 0 .. s))
      BY <1>1, CountOne
    <2>3. w.total = Once(0 .. s) /\ \A d \in Domains : w.domains[d] = Once(Homogeneous(d, 0 .. s))
      BY <1>3, <1>4, <1>7, <2>2
    <2>4. Counted(w, n)
      BY <2>1, <2>3 DEF Counted
    <2>. QED  BY <2>1, <2>4
  <1>. QED  BY <1>1, <1>2, <1>5, <1>7, <1>8, <1>9

\* The next shard of a list, its receipt, and that it validates.
LEMMA SealNext ==
  ASSUME IInv, pc["seal"] = "add", view["seal"].next < Len(view["seal"].ids)
  PROVE  LET v == view["seal"] IN
         /\ v.next \in ShardIds /\ v.ids[v.next + 1] = v.next
         /\ ledger[v.next] \in Receipts /\ ledger[v.next] # None /\ v.next \in Original!Present
         /\ ledger[v.next].obs = Once({v.next})
         /\ v.next # 0 => ledger[v.next].rt = v.rt
         /\ \A s \in Original!Present : ledger[s].rt = ledger[v.next].rt
         /\ v.next = 0 => v.rt = None
  <1>1. PICK v \in Views : v = view["seal"]
    BY ProgramTypes, TwoPrograms DEF ProgramsTyped
  <1>2. /\ v.next \in Nat /\ Len(v.ids) \in Nat /\ v.next < Len(v.ids)
        /\ \A i \in 1 .. Len(v.ids) : v.ids[i] = 0 + i - 1
        /\ Original!Present = 0 .. Len(v.ids) - 1
        /\ PinnedTo(v, Original!Present, ledger)
    BY <1>1 DEF IInv, SealInv, Views, IsRange
  <1>3. v.next \in Original!Present /\ v.next + 1 \in 1 .. Len(v.ids)
    BY <1>2
  <1>4. v.ids[v.next + 1] = v.next
    BY <1>2, <1>3
  <1>5. v.next \in ShardIds /\ ledger[v.next] # None
    BY <1>3 DEF Original!Present
  <1>6. ledger[v.next] \in Receipts /\ ledger[v.next].obs = Once({v.next})
    BY <1>5, RootTypes DEF RootsTyped, IInv, LedgerInv
  <1>7. \A s \in Original!Present : ledger[s].rt = ledger[v.next].rt
    BY <1>5 DEF Original!Present, IInv, LedgerInv
  <1>. QED  BY <1>1, <1>2, <1>3, <1>4, <1>5, <1>6, <1>7 DEF PinnedTo

LEMMA MergeNext ==
  ASSUME IInv, pc["merge"] = "add", view["merge"].next < Len(view["merge"].ids)
  PROVE  LET v == view["merge"]
             k == Len(v.base.ids)
             s == k + v.next
         IN
         /\ k \in Nat /\ s \in ShardIds /\ v.ids[v.next + 1] = s
         /\ tailLedger[s] \in Receipts /\ tailLedger[s] # None
         /\ tailLedger[s].obs = Once({s})
         /\ v.next # 0 => tailLedger[s].rt = v.rt
         /\ \A t \in k .. NumShards - 1 : tailLedger[t].rt = tailLedger[s].rt
         /\ v.next = 0 => v.rt = None
  <1>1. PICK v \in Views : v = view["merge"]
    BY ProgramTypes, TwoPrograms DEF ProgramsTyped
  <1>2. Made("seal") /\ v.base = out["seal"][1]
    BY <1>1 DEF IInv, MergeInv
  <1>3. PICK k \in Nat : k = Len(v.base.ids)
    BY <1>2, SealFirst
  <1>4. /\ v.next \in Nat /\ Len(v.ids) \in Nat /\ v.next < Len(v.ids)
        /\ Len(v.ids) = NumShards - k
        /\ \A i \in 1 .. Len(v.ids) : v.ids[i] = k + i - 1
        /\ \A t \in k .. NumShards - 1 : t \in TailShards /\ tailLedger[t] # None
        /\ PinnedTo(v, k .. NumShards - 1, tailLedger)
    BY <1>1, <1>3 DEF IInv, MergeInv, Views, IsRange
  <1>5. PICK s \in k .. NumShards - 1 : s = k + v.next
    BY <1>4, Sizes
  <1>6. v.next + 1 \in 1 .. Len(v.ids) /\ k + (v.next + 1) - 1 = s
    BY <1>4, <1>5
  <1>7. v.ids[v.next + 1] = s
    BY <1>4, <1>6
  <1>8. s \in TailShards /\ s \in ShardIds /\ tailLedger[s] # None
    BY <1>4, Sizes
  <1>9. tailLedger[s] \in Receipts /\ tailLedger[s].obs = Once({s})
    BY <1>8, RootTypes DEF RootsTyped, IInv, TailInv
  <1>10. \A t \in k .. NumShards - 1 : tailLedger[t].rt = tailLedger[s].rt
    BY <1>4, <1>8 DEF IInv, TailInv
  <1>. QED  BY <1>1, <1>3, <1>4, <1>5, <1>7, <1>8, <1>9, <1>10 DEF PinnedTo

LEMMA AddSealKeeps ==
  ASSUME IInv, AddShard("seal")
  PROVE  IInv'
  <1>. RootsStay /\ pc["seal"] = "add" /\ view["seal"].next < Len(view["seal"].ids)
    BY DEF AddShard, RootsStay
  <1>1. CASE Refuse("seal")
    BY <1>1, RefuseKeeps, TwoPrograms
  <1>2. CASE ~Refuse("seal")
    <2>1. PICK v \in Views : v = view["seal"]
      BY ProgramTypes, TwoPrograms DEF ProgramsTyped
    <2>2. PICK n \in ShardIds : n = v.next /\ v.ids[n + 1] = n
      BY <2>1, SealNext
    <2>3. PICK r \in Receipts : r = ledger[n] /\ r.obs = Once({n})
      BY <2>1, <2>2, SealNext
    <2>4. /\ view' = [view EXCEPT !["seal"].next = @ + 1,
                                  !["seal"].rt = PinnedRuntime("seal", r),
                                  !["seal"].total = Plus(@, r.obs),
                                  !["seal"].domains = AddToDomain(@, n, r.obs)]
          /\ UNCHANGED <<pc, lock, out>>
      BY <1>2, <2>1, <2>2, <2>3 DEF AddShard, ReceiptOf
    <2>5. Counted(v, n) /\ Original!Present = 0 .. Len(v.ids) - 1
          /\ v.ids # <<>> /\ IsRange(v.ids, 0, Len(v.ids)) /\ Len(v.ids) \in Nat /\ n < Len(v.ids)
      BY <2>1, <2>2 DEF IInv, SealInv, Views
    <2>6. PICK w \in Views :
            /\ view' = [view EXCEPT !["seal"] = w]
            /\ w.next = n + 1 /\ w.ids = v.ids /\ w.base = v.base
            /\ w.rt = IF v.rt = None THEN r.rt ELSE v.rt
            /\ Counted(w, n + 1)
      <3>1. \E w \in Views :
              /\ view' = [view EXCEPT !["seal"] = w]
              /\ w.next = view["seal"].next + 1 /\ w.ids = view["seal"].ids /\ w.base = view["seal"].base
              /\ w.rt = IF view["seal"].rt = None THEN r.rt ELSE view["seal"].rt
              /\ Counted(w, n + 1)
        BY <2>1, <2>3, <2>4, <2>5, AddedView, ProgramTypes, TwoPrograms
      <3>. QED  BY <2>1, <2>2, <3>1
    <2>7. \A s \in Original!Present : ledger[s].rt = w.rt
      BY <2>1, <2>2, <2>3, <2>6, SealNext
    <2>8. view'["seal"] = w /\ view'["merge"] = view["merge"] /\ ProgramsTyped'
      <3>1. view' \in [Programs -> Views]
        BY <2>6, ProgramTypes DEF ProgramsTyped
      <3>2. view'["seal"] = w /\ view'["merge"] = view["merge"]
        BY <2>6, TwoPrograms, ProgramTypes DEF ProgramsTyped
      <3>. QED  BY <2>4, <3>1, <3>2, ProgramTypes DEF ProgramsTyped
    <2>9. Original!Present' = Original!Present /\ ledger' = ledger
      BY DEF RootsStay, Original!Present
    <2>10. n \in Nat /\ n + 1 # 0 /\ n + 1 <= Len(v.ids)
      BY <2>5, Sizes
    <2>11. SealInv'
      BY <2>4, <2>5, <2>6, <2>7, <2>8, <2>9, <2>10 DEF SealInv, PinnedTo, Counted
    <2>12. LockInv'
      BY <2>4 DEF IInv, LockInv
    <2>. QED  BY <2>4, <2>8, <2>11, <2>12, StepOfSeal
  <1>. QED  BY <1>1, <1>2

LEMMA AddMergeKeeps ==
  ASSUME IInv, AddShard("merge")
  PROVE  IInv'
  <1>. RootsStay /\ pc["merge"] = "add" /\ view["merge"].next < Len(view["merge"].ids)
    BY DEF AddShard, RootsStay
  <1>1. CASE Refuse("merge")
    BY <1>1, RefuseKeeps, TwoPrograms
  <1>2. CASE ~Refuse("merge")
    <2>1. PICK v \in Views : v = view["merge"]
      BY ProgramTypes, TwoPrograms DEF ProgramsTyped
    <2>2. PICK k \in Nat : k = Len(v.base.ids)
      BY <2>1, MergeNext
    <2>3. PICK s \in ShardIds : s = k + v.next /\ v.ids[v.next + 1] = s
      BY <2>1, <2>2, MergeNext
    <2>4. PICK r \in Receipts : r = tailLedger[s] /\ r.obs = Once({s})
      BY <2>1, <2>2, <2>3, MergeNext
    <2>5. /\ view' = [view EXCEPT !["merge"].next = @ + 1,
                                  !["merge"].rt = PinnedRuntime("merge", r),
                                  !["merge"].total = Plus(@, r.obs),
                                  !["merge"].domains = AddToDomain(@, s, r.obs)]
          /\ UNCHANGED <<pc, lock, out>>
      BY <1>2, <2>1, <2>3, <2>4 DEF AddShard, ReceiptOf
    <2>6. /\ Made("seal") /\ v.base = out["seal"][1] /\ k < NumShards
          /\ IsRange(v.ids, k, NumShards)
          /\ \A t \in k .. NumShards - 1 : t \in TailShards /\ tailLedger[t] # None
          /\ Counted(v, s) /\ v.next \in Nat /\ Len(v.ids) \in Nat /\ v.next < Len(v.ids)
      BY <2>1, <2>2, <2>3 DEF IInv, MergeInv, Views
    <2>7. PICK w \in Views :
            /\ view' = [view EXCEPT !["merge"] = w]
            /\ w.next = v.next + 1 /\ w.ids = v.ids /\ w.base = v.base
            /\ w.rt = IF v.rt = None THEN r.rt ELSE v.rt
            /\ Counted(w, s + 1)
      BY <2>1, <2>4, <2>5, <2>6, AddedView, ProgramTypes, TwoPrograms
    <2>8. \A t \in k .. NumShards - 1 : tailLedger[t].rt = w.rt
      BY <2>1, <2>2, <2>3, <2>4, <2>7, MergeNext
    <2>9. view'["merge"] = w /\ view'["seal"] = view["seal"] /\ ProgramsTyped'
      <3>1. view' \in [Programs -> Views]
        BY <2>7, ProgramTypes DEF ProgramsTyped
      <3>2. view'["merge"] = w /\ view'["seal"] = view["seal"]
        BY <2>7, TwoPrograms, ProgramTypes DEF ProgramsTyped
      <3>. QED  BY <2>5, <3>1, <3>2, ProgramTypes DEF ProgramsTyped
    <2>10. tailLedger' = tailLedger
      BY DEF RootsStay, tailRoot
    <2>11. w.next # 0 /\ w.next <= Len(w.ids) /\ k + w.next = s + 1
      BY <2>3, <2>6, <2>7
    <2>12. Made("seal")' /\ out'["seal"][1] = out["seal"][1]
      BY <2>5, <2>6 DEF Made
    <2>13. Counted(w, k + w.next)
      BY <2>7, <2>11
    <2>14. MergeInv'
      BY <2>2, <2>5, <2>6, <2>7, <2>8, <2>9, <2>10, <2>11, <2>12, <2>13 DEF MergeInv, PinnedTo, Counted
    <2>. QED  BY <2>5, <2>9, <2>14, StepOfMerge
  <1>. QED  BY <1>1, <1>2

------------------------------------------------------------------------------
(* The output directories. *)

\* A step that finishes no first file: the first files that are there were there.
LEMMA FirstFilesStay ==
  ASSUME IInv, RootsStay,
         Made("seal")' => Made("seal") /\ out'["seal"][1] = out["seal"][1],
         Made("merge")' => Made("merge") /\ out'["merge"][1] = out["merge"][1]
                           /\ Made("seal")' /\ out'["seal"][1] = out["seal"][1]
  PROVE  /\ (Made("seal") => SealedFile(out["seal"][1]))'
         /\ (Made("merge") => Made("seal") /\ MergedFile(out["merge"][1], Len(out["seal"][1].ids)))'
  <1>1. Grown
    BY RootsKept
  <1>2. PICK a : a = out["seal"][1]
    OBVIOUS
  <1>3. PICK b : b = out["merge"][1]
    OBVIOUS
  <1>4. PICK k : k = Len(out["seal"][1].ids)
    OBVIOUS
  <1>5. Made("seal")' => SealedFile(a)'
    BY <1>1, <1>2, SealFirst, SealedFileStays
  <1>6. Made("merge")' => MergedFile(b, k)'
    <2>. SUFFICES ASSUME Made("merge")' PROVE MergedFile(b, k)'
      OBVIOUS
    <2>1. Made("seal") /\ MergedFile(b, k)
      BY <1>3, <1>4 DEF IInv, OutInv
    <2>2. k \in 0 .. NumShards /\ \A s \in 0 .. k - 1 : ledger[s] # None
      BY <1>4, <2>1, SealFirst, Sizes
    <2>. QED  BY <1>1, <2>1, <2>2, MergedFileStays
  <1>7. (Made("seal") => SealedFile(out["seal"][1]))'
    BY <1>2, <1>5
  <1>. QED  BY <1>2, <1>3, <1>4, <1>6, <1>7

\* What a program's files are, and that the other's stay.
LEMMA FilesTyped ==
  ASSUME IInv, NEW p \in Programs, out[p] # None
  PROVE  /\ out[p] \in Seq(OutputFiles) /\ Len(out[p]) \in 0 .. 3
         /\ \A n \in 1 .. Len(out[p]) : out[p][n] \in Written(n) \cup {Torn}
         /\ \A n \in 1 .. Len(out[p]) - 1 : out[p][n] # Torn
  <1>1. out[p] \in Seq(OutputFiles) /\ Len(out[p]) <= 3
        /\ \A n \in 1 .. Len(out[p]) : out[p][n] \in Written(n) \cup {Torn}
    BY ProgramTypes DEF OutTyped
  <1>2. \A n \in 1 .. Len(out[p]) - 1 : out[p][n] # Torn
    BY DEF IInv, OutInv, InOrder
  <1>3. Len(out[p]) \in 0 .. 3
    <2>1. out[p] \in Seq(OutputFiles) /\ Len(out[p]) <= 3
      BY <1>1
    <2>2. PICK n \in Nat : n = Len(out[p])
      BY <2>1, LenProperties
    <2>3. n <= 3
      BY <2>1, <2>2
    <2>4. n \in 0 .. 3
      BY <2>3
    <2>. QED  BY <2>2, <2>4
  <1>. QED  BY <1>1, <1>2, <1>3

LEMMA OneDirectory ==
  ASSUME IInv, NEW p \in Programs, NEW files \in Seq(OutputFiles),
         out' = [out EXCEPT ![p] = files],
         Len(files) <= 3, \A n \in 1 .. Len(files) : files[n] \in Written(n) \cup {Torn}
  PROVE  OutTyped' /\ out'[p] = files /\ files # None
         /\ \A q \in Programs : q # p => out'[q] = out[q]
  <1>1. out'[p] = files /\ (\A q \in Programs : q # p => out'[q] = out[q])
        /\ out' \in [Programs -> Seq(OutputFiles) \cup {None}]
    BY ProgramTypes DEF OutTyped
  <1>2. \A q \in Programs : out'[q] # None =>
          Len(out'[q]) <= 3 /\ \A n \in 1 .. Len(out'[q]) : out'[q][n] \in Written(n) \cup {Torn}
    BY <1>1, ProgramTypes DEF OutTyped
  <1>. QED  BY <1>1, <1>2, NoneAssumption DEF OutTyped

\* The other program's directory is as it was.
LEMMA OtherInOrder ==
  ASSUME IInv, NEW q \in Programs, out'[q] = out[q]
  PROVE  InOrder(q)'
  BY DEF IInv, OutInv, InOrder, Sealed, Writing

\* A step that changes one directory but finishes no first file.
LEMMA StepOfOutput ==
  ASSUME IInv, RootsStay, NEW p \in Programs, ProgramsTyped', OutTyped', LockInv',
         \A q \in Programs : q # p => out'[q] = out[q] /\ pc'[q] = pc[q] /\ view'[q] = view[q],
         InOrder(p)', out'[p] # None,
         Made(p)' <=> Made(p), Made(p) => out'[p][1] = out[p][1],
         IF p = "seal" THEN SealInv' ELSE MergeInv'
  PROVE  IInv'
  <1>1. LedgerInv' /\ TailInv' /\ RootsTyped' /\ Grown /\ ledger' = ledger
    BY RootsKept DEF RootsStay
  <1>2. \A q \in Programs : q # p => (Made(q)' <=> Made(q)) /\ out'[q] = out[q]
    BY DEF Made
  <1>3. \A q \in Programs : (Made(q)' <=> Made(q)) /\ (Made(q) => out'[q][1] = out[q][1])
    BY <1>2
  <1>4. (\A q \in Programs : InOrder(q))'
    <2>1. ASSUME NEW q \in Programs PROVE InOrder(q)'
      BY OtherInOrder
    <2>. QED  BY <2>1
  <1>5. /\ Made("seal")' => Made("seal") /\ out'["seal"][1] = out["seal"][1]
        /\ Made("merge")' => Made("merge") /\ out'["merge"][1] = out["merge"][1]
                             /\ Made("seal")' /\ out'["seal"][1] = out["seal"][1]
    BY <1>3, TwoPrograms DEF IInv, OutInv
  <1>6. OutInv'
    BY <1>4, <1>5, FirstFilesStay DEF OutInv
  <1>7. OutKeeps
    BY <1>3, TwoPrograms DEF OutKeeps
  <1>8. SealInv' /\ MergeInv'
    BY <1>1, <1>7, TwoPrograms, SealStays, MergeStays
  <1>. QED  BY <1>1, <1>6, <1>8, AllTyped DEF IInv

\* The directory of a program that is still to make it holds no file.
LEMMA FinishKeeps ==
  ASSUME IInv, NEW p \in Programs, Finish(p)
  PROVE  IInv'
  <1>. RootsStay /\ pc[p] = "add" /\ view[p].next = Len(view[p].ids)
    BY DEF Finish, RootsStay
  <1>1. CASE Refuse(p)
    BY <1>1, RefuseKeeps
  <1>2. CASE ~Refuse(p)
    <2>1. /\ out[p] = None /\ out' = [out EXCEPT ![p] = <<>>]
          /\ pc' = [pc EXCEPT ![p] = "write"] /\ lock' = lock /\ view' = view
      BY <1>2 DEF Finish, DirectoryFree, Move
    <2>2. PICK files \in Seq(OutputFiles) : files = <<>> /\ Len(files) = 0 /\ 1 .. Len(files) = {}
      <3>1. <<>> \in Seq(OutputFiles) /\ Len(<<>>) = 0 /\ 1 .. 0 = {}
        OBVIOUS
      <3>. QED  BY <3>1
    <2>3. OutTyped' /\ out'[p] = files /\ files # None /\ Len(files) = 0
          /\ \A q \in Programs : q # p => out'[q] = out[q]
      <3>1. Len(files) <= 3 /\ \A n \in 1 .. Len(files) : files[n] \in Written(n) \cup {Torn}
        BY <2>2
      <3>2. out' = [out EXCEPT ![p] = files]
        BY <2>1, <2>2
      <3>. QED  BY <2>2, <3>1, <3>2, OneDirectory
    <2>4. pc'[p] = "write" /\ \A q \in Programs : q # p => pc'[q] = pc[q]
      BY <2>1, ProgramTypes DEF ProgramsTyped
    <2>5. ProgramsTyped'
      BY <2>1, ProgramTypes DEF ProgramsTyped
    <2>6. InOrder(p)'
      BY <2>2, <2>3 DEF InOrder, Sealed
    <2>7. ~Made(p)' /\ ~Made(p)
      BY <2>1, <2>2, <2>3 DEF Made
    <2>8. LockInv'
      BY <2>1, <2>4, TwoPrograms DEF IInv, LockInv
    <2>9. CASE p = "seal"
      <3>1. Original!Present' = Original!Present /\ ledger' = ledger
        BY DEF RootsStay, Original!Present
      <3>2. SealInv'
        BY <2>1, <2>3, <2>4, <2>9, <3>1 DEF IInv, SealInv, PinnedTo, Counted
      <3>. QED  BY <2>1, <2>3, <2>4, <2>5, <2>6, <2>7, <2>8, <2>9, <3>2, StepOfOutput
    <2>10. CASE p = "merge"
      <3>1. out'["seal"] = out["seal"] /\ tailLedger' = tailLedger
        BY <2>3, <2>10, TwoPrograms DEF RootsStay, tailRoot
      <3>2. Made("seal")' /\ view["merge"].base = out'["seal"][1]
        BY <2>10, <3>1 DEF IInv, MergeInv, Made
      <3>3. MergeInv'
        BY <2>1, <2>3, <2>4, <2>10, <3>1, <3>2 DEF IInv, MergeInv, PinnedTo, Counted
      <3>. QED  BY <2>1, <2>3, <2>4, <2>5, <2>6, <2>7, <2>8, <2>10, <3>3, StepOfOutput, TwoPrograms
    <2>. QED  BY <2>9, <2>10, TwoPrograms
  <1>. QED  BY <1>1, <1>2

LEMMA CreateFileKeeps ==
  ASSUME IInv, NEW p \in Programs, CreateFile(p)
  PROVE  IInv'
  <1>1. /\ pc[p] = "write" /\ ~Writing(p) /\ Len(out[p]) < 3
        /\ out' = [out EXCEPT ![p] = Append(out[p], Torn)]
        /\ UNCHANGED <<pc, view, lock>> /\ RootsStay
    BY ProgramTypes DEF CreateFile, RootsStay, programs, OutTyped
  <1>2. out[p] # None
    BY <1>1, TwoPrograms DEF IInv, SealInv, MergeInv
  <1>3. PICK old \in Seq(OutputFiles) : old = out[p] /\ Len(old) \in 0 .. 3
          /\ \A n \in 1 .. Len(old) : old[n] \in Written(n) \cup {Torn}
          /\ \A m \in 1 .. Len(old) - 1 : old[m] # Torn
    BY <1>2, FilesTyped
  <1>4. old # <<>> => old[Len(old)] # Torn
    BY <1>1, <1>2, <1>3 DEF Writing
  <1>5. PICK files \in Seq(OutputFiles) : files = Append(old, Torn)
    <2>1. Torn \in OutputFiles
      BY DEF OutputFiles
    <2>2. Append(old, Torn) \in Seq(OutputFiles)
      BY <2>1, AppendProperties
    <2>. QED  BY <2>2
  <1>6. Len(files) = Len(old) + 1 /\ files[Len(files)] = Torn /\ \A n \in 1 .. Len(old) : files[n] = old[n]
    BY <1>5
  <1>7. Len(files) <= 3 /\ Len(files) >= 1 /\ files # <<>>
        /\ \A n \in 1 .. Len(files) : files[n] \in Written(n) \cup {Torn}
    BY <1>1, <1>3, <1>6
  <1>8. OutTyped' /\ out'[p] = files /\ files # None
        /\ \A q \in Programs : q # p => out'[q] = out[q]
    BY <1>1, <1>3, <1>5, <1>7, OneDirectory
  <1>9. \A n \in 1 .. Len(old) : old[n] # Torn
    BY <1>3, <1>4
  <1>10. InOrder(p)'
    <2>1. Writing(p)'
      BY <1>6, <1>7, <1>8 DEF Writing
    <2>2. \A n \in 1 .. Len(files) - 1 : files[n] # Torn
      BY <1>3, <1>6, <1>9
    <2>. QED  BY <1>8, <2>1, <2>2 DEF InOrder, Sealed
  <1>11. (Made(p)' <=> Made(p)) /\ (Made(p) => out'[p][1] = out[p][1])
    <2>1. CASE old = <<>>
      BY <1>3, <1>5, <1>8, <2>1 DEF Made
    <2>2. CASE old # <<>>
      <3>1. 1 \in 1 .. Len(old) /\ files[1] = old[1]
        BY <1>3, <1>6, <2>2
      <3>. QED  BY <1>2, <1>3, <1>7, <1>8, <2>2, <3>1 DEF Made
    <2>. QED  BY <2>1, <2>2
  <1>12. LockInv' /\ ProgramsTyped'
    BY <1>1, ProgramTypes DEF IInv, LockInv, ProgramsTyped
  <1>13. CASE p = "seal"
    <2>1. Original!Present' = Original!Present /\ ledger' = ledger
      BY <1>1 DEF RootsStay, Original!Present
    <2>2. SealInv'
      BY <1>1, <1>8, <1>13, <2>1 DEF IInv, SealInv, PinnedTo, Counted
    <2>. QED  BY <1>1, <1>8, <1>10, <1>11, <1>12, <1>13, <2>2, StepOfOutput
  <1>14. CASE p = "merge"
    <2>1. out'["seal"] = out["seal"] /\ tailLedger' = tailLedger
      BY <1>1, <1>8, <1>14, TwoPrograms DEF RootsStay, tailRoot
    <2>2. Made("seal")' /\ view["merge"].base = out'["seal"][1]
      BY <1>1, <1>14, <2>1 DEF IInv, MergeInv, Made
    <2>3. MergeInv'
      BY <1>1, <1>8, <1>14, <2>1, <2>2 DEF IInv, MergeInv, PinnedTo, Counted
    <2>. QED  BY <1>1, <1>8, <1>10, <1>11, <1>12, <1>14, <2>3, StepOfOutput, TwoPrograms
  <1>. QED  BY <1>13, <1>14, TwoPrograms

\* What the sealer is about to write says the truth of the root.
LEMMA SealAggregate ==
  ASSUME IInv, pc["seal"] = "write"
  PROVE  /\ Aggregates("seal") \in Observations
         /\ SealedFile(Aggregates("seal"))
  <1>1. PICK v \in Views : v = view["seal"]
    BY ProgramTypes, TwoPrograms DEF ProgramsTyped
  <1>2. /\ v.ids # <<>> /\ IsRange(v.ids, 0, Len(v.ids)) /\ v.ids \in Seq(ShardIds)
        /\ Original!Present = 0 .. Len(v.ids) - 1
        /\ v.next = Len(v.ids) /\ Counted(v, v.next) /\ PinnedTo(v, Original!Present, ledger)
    BY <1>1 DEF IInv, SealInv, Views
  <1>3. PICK n \in Nat : n = Len(v.ids) /\ n # 0
    BY <1>2, LenProperties
  <1>4. \A s \in 0 .. n - 1 : s \in ShardIds /\ ledger[s] # None /\ ledger[s].rt = v.rt
    BY <1>2, <1>3 DEF PinnedTo, Original!Present
  <1>5. n - 1 \in ShardIds /\ 0 \in ShardIds /\ ledger[0] # None /\ ledger[0].rt = v.rt
    BY <1>3, <1>4
  <1>6. n <= NumShards
    BY <1>3, <1>5, Sizes DEF ShardIds
  <1>7. v.rt \in Runtimes
    BY <1>5, RootTypes DEF RootsTyped, Receipts
  <1>8. Kind(v.ids) \in {"COMPLETE", "PARTIAL"}
    BY DEF Kind
  <1>9. PICK a : a = Aggregates("seal")
    OBVIOUS
  <1>10. a = [state |-> Kind(v.ids), ids |-> v.ids, rt |-> v.rt, tailrt |-> None,
              total |-> v.total, domains |-> v.domains]
    BY <1>1, <1>9 DEF Aggregates
  <1>11. a \in Observations
    BY <1>1, <1>7, <1>8, <1>10 DEF Observations, Views
  <1>12. Counted(a, n)
    BY <1>2, <1>3, <1>10 DEF Counted
  <1>13. SealedFile(a)
    BY <1>2, <1>3, <1>4, <1>6, <1>10, <1>12 DEF SealedFile
  <1>. QED  BY <1>9, <1>11, <1>13

\* What the merge is about to write: the sealed prefix and the tail are the manifest.
LEMMA MergeAggregate ==
  ASSUME IInv, pc["merge"] = "write"
  PROVE  /\ Aggregates("merge") \in Observations /\ Made("seal")
         /\ MergedFile(Aggregates("merge"), Len(out["seal"][1].ids))
  <1>1. PICK v \in Views : v = view["merge"]
    BY ProgramTypes, TwoPrograms DEF ProgramsTyped
  <1>2. Made("seal") /\ v.base = out["seal"][1]
    BY <1>1 DEF IInv, MergeInv
  <1>3. PICK k \in 1 .. NumShards : k = Len(v.base.ids) /\ k < NumShards
    BY <1>1, <1>2, SealFirst DEF IInv, MergeInv
  <1>4. PICK base \in Observations : base = v.base /\ SealedFile(base)
    BY <1>2, SealFirst
  <1>5. /\ IsRange(v.ids, k, NumShards) /\ v.ids \in Seq(ShardIds)
        /\ \A s \in k .. NumShards - 1 : s \in TailShards /\ tailLedger[s] # None
        /\ v.next = Len(v.ids) /\ Counted(v, k + v.next)
        /\ PinnedTo(v, k .. NumShards - 1, tailLedger)
    BY <1>1, <1>3 DEF IInv, MergeInv, Views
  <1>6. Len(v.ids) = NumShards - k /\ NumShards - k # 0 /\ k + v.next = NumShards
    BY <1>3, <1>5, Sizes DEF IsRange
  <1>7. \A s \in k .. NumShards - 1 : tailLedger[s].rt = v.rt
    BY <1>5, <1>6 DEF PinnedTo
  <1>8. v.rt \in Runtimes
    <2>1. k \in k .. NumShards - 1
      BY <1>3, Sizes
    <2>2. k \in TailShards /\ tailLedger[k] # None /\ tailLedger[k].rt = v.rt
      BY <1>5, <1>7, <2>1
    <2>. QED  BY <2>2, RootTypes DEF RootsTyped, Receipts
  <1>9. PICK ids : ids = base.ids \o v.ids
    OBVIOUS
  <1>10. PICK low \in Seq(ShardIds) : low = base.ids /\ Len(low) = k /\ \A i \in 1 .. k : low[i] = 0 + i - 1
    BY <1>3, <1>4 DEF Observations, SealedFile, IsRange
  <1>11. PICK high \in Seq(ShardIds) :
           high = v.ids /\ Len(high) = NumShards - k /\ \A i \in 1 .. NumShards - k : high[i] = k + i - 1
    BY <1>5, <1>6 DEF IsRange
  <1>12. ids \in Seq(ShardIds) /\ Len(ids) = NumShards
         /\ \A i \in 1 .. NumShards : ids[i] = IF i <= k THEN low[i] ELSE high[i - k]
    <2>1. /\ ids \in Seq(ShardIds) /\ Len(ids) = Len(low) + Len(high)
          /\ \A i \in 1 .. Len(low) + Len(high) : ids[i] = IF i <= Len(low) THEN low[i] ELSE high[i - Len(low)]
      <3>1. ids = low \o high
        BY <1>9, <1>10, <1>11
      <3>2. /\ low \o high \in Seq(ShardIds) /\ Len(low \o high) = Len(low) + Len(high)
            /\ \A i \in 1 .. Len(low) + Len(high) :
                 (low \o high)[i] = IF i <= Len(low) THEN low[i] ELSE high[i - Len(low)]
        BY ConcatProperties, Zenon
      <3>. QED  BY <3>1, <3>2, Zenon
    <2>2. Len(low) = k /\ Len(high) = NumShards - k /\ k + (NumShards - k) = NumShards
      BY <1>3, <1>10, <1>11, Sizes
    <2>3. Len(low) + Len(high) = NumShards
      BY <2>2
    <2>. QED  BY <2>1, <2>2, <2>3
  <1>13. \A i \in 1 .. NumShards : ids[i] = i - 1
    <2>1. ASSUME NEW i \in 1 .. NumShards PROVE ids[i] = i - 1
      <3>1. CASE i <= k
        <4>1. i \in 1 .. k /\ 0 + i - 1 = i - 1
          BY <1>3, <3>1, Sizes
        <4>. QED  BY <1>10, <1>12, <3>1, <4>1
      <3>2. CASE ~(i <= k)
        <4>1. i - k \in 1 .. NumShards - k /\ k + (i - k) - 1 = i - 1
          BY <1>3, <3>2, Sizes
        <4>. QED  BY <1>11, <1>12, <3>2, <4>1
      <3>. QED  BY <3>1, <3>2
    <2>. QED  BY <2>1
  <1>14. Listed(ids) = ShardIds
    <2>1. IsRange(ids, 0, NumShards)
      BY <1>12, <1>13, Sizes DEF IsRange
    <2>. QED  BY <1>12, <2>1, RangeIs, Sizes DEF ShardIds
  <1>15. PICK a : a = Aggregates("merge")
    OBVIOUS
  <1>16. a = [state |-> "COMPLETE", ids |-> ids, rt |-> base.rt, tailrt |-> v.rt,
              total |-> v.total, domains |-> v.domains]
    BY <1>1, <1>4, <1>9, <1>15 DEF Aggregates
  <1>17. a \in Observations
    BY <1>1, <1>4, <1>8, <1>12, <1>16 DEF Observations, Views
  <1>18. Counted(a, NumShards)
    <2>1. Counted(v, NumShards)
      BY <1>5, <1>6
    <2>. QED  BY <1>16, <2>1 DEF Counted
  <1>19. \A s \in 0 .. k - 1 : ledger[s].rt = a.rt
    BY <1>3, <1>4, <1>16 DEF SealedFile
  <1>20. MergedFile(a, k)
    BY <1>5, <1>7, <1>14, <1>16, <1>18, <1>19 DEF MergedFile
  <1>. QED  BY <1>2, <1>3, <1>15, <1>17, <1>20

LEMMA ContentTypes ==
  ASSUME IInv, NEW p \in Programs, pc[p] = "write", out[p] # None,
         NEW n \in 1 .. 3, n = Len(out[p])
  PROVE  Content(p, n) \in Written(n)
  <1>1. Aggregates(p) \in Observations
    BY SealAggregate, MergeAggregate, TwoPrograms
  <1>2. CASE n = 1
    BY <1>1, <1>2 DEF Content, Written
  <1>3. CASE n = 2
    <2>1. PICK v \in Views : v = view[p]
      BY ProgramTypes DEF ProgramsTyped
    <2>2. [candidates |-> v.total, domains |-> v.domains] \in CandidateMaps
      BY DEF Views, CandidateMaps
    <2>. QED  BY <1>3, <2>1, <2>2 DEF Content, Written
  <1>4. CASE n = 3
    <2>1. PICK files \in Seq(OutputFiles) : files = out[p] /\ Len(files) = 3
            /\ files[1] # Torn /\ files[2] # Torn
            /\ files[1] \in Written(1) \cup {Torn} /\ files[2] \in Written(2) \cup {Torn}
      <3>1. 1 \in 1 .. 3 - 1 /\ 2 \in 1 .. 3 - 1 /\ 1 \in 1 .. 3 /\ 2 \in 1 .. 3
        OBVIOUS
      <3>. QED  BY <1>4, <3>1, FilesTyped
    <2>2. files[1] \in Observations \cup CandidateMaps /\ files[2] \in Observations \cup CandidateMaps
      BY <2>1 DEF Written
    <2>3. SubSeq(files, 1, 2) \in Seq(Observations \cup CandidateMaps)
      <3>1. SubSeq(files, 1, 2) \in Seq(OutputFiles) /\ Len(SubSeq(files, 1, 2)) = 2
            /\ \A i \in 1 .. 2 : SubSeq(files, 1, 2)[i] = files[1 + i - 1]
        BY <2>1, SubSeqProperties
      <3>2. \A i \in 1 .. 2 : SubSeq(files, 1, 2)[i] \in Observations \cup CandidateMaps
        <4>1. SubSeq(files, 1, 2)[1] = files[1] /\ SubSeq(files, 1, 2)[2] = files[2]
          BY <3>1
        <4>. QED  BY <2>2, <4>1
      <3>. QED  BY <3>1, <3>2, ElementOfSeq
    <2>4. Aggregates(p).state \in {"COMPLETE", "PARTIAL"}
      BY <1>1 DEF Observations
    <2>5. [state |-> Aggregates(p).state, digests |-> SubSeq(files, 1, 2)] \in Seals
      BY <2>3, <2>4 DEF Seals
    <2>. QED  BY <1>4, <2>1, <2>5 DEF Content, Written
  <1>. QED  BY <1>2, <1>3, <1>4

\* The files of a directory once the last one, which was torn, is filled.
LEMMA FilledFiles ==
  ASSUME IInv, NEW p \in Programs, FillFile(p)
  PROVE  \E n \in 1 .. 3, files \in Seq(OutputFiles) :
           /\ out[p] # None /\ n = Len(out[p]) /\ out[p][n] = Torn /\ files = out'[p]
           /\ Len(files) = n /\ files[n] = Content(p, n) /\ Content(p, n) \in Written(n)
           /\ \A m \in 1 .. n - 1 : files[m] = out[p][m] /\ files[m] # Torn
           /\ OutTyped' /\ files # None /\ \A q \in Programs : q # p => out'[q] = out[q]
  <1>1. /\ pc[p] = "write" /\ Writing(p)
        /\ out' = [out EXCEPT ![p][Len(out[p])] = Content(p, Len(out[p]))]
    BY DEF FillFile
  <1>2. out[p] # None /\ out[p] # <<>> /\ out[p][Len(out[p])] = Torn
    BY <1>1 DEF Writing
  <1>3. PICK old \in Seq(OutputFiles) : old = out[p]
    BY <1>2, FilesTyped
  <1>4. PICK n \in 1 .. 3 : n = Len(old)
    <2>1. Len(old) \in 0 .. 3 /\ Len(old) # 0
      BY <1>2, <1>3, FilesTyped
    <2>. QED  BY <2>1
  <1>5. Content(p, n) \in Written(n)
    BY <1>1, <1>2, <1>3, <1>4, ContentTypes
  <1>6. PICK c : c = Content(p, n) /\ c \in Written(n) /\ c \in OutputFiles
    <2>1. n = 1 \/ n = 2 \/ n = 3
      OBVIOUS
    <2>2. Written(n) \subseteq OutputFiles
      BY <2>1 DEF Written, OutputFiles
    <2>. QED  BY <1>5, <2>2
  <1>7. PICK files : files = [old EXCEPT ![n] = c]
    OBVIOUS
  <1>8. /\ files \in Seq(OutputFiles) /\ Len(files) = n /\ files[n] = c
        /\ \A m \in 1 .. n : m # n => files[m] = old[m]
    <2>1. n \in 1 .. Len(old)
      BY <1>4
    <2>2. /\ [old EXCEPT ![n] = c] \in Seq(OutputFiles)
          /\ Len([old EXCEPT ![n] = c]) = Len(old)
          /\ \A m \in 1 .. Len(old) : [old EXCEPT ![n] = c][m] = IF m = n THEN c ELSE old[m]
      BY <1>6, <2>1, ExceptSeq
    <2>. QED  BY <1>4, <1>7, <2>2
  <1>9. out' = [out EXCEPT ![p] = files]
    BY <1>1, <1>3, <1>4, <1>6, <1>7, ProgramTypes DEF OutTyped
  <1>10. \A m \in 1 .. n : old[m] \in Written(m) \cup {Torn}
    BY <1>2, <1>3, <1>4, FilesTyped
  <1>11. n <= 3 /\ \A m \in 1 .. n : files[m] \in Written(m) \cup {Torn}
    BY <1>6, <1>8, <1>10
  <1>12. OutTyped' /\ out'[p] = files /\ files # None /\ \A q \in Programs : q # p => out'[q] = out[q]
    BY <1>8, <1>9, <1>11, OneDirectory
  <1>13. \A m \in 1 .. n - 1 : old[m] # Torn
    BY <1>2, <1>3, <1>4, FilesTyped
  <1>14. \A m \in 1 .. n - 1 : files[m] = old[m] /\ files[m] # Torn
    BY <1>8, <1>13
  <1>. QED  BY <1>2, <1>3, <1>4, <1>6, <1>8, <1>12, <1>14

\* A finished file is none of the torn ones.
LEMMA NotTorn ==
  ASSUME NEW n \in 1 .. 3, NEW c \in Written(n)
  PROVE  c # Torn
  <1>1. n = 1 \/ n = 2 \/ n = 3
    OBVIOUS
  <1>. QED  BY <1>1, NoneAssumption DEF Written

LEMMA FillKeepsOrder ==
  ASSUME IInv, NEW p \in Programs, FillFile(p)
  PROVE  InOrder(p)'
  <1>1. PICK n \in 1 .. 3, files \in Seq(OutputFiles) :
          /\ out[p] # None /\ n = Len(out[p]) /\ files = out'[p]
          /\ Len(files) = n /\ files[n] = Content(p, n)
          /\ \A m \in 1 .. n - 1 : files[m] = out[p][m] /\ files[m] # Torn
    BY FilledFiles
  <1>2. CASE n = 3
    <2>1. files[3].digests = SubSeq(out[p], 1, 2)
      BY <1>1, <1>2 DEF Content
    <2>2. PICK old \in Seq(OutputFiles) : old = out[p] /\ Len(old) = 3 /\ files[1] = old[1] /\ files[2] = old[2]
      <3>1. 1 \in 1 .. 3 - 1 /\ 2 \in 1 .. 3 - 1
        OBVIOUS
      <3>. QED  BY <1>1, <1>2, <3>1, FilesTyped
    <2>3. /\ SubSeq(old, 1, 2) \in Seq(OutputFiles) /\ Len(SubSeq(old, 1, 2)) = 2
          /\ \A i \in 1 .. 2 : SubSeq(old, 1, 2)[i] = old[1 + i - 1]
      BY <2>2, SubSeqProperties
    <2>4. /\ SubSeq(files, 1, 2) \in Seq(OutputFiles) /\ Len(SubSeq(files, 1, 2)) = 2
          /\ \A i \in 1 .. 2 : SubSeq(files, 1, 2)[i] = files[1 + i - 1]
      BY <1>1, <1>2, SubSeqProperties
    <2>5. \A i \in 1 .. 2 : SubSeq(old, 1, 2)[i] = SubSeq(files, 1, 2)[i]
      <3>1. /\ SubSeq(old, 1, 2)[1] = old[1] /\ SubSeq(old, 1, 2)[2] = old[2]
            /\ SubSeq(files, 1, 2)[1] = files[1] /\ SubSeq(files, 1, 2)[2] = files[2]
        BY <2>3, <2>4
      <3>. QED  BY <2>2, <3>1
    <2>6. SubSeq(old, 1, 2) = SubSeq(files, 1, 2)
      BY <2>3, <2>4, <2>5, SeqEqual
    <2>. QED  BY <1>1, <1>2, <2>1, <2>2, <2>6 DEF InOrder
  <1>3. CASE n # 3
    BY <1>1, <1>3 DEF InOrder, Sealed
  <1>. QED  BY <1>2, <1>3

\* The first file of the sealer becomes whole: the merge has not started.
LEMMA FirstOfSeal ==
  ASSUME IInv, FillFile("seal"), Len(out["seal"]) = 1
  PROVE  IInv'
  <1>1. /\ pc["seal"] = "write" /\ RootsStay /\ UNCHANGED <<pc, view, lock>> /\ out["seal"] # <<>>
    BY DEF FillFile, RootsStay, programs, Writing
  <1>2. PICK a \in Observations : a = Aggregates("seal") /\ SealedFile(a)
    BY <1>1, SealAggregate
  <1>3. /\ out["seal"] # None /\ out["seal"][1] = Torn /\ out'["seal"] # None
        /\ out'["seal"] \in Seq(OutputFiles) /\ Len(out'["seal"]) = 1 /\ out'["seal"][1] = a
        /\ OutTyped' /\ out'["merge"] = out["merge"]
    <2>1. PICK n \in 1 .. 3, files \in Seq(OutputFiles) :
            /\ out["seal"] # None /\ n = Len(out["seal"]) /\ out["seal"][n] = Torn /\ files = out'["seal"]
            /\ Len(files) = n /\ files[n] = Content("seal", n)
            /\ OutTyped' /\ files # None /\ \A q \in Programs : q # "seal" => out'[q] = out[q]
      BY FilledFiles, TwoPrograms
    <2>2. n = 1 /\ files[1] = a
      BY <1>2, <2>1 DEF Content
    <2>. QED  BY <2>1, <2>2, TwoPrograms
  <1>4. ~Made("seal") /\ pc["merge"] = "off"
    BY <1>3 DEF Made, IInv, MergeInv
  <1>5. ~Made("merge")'
    BY <1>3, <1>4 DEF Made, IInv, OutInv
  <1>6. LedgerInv' /\ TailInv' /\ RootsTyped' /\ Grown /\ ledger' = ledger
    BY <1>1, RootsKept DEF RootsStay
  <1>7. SealedFile(a)'
    BY <1>2, <1>6, SealedFileStays DEF Observations
  <1>8. OutInv'
    <2>1. (Made("seal") => SealedFile(out["seal"][1]))'
      BY <1>3, <1>7
    <2>2. ASSUME NEW q \in Programs PROVE InOrder(q)'
      BY <1>3, FillKeepsOrder, OtherInOrder, TwoPrograms
    <2>3. (\A q \in Programs : InOrder(q))'
      BY <2>2
    <2>. QED  BY <1>5, <2>1, <2>3 DEF OutInv
  <1>9. OutKeeps
    BY <1>3, <1>4, TwoPrograms DEF OutKeeps
  <1>10. SealInv' /\ MergeInv'
    BY <1>1, <1>6, <1>9, SealStays, MergeStays
  <1>11. ProgramsTyped' /\ LockInv'
    BY <1>1, ProgramTypes DEF ProgramsTyped, IInv, LockInv
  <1>. QED  BY <1>3, <1>6, <1>8, <1>10, <1>11, AllTyped DEF IInv

\* The first file of the merge becomes whole, beside the sealer's, which stays.
LEMMA FirstOfMerge ==
  ASSUME IInv, FillFile("merge"), Len(out["merge"]) = 1
  PROVE  IInv'
  <1>1. /\ pc["merge"] = "write" /\ RootsStay /\ UNCHANGED <<pc, view, lock>>
    BY DEF FillFile, RootsStay, programs
  <1>2. PICK k : k = Len(out["seal"][1].ids)
    OBVIOUS
  <1>3. PICK b \in Observations : b = Aggregates("merge") /\ Made("seal") /\ MergedFile(b, k)
    BY <1>1, <1>2, MergeAggregate
  <1>4. /\ out["merge"] # None /\ out'["merge"] # None /\ out'["merge"][1] = b
        /\ OutTyped' /\ out'["seal"] = out["seal"]
    <2>1. PICK n \in 1 .. 3, files \in Seq(OutputFiles) :
            /\ out["merge"] # None /\ n = Len(out["merge"]) /\ out["merge"][n] = Torn /\ files = out'["merge"]
            /\ Len(files) = n /\ files[n] = Content("merge", n)
            /\ OutTyped' /\ files # None /\ \A q \in Programs : q # "merge" => out'[q] = out[q]
      BY FilledFiles, TwoPrograms
    <2>2. n = 1 /\ files[1] = b
      BY <1>3, <2>1 DEF Content
    <2>. QED  BY <2>1, <2>2, TwoPrograms
  <1>5. LedgerInv' /\ TailInv' /\ RootsTyped' /\ Grown /\ ledger' = ledger
    BY <1>1, RootsKept DEF RootsStay
  <1>6. Made("seal")'
    BY <1>3, <1>4 DEF Made
  <1>7. MergedFile(b, k)'
    <2>1. k \in 0 .. NumShards /\ \A s \in 0 .. k - 1 : ledger[s] # None
      BY <1>2, <1>3, SealFirst, Sizes
    <2>. QED  BY <1>3, <1>5, <2>1, MergedFileStays
  <1>8. SealedFile(out["seal"][1])'
    <2>1. PICK a : a = out["seal"][1]
      OBVIOUS
    <2>2. SealedFile(a)'
      BY <1>3, <1>5, <2>1, SealFirst, SealedFileStays
    <2>. QED  BY <1>4, <2>1, <2>2
  <1>9. OutInv'
    <2>1. (Made("merge") => Made("seal") /\ MergedFile(out["merge"][1], Len(out["seal"][1].ids)))'
      BY <1>2, <1>4, <1>6, <1>7
    <2>2. ASSUME NEW q \in Programs PROVE InOrder(q)'
      BY <1>4, FillKeepsOrder, OtherInOrder, TwoPrograms
    <2>3. (\A q \in Programs : InOrder(q))'
      BY <2>2
    <2>. QED  BY <1>8, <2>1, <2>3 DEF OutInv
  <1>10. OutKeeps
    BY <1>4, <1>6, TwoPrograms DEF OutKeeps
  <1>11. SealInv' /\ MergeInv'
    BY <1>1, <1>5, <1>10, SealStays, MergeStays
  <1>12. ProgramsTyped' /\ LockInv'
    BY <1>1, ProgramTypes DEF ProgramsTyped, IInv, LockInv
  <1>. QED  BY <1>4, <1>5, <1>9, <1>11, <1>12, AllTyped DEF IInv

\* The second file, and the third, after which the program is idle.
LEMMA LaterFile ==
  ASSUME IInv, NEW p \in Programs, FillFile(p), Len(out[p]) # 1
  PROVE  IInv'
  <1>1. RootsStay /\ pc[p] = "write"
        /\ IF Len(out[p]) = 3 THEN Idle(p) ELSE UNCHANGED <<programs, lock>>
    BY DEF FillFile, RootsStay
  <1>2. PICK n \in 1 .. 3, files \in Seq(OutputFiles) :
          /\ out[p] # None /\ n = Len(out[p]) /\ files = out'[p] /\ Len(files) = n
          /\ \A m \in 1 .. n - 1 : files[m] = out[p][m] /\ files[m] # Torn
          /\ OutTyped' /\ files # None /\ \A q \in Programs : q # p => out'[q] = out[q]
    BY FilledFiles
  <1>3. files[1] = out[p][1] /\ files[1] # Torn /\ files # <<>> /\ out[p] # <<>>
    <2>1. 1 \in 1 .. n - 1
      BY <1>2
    <2>. QED  BY <1>2, <2>1
  <1>4. Made(p) /\ Made(p)' /\ out'[p][1] = out[p][1]
    BY <1>2, <1>3 DEF Made
  <1>5. InOrder(p)'
    BY FillKeepsOrder
  <1>6. CASE n # 3
    <2>1. UNCHANGED <<pc, view, lock>>
      BY <1>1, <1>2, <1>6 DEF programs
    <2>2. ProgramsTyped' /\ LockInv'
      BY <2>1, ProgramTypes DEF ProgramsTyped, IInv, LockInv
    <2>3. OutKeeps
      BY <1>2, <1>4, TwoPrograms DEF OutKeeps, Made
    <2>4. SealInv' /\ MergeInv'
      BY <1>1, <2>1, <2>3, RootsKept, SealStays, MergeStays DEF RootsStay
    <2>. QED  BY <1>1, <1>2, <1>4, <1>5, <2>1, <2>2, <2>4, StepOfOutput
  <1>7. CASE n = 3
    <2>1. /\ pc' = [pc EXCEPT ![p] = "off"] /\ view' = [view EXCEPT ![p] = Empty]
          /\ lock' = IF p = "seal" THEN None ELSE lock
      BY <1>1, <1>2, <1>7 DEF Idle
    <2>2. pc'[p] = "off" /\ view'[p] = Empty
          /\ \A q \in Programs : q # p => pc'[q] = pc[q] /\ view'[q] = view[q]
      BY <2>1, ProgramTypes DEF ProgramsTyped
    <2>3. ProgramsTyped'
      BY <2>1, EmptyIs, ProgramTypes DEF ProgramsTyped
    <2>4. LockInv'
      BY <2>1, <2>2, TwoPrograms, NoneAssumption DEF IInv, LockInv
    <2>5. IF p = "seal" THEN SealInv' ELSE MergeInv'
      BY <2>2, TwoPrograms DEF SealInv, MergeInv
    <2>. QED  BY <1>1, <1>2, <1>4, <1>5, <2>2, <2>3, <2>4, <2>5, StepOfOutput
  <1>. QED  BY <1>6, <1>7

LEMMA FillFileKeeps ==
  ASSUME IInv, NEW p \in Programs, FillFile(p)
  PROVE  IInv'
  BY FirstOfSeal, FirstOfMerge, LaterFile, TwoPrograms

------------------------------------------------------------------------------
(* The invariant holds. *)

LEMMA InitInv == Init => IInv
  <1>. SUFFICES ASSUME Init PROVE IInv
    OBVIOUS
  <1>1. /\ lock = None /\ made = FALSE /\ tailOpen = FALSE /\ summary = None /\ tailSummary = None
        /\ ledger = [s \in ShardIds |-> None] /\ tailLedger = [s \in TailShards |-> None]
        /\ pc = [p \in Programs |-> "off"] /\ view = [p \in Programs |-> Empty]
        /\ out = [p \in Programs |-> None]
    BY DEF Init, Original!Init, Completion!Init, Completion!Root!Init, TailShards
  <1>2. TypeOK
    BY <1>1, EmptyIs DEF TypeOK, TailShards
  <1>3. LedgerInv /\ TailInv
    BY <1>1 DEF LedgerInv, TailInv
  <1>4. LockInv /\ SealInv /\ MergeInv
    BY <1>1, TwoPrograms, NoneAssumption DEF LockInv, SealInv, MergeInv
  <1>5. OutInv
    BY <1>1, TwoPrograms DEF OutInv, InOrder, Made
  <1>. QED  BY <1>2, <1>3, <1>4, <1>5 DEF IInv

LEMMA StutterKeeps ==
  ASSUME IInv, UNCHANGED vars
  PROVE  IInv'
  <1>1. RootsStay /\ UNCHANGED <<lock, pc, view, out>>
    BY DEF vars, RootsStay, programs
  <1>2. ProgramsTyped' /\ LockInv' /\ OutKeeps
    BY <1>1, ProgramTypes DEF ProgramsTyped, IInv, LockInv, OutKeeps, Made
  <1>3. SealInv'
    BY <1>1, <1>2, SealStays DEF RootsStay
  <1>. QED  BY <1>1, <1>2, <1>3, StepOfSeal

LEMMA NextInv ==
  ASSUME IInv, [Next]_vars
  PROVE  IInv'
  <1>1. CASE WriterStep \/ CompletionStep
    BY <1>1, WritersKeep
  <1>2. CASE SealStart \/ SealStatus
    BY <1>2, SealStartKeeps, SealStatusKeeps
  <1>3. CASE MergeStart \/ MergePartial \/ MergeStatus
    BY <1>3, MergeStartKeeps, MergePartialKeeps, MergeStatusKeeps
  <1>4. ASSUME NEW p \in Programs, AddShard(p) PROVE IInv'
    BY <1>4, AddSealKeeps, AddMergeKeeps, TwoPrograms
  <1>5. ASSUME NEW p \in Programs, Finish(p) \/ CreateFile(p) \/ FillFile(p) PROVE IInv'
    BY <1>5, FinishKeeps, CreateFileKeeps, FillFileKeeps
  <1>6. ASSUME NEW p \in Programs, Crash(p) PROVE IInv'
    BY <1>6, RefuseKeeps DEF Crash, RootsStay
  <1>7. CASE UNCHANGED vars
    BY <1>7, StutterKeeps
  <1>. QED  BY <1>1, <1>2, <1>3, <1>4, <1>5, <1>6, <1>7 DEF Next, Step

\* The invariant of the roots, the programs and the files holds in every state.
THEOREM ChainInvariant == Spec => []IInv
  <1>1. IInv /\ [Next]_vars => IInv'
    BY NextInv
  <1>. QED  BY InitInv, <1>1, PTL DEF Spec

------------------------------------------------------------------------------
(* What follows. *)

\* Every variable keeps its type.
THEOREM ChainTypes == Spec => []TypeOK
  <1>1. IInv => TypeOK
    BY DEF IInv
  <1>. QED  BY <1>1, ChainInvariant, PTL

\* A finished seal has a first file, and it is whole.
LEMMA SealedIsMade ==
  ASSUME IInv, NEW p \in Programs, Sealed(p)
  PROVE  Made(p)
  <1>1. out[p] # None /\ Len(out[p]) = 3
    BY DEF Sealed
  <1>2. out[p] # <<>>
    BY <1>1
  <1>3. 1 \in 1 .. Len(out[p]) - 1
    BY <1>1
  <1>. QED  BY <1>1, <1>2, <1>3, FilesTyped DEF Made

\* What a prefix of n shards counts.
LEMMA CountedOnce ==
  ASSUME NEW a, NEW n, Counted(a, n), Listed(a.ids) = 0 .. n - 1
  PROVE  CountsOnce(a, 0 .. n - 1)
  BY DEF Counted, CountsOnce

LEMMA SealIsExact == IInv => SealExact
  <1>. SUFFICES ASSUME IInv, Sealed("seal")
                PROVE  LET a == out["seal"][1] IN
                       /\ CountsOnce(a, 0 .. (Len(a.ids) - 1))
                       /\ \A s \in Listed(a.ids) : ledger[s] # None /\ ledger[s].rt = a.rt
                       /\ a.state = "COMPLETE" <=> Listed(a.ids) = ShardIds
                       /\ out["seal"][3].digests = SubSeq(out["seal"], 1, 2)
    BY DEF SealExact
  <1>1. Made("seal")
    BY SealedIsMade, TwoPrograms
  <1>2. PICK a \in Observations : a = out["seal"][1] /\ SealedFile(a) /\ a.ids \in Seq(ShardIds)
    BY <1>1, SealFirst
  <1>3. PICK n \in 1 .. NumShards : n = Len(a.ids)
    BY <1>1, <1>2, SealFirst
  <1>4. Listed(a.ids) = 0 .. n - 1
    <2>1. IsRange(a.ids, 0, n) /\ 0 \in Nat /\ n \in Nat
      BY <1>2, <1>3 DEF SealedFile
    <2>. QED  BY <1>2, <2>1, RangeIs
  <1>5. CountsOnce(a, 0 .. n - 1)
    BY <1>2, <1>3, <1>4, CountedOnce DEF SealedFile
  <1>6. \A s \in Listed(a.ids) : ledger[s] # None /\ ledger[s].rt = a.rt
    BY <1>2, <1>3, <1>4 DEF SealedFile
  <1>7. a.state = "COMPLETE" <=> n = NumShards
    BY <1>2, <1>3 DEF SealedFile, Kind
  <1>8. n = NumShards <=> 0 .. n - 1 = ShardIds
    <2>1. ASSUME 0 .. n - 1 = 0 .. NumShards - 1 PROVE n = NumShards
      <3>1. NumShards - 1 \in 0 .. n - 1
        BY <2>1, Sizes
      <3>. QED  BY <3>1, Sizes
    <2>. QED  BY <2>1 DEF ShardIds
  <1>9. out["seal"][3].digests = SubSeq(out["seal"], 1, 2)
    BY TwoPrograms DEF IInv, OutInv, InOrder, Sealed
  <1>. QED  BY <1>2, <1>3, <1>4, <1>5, <1>6, <1>7, <1>8, <1>9

\* Every finished seal counts each shard of its prefix once, under the runtime the
\* receipts still name, says COMPLETE only of the whole manifest, and digests the
\* files beside it (seal_glm_observations.py, main).
THEOREM SealsAreExact == Spec => []SealExact
  BY SealIsExact, ChainInvariant, PTL

\* A seal is of the whole root as it was under the lock (validate_output_root).
THEOREM SealsCoverTheRoot == Spec => []SealsWholeRoot
  <1>1. IInv => SealsWholeRoot
    <2>. SUFFICES ASSUME IInv, pc["seal"] = "write"
                  PROVE  Listed(view["seal"].ids) = Original!Present
      BY DEF SealsWholeRoot
    <2>1. PICK ids \in Seq(ShardIds) :
            ids = view["seal"].ids /\ IsRange(ids, 0, Len(ids)) /\ Original!Present = 0 .. Len(ids) - 1
      BY TwoPrograms, ProgramTypes DEF ProgramsTyped, Views, IInv, SealInv
    <2>2. Len(ids) \in Nat /\ 0 \in Nat
      BY LenProperties
    <2>. QED  BY <2>1, <2>2, RangeIs
  <1>. QED  BY <1>1, ChainInvariant, PTL

\* The merged seal counts every shard of the manifest once, the prefix under the
\* runtime of the seal and the tail under that of the completion root
\* (merge_completion_seal.py, main).
THEOREM MergesAreExact == Spec => []MergeExact
  <1>1. IInv => MergeExact
    <2>. SUFFICES ASSUME IInv, Sealed("merge") PROVE MergeExact
      BY DEF MergeExact
    <2>1. Made("merge")
      BY SealedIsMade, TwoPrograms
    <2>2. PICK a : a = out["merge"][1]
      OBVIOUS
    <2>3. MergedFile(a, Len(out["seal"][1].ids))
      BY <2>1, <2>2 DEF IInv, OutInv
    <2>4. CountsOnce(a, ShardIds)
      BY <2>3, CountedOnce, Sizes DEF MergedFile, ShardIds
    <2>. QED  BY <2>2, <2>3, <2>4 DEF MergeExact, MergedFile
  <1>. QED  BY <1>1, ChainInvariant, PTL

\* Neither program refuses what the captures closed and the receipts bear out, but for one case:
\* the merge refuses the closed status of a completion driver that captured found shards again,
\* which lists a shard twice (validate_output_root, validate_manifest, merge_completion_seal.py main).
THEOREM NothingIsRefused == Spec => []NoFalseRefusal
  <1>1. IInv => NoFalseRefusal
    <2>. SUFFICES ASSUME IInv PROVE NoFalseRefusal
      OBVIOUS
    <2>1. ASSUME summary # None, Listed(summary.completed) = Original!Present
          PROVE  RootAccepted \/ Original!Present = {}
      <3>1. PICK ids \in Seq(ShardIds) : ids = summary.completed
        BY <2>1, RootTypes DEF RootsTyped, Summaries
      <3>2. PICK n \in Nat : n = Len(ids)
        BY LenProperties
      <3>3. \A i \in 1 .. n : ids[i] = i - 1
        BY <2>1, <3>1, <3>2 DEF IInv, LedgerInv
      <3>4. IsRange(ids, 0, n)
        BY <3>2, <3>3 DEF IsRange
      <3>5. Original!Present = 0 .. n - 1
        <4>1. Listed(ids) = 0 .. n - 1
          BY <3>4, RangeIs
        <4>. QED  BY <2>1, <3>1, <4>1
      <3>6. CASE ids = <<>>
        <4>1. n = 0 /\ 0 .. 0 - 1 = {}
          BY <3>2, <3>6
        <4>. QED  BY <3>5, <4>1
      <3>7. CASE ids # <<>>
        BY <2>1, <3>1, <3>2, <3>4, <3>5, <3>7 DEF RootAccepted
      <3>. QED  BY <3>6, <3>7
    <2>2. ASSUME NEW p \in Programs, pc[p] = "add", view[p].next < Len(view[p].ids)
          PROVE  Validates(p, ReceiptOf(p, view[p].ids[view[p].next + 1]))
      <3>1. CASE p = "seal"
        BY <2>2, <3>1, SealNext DEF Validates, ReceiptOf
      <3>2. CASE p = "merge"
        BY <2>2, <3>2, MergeNext DEF Validates, ReceiptOf
      <3>. QED  BY <3>1, <3>2, TwoPrograms
    <2>3. ASSUME pc["merge"] = "status", ClosedTailOf(view["merge"].base)
          PROVE  TailAccepted(view["merge"].base) \/ ListsTwice(tailSummary.completed)
      <3>1. PICK list \in Seq(ShardIds) : list = tailSummary.completed
        BY <2>3, RootTypes DEF RootsTyped, Summaries, ClosedTailOf
      <3>2. PICK f \in Nat : Replayed(list, f)
        BY <2>3, <3>1 DEF IInv, TailInv, ClosedTailOf
      <3>3. PICK k \in Nat : k = Len(view["merge"].base.ids) /\ k < NumShards
        BY <2>3, SealFirst, Sizes DEF IInv, MergeInv
      <3>4. CASE f = 0
        <4>1. IsRange(list, FirstShard, NumShards)
          BY <3>2, <3>4, Sizes DEF Replayed, IsRange
        <4>2. FirstShard .. NumShards - 1 = k .. NumShards - 1
          BY <2>3, <3>1, <3>3, <4>1, RangeIs, Sizes DEF ClosedTailOf
        <4>3. FirstShard = k
          <5>1. FirstShard \in k .. NumShards - 1 /\ k \in FirstShard .. NumShards - 1
            BY <3>3, <4>2, Sizes
          <5>. QED  BY <3>3, <5>1, Sizes
        <4>. QED  BY <2>3, <3>1, <3>3, <4>1, <4>3 DEF TailAccepted, ClosedTailOf
      <3>5. CASE f # 0
        <4>1. 1 \in 1 .. Len(list) /\ f + 1 \in 1 .. Len(list) /\ 1 < f + 1
          BY <3>2, <3>5, Sizes DEF Replayed
        <4>2. list[1] = FirstShard /\ list[f + 1] = FirstShard
          BY <3>2, <3>5, <4>1, Sizes DEF Replayed
        <4>. QED  BY <3>1, <4>1, <4>2 DEF ListsTwice
      <3>. QED  BY <3>4, <3>5
    <2>. QED  BY <2>1, <2>2, <2>3 DEF NoFalseRefusal
  <1>. QED  BY <1>1, ChainInvariant, PTL

\* A finished file is never written again: a directory is used by one attempt only
\* (mkdir(exist_ok=False) and the three write_text of both programs).
THEOREM FilesAreFinal == Spec => WriteOnce
  <1>. DEFINE Stays == \A p \in Programs : out[p] # None =>
                         \A n \in 1 .. Len(out[p]) : out[p][n] # Torn =>
                           n <= Len(out'[p]) /\ out'[p][n] = out[p][n]
  <1>1. IInv /\ [Next]_vars => [Stays]_out
    <2>. SUFFICES ASSUME IInv, Next, out' # out PROVE Stays
      BY DEF vars
    <2>. SUFFICES ASSUME NEW q \in Programs, out[q] # None,
                         NEW n \in 1 .. Len(out[q]), out[q][n] # Torn
                  PROVE  n <= Len(out'[q]) /\ out'[q][n] = out[q][n]
      OBVIOUS
    <2>1. PICK old \in Seq(OutputFiles) : old = out[q] /\ Len(old) \in 0 .. 3
      BY FilesTyped
    <2>2. CASE out'[q] = out[q]
      BY <2>1, <2>2
    <2>3. ASSUME NEW p \in Programs, Finish(p) PROVE out'[q] = out[q]
      BY <2>3, ProgramTypes DEF Finish, DirectoryFree, Refuse, OutTyped
    <2>4. ASSUME NEW p \in Programs, CreateFile(p)
          PROVE  n <= Len(out'[q]) /\ out'[q][n] = out[q][n]
      <3>1. out' = [out EXCEPT ![p] = Append(out[p], Torn)]
        BY <2>4 DEF CreateFile
      <3>2. CASE p = q
        <4>1. out'[q] = Append(old, Torn)
          BY <2>1, <3>1, <3>2, ProgramTypes DEF OutTyped
        <4>2. Len(Append(old, Torn)) = Len(old) + 1 /\ Append(old, Torn)[n] = old[n]
          BY <2>1
        <4>. QED  BY <2>1, <4>1, <4>2
      <3>3. CASE p # q
        <4>1. out'[q] = out[q]
          BY <3>1, <3>3, ProgramTypes DEF OutTyped
        <4>. QED  BY <2>2, <4>1
      <3>. QED  BY <3>2, <3>3
    <2>5. ASSUME NEW p \in Programs, FillFile(p)
          PROVE  n <= Len(out'[q]) /\ out'[q][n] = out[q][n]
      <3>1. PICK m \in 1 .. 3, files \in Seq(OutputFiles) :
              /\ m = Len(out[p]) /\ out[p][m] = Torn /\ files = out'[p] /\ Len(files) = m
              /\ \A i \in 1 .. m - 1 : files[i] = out[p][i]
              /\ \A r \in Programs : r # p => out'[r] = out[r]
        BY <2>5, FilledFiles
      <3>2. CASE p = q
        <4>1. n # m /\ n \in 1 .. m
          BY <2>1, <3>1, <3>2
        <4>2. n \in 1 .. m - 1
          BY <4>1
        <4>. QED  BY <3>1, <3>2, <4>1, <4>2
      <3>3. CASE p # q
        BY <2>2, <3>1, <3>3
      <3>. QED  BY <3>2, <3>3
    <2>6. ASSUME NEW p \in Programs, AddShard(p) \/ Crash(p) PROVE FALSE
      BY <2>6 DEF AddShard, Crash, Refuse
    <2>7. CASE \/ WriterStep \/ CompletionStep \/ SealStart \/ SealStatus
               \/ MergeStart \/ MergePartial \/ MergeStatus
      BY <2>7 DEF WriterStep, CompletionStep, SealStart, SealStatus, MergeStart, MergePartial, MergeStatus, Refuse
    <2>. QED  BY <2>2, <2>3, <2>4, <2>5, <2>6, <2>7 DEF Next, Step
  <1>. QED  BY <1>1, ChainInvariant, PTL DEF Spec, WriteOnce
==============================================================================
