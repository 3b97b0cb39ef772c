--------------------------------- MODULE SealChain ---------------------------------
(***************************************************************************)
(* From receipts to a seal.  seal_glm_observations.py aggregates the       *)
(* receipts of the original output root, under its lock, into a directory  *)
(* sealed-observations; f216/merge_completion_seal.py adds the receipts of *)
(* a completion root, without a lock, and writes a second directory.  The  *)
(* writers of both roots keep running, crashing and restarting meanwhile:  *)
(* they are the ledgers that RecordCapture implements.                     *)
(*                                                                         *)
(* Abstractions.  The statistics of a shard are the bag that holds the     *)
(* shard once; a record's domain matters only through the set of domains a *)
(* shard has.  A digest of a file is its content.  Manifest, model and     *)
(* contract are the same for every program.  A file is created empty and   *)
(* then filled: write_text is not atomic.                                  *)
(***************************************************************************)
EXTENDS Integers, Sequences

CONSTANTS
  NumShards,   \* shards of the token manifest
  FirstShard,  \* --completion-start-shard of the completion driver
  Runtimes,    \* runtime identities
  Domains,     \* domains of the records
  DomainsOf,   \* DomainsOf[s]: the domains that occur in shard s
  None,        \* absent
  Torn         \* a file whose writer has not finished

ShardIds == 0 .. (NumShards - 1)

ASSUME ShardsAssumption ==
  /\ NumShards \in Nat \ {0}
  /\ FirstShard \in ShardIds
  /\ DomainsOf \in [ShardIds -> SUBSET Domains]

\* What the files say: receipts and status files of the roots, and the files of a seal.
Bag == [ShardIds -> Nat]
Receipts == [rt : Runtimes, obs : Bag]
Summaries ==
  [state : {"PAUSED_AT_RECORD_SHARD", "RECORD_LOCAL_COMPLETE"}, completed : Seq(ShardIds)]
Observations ==
  [state : {"COMPLETE", "PARTIAL"}, ids : Seq(ShardIds), rt : Runtimes,
   tailrt : Runtimes \cup {None}, total : Bag, domains : [Domains -> Bag]]
CandidateMaps == [candidates : Bag, domains : [Domains -> Bag]]
Seals == [state : {"COMPLETE", "PARTIAL"}, digests : Seq(Observations \cup CandidateMaps)]
OutputFiles == Observations \cup CandidateMaps \cup Seals \cup {Torn}
Written(n) == CASE n = 1 -> Observations [] n = 2 -> CandidateMaps [] n = 3 -> Seals

\* What a program has in memory.
Views == [ids : Seq(ShardIds), next : Nat, rt : Runtimes \cup {None}, total : Bag,
          domains : [Domains -> Bag], base : Observations \cup {None}]

\* What is there is told from None, and a finished file from a torn one.
ASSUME NoneAssumption ==
  /\ None \notin Receipts /\ None \notin Seq(OutputFiles) /\ None \notin {"writer", "seal"}
  /\ Torn \notin Observations /\ Torn \notin CandidateMaps /\ Torn \notin Seals

VARIABLES
  lock,         \* flock on the original root's pipeline.lock
  made,         \* does pipeline.lock exist?
  ledger,       \* receipts in the original root
  summary,      \* its record-status.json
  tailOpen, tailLedger, tailSummary,  \* the completion root
  pc,           \* pc[p]: where program p is
  view,         \* view[p]: what it has in memory
  out           \* out[p]: its output directory

programs == <<pc, view>>
tailRoot == <<tailOpen, tailLedger, tailSummary>>
vars == <<lock, made, ledger, summary, tailRoot, programs, out>>

Programs == {"seal", "merge"}

------------------------------------------------------------------------------
\* The two roots and their writers.

Nothing == [t \in ShardIds |-> 0]
Once(S) == [t \in ShardIds |-> IF t \in S THEN 1 ELSE 0]
Plus(a, b) == [t \in ShardIds |-> a[t] + b[t]]
ExactStats == [s \in ShardIds |-> Once({s})]

Original == INSTANCE ShardLedger WITH Shards <- ShardIds, open <- lock = "writer"
Completion == INSTANCE TailLedger WITH
  Low <- FirstShard, High <- NumShards - 1,
  open <- tailOpen, ledger <- tailLedger, summary <- tailSummary

\* A capture of the original shards takes the lock, commits, and lets it go.
WriterStep ==
  /\ \/ lock = None /\ lock' = "writer" /\ Original!Open
     \/ lock' = None /\ Original!Abandon
     \/ UNCHANGED lock /\ \E rt \in Runtimes : Original!CommitNext(rt)
     \/ /\ lock' = None
        /\ \E state \in {"PAUSED_AT_RECORD_SHARD", "RECORD_LOCAL_COMPLETE"} : Original!Close(state)
  /\ made' = TRUE
  /\ UNCHANGED <<tailRoot, programs, out>>

CompletionStep ==
  /\ Completion!Next
  /\ UNCHANGED <<lock, made, ledger, summary, programs, out>>

------------------------------------------------------------------------------
\* An output directory is None, or the list of the files written to it so far:
\* observations.json, candidates.json and, last, seal.json.
Writing(p) == out[p] # None /\ out[p] # <<>> /\ out[p][Len(out[p])] = Torn
Sealed(p) == out[p] # None /\ Len(out[p]) = 3 /\ ~Writing(p)

------------------------------------------------------------------------------
\* What a program aggregates.

\* An idle program has an empty memory: no shards, no runtime, nothing added.
Empty == [ids |-> <<>>, next |-> 0, rt |-> None, total |-> Nothing,
          domains |-> [d \in Domains |-> Nothing], base |-> None]

IsRange(list, a, b) ==
  /\ Len(list) = b - a
  /\ \A i \in 1 .. Len(list) : list[i] = a + i - 1

Kind(ids) == IF Len(ids) = NumShards THEN "COMPLETE" ELSE "PARTIAL"

Idle(p) ==
  /\ pc' = [pc EXCEPT ![p] = "off"]
  /\ view' = [view EXCEPT ![p] = Empty]
  /\ lock' = IF p = "seal" THEN None ELSE lock
Move(p, label) == pc' = [pc EXCEPT ![p] = label] /\ UNCHANGED lock
Refuse(p) == Idle(p) /\ UNCHANGED out

\* The lock file is opened for reading, so it must exist, and locked with LOCK_NB.
SealStart ==
  /\ pc["seal"] = "off"
  /\ made
  /\ lock = None
  /\ lock' = "seal"
  /\ pc' = [pc EXCEPT !["seal"] = "status"]
  /\ UNCHANGED <<made, ledger, summary, tailRoot, view, out>>

\* Mutant: the receipts on disk are not compared with the status file.
StatusAccepted ==
  /\ summary # None
  /\ summary.completed # <<>>
  /\ IsRange(summary.completed, 0, Len(summary.completed))

\* A terminal status whose list is a nonempty prefix and names the receipts on disk.
RootAccepted ==
  /\ summary # None
  /\ summary.completed # <<>>
  /\ IsRange(summary.completed, 0, Len(summary.completed))
  /\ Original!Present = 0 .. (Len(summary.completed) - 1)

SealStatus ==
  /\ pc["seal"] = "status"
  /\ IF RootAccepted
     THEN /\ view' = [view EXCEPT !["seal"].ids = summary.completed]
          /\ Move("seal", "add")
          /\ UNCHANGED out
     ELSE Refuse("seal")
  /\ UNCHANGED <<made, ledger, summary, tailRoot>>

\* The merge loads the observations of the partial seal, ...
MergeStart ==
  /\ pc["merge"] = "off"
  /\ out["seal"] # None
  /\ out["seal"] # <<>>
  /\ out["seal"][1] # Torn
  /\ view' = [view EXCEPT !["merge"].base = out["seal"][1]]
  /\ Move("merge", "partial")
  /\ UNCHANGED <<made, ledger, summary, tailRoot, out>>

\* ... then its seal.json, whose digest of the observations must be right; the
\* seal must be a partial one, of a nonempty proper prefix.
PartialAccepted(base) ==
  /\ Sealed("seal")
  /\ out["seal"][3].digests[1] = out["seal"][1]
  /\ base.state = "PARTIAL"
  /\ base.ids # <<>>
  /\ IsRange(base.ids, 0, Len(base.ids))

MergePartial ==
  /\ pc["merge"] = "partial"
  /\ IF PartialAccepted(view["merge"].base)
     THEN Move("merge", "status") /\ UNCHANGED <<view, out>>
     ELSE Refuse("merge")
  /\ UNCHANGED <<made, ledger, summary, tailRoot>>

\* The completion root's status must list exactly the shards the seal lacks.
TailAccepted(base) ==
  /\ tailSummary # None
  /\ tailSummary.state = "RECORD_LOCAL_COMPLETE"
  /\ IsRange(tailSummary.completed, Len(base.ids), NumShards)

\* Mutant: the tail is validated under the runtime of the sealed prefix.
MergeOneRuntime ==
  /\ pc["merge"] = "status"
  /\ LET base == view["merge"].base IN
     IF TailAccepted(base)
     THEN /\ view' = [view EXCEPT !["merge"].ids = tailSummary.completed,
                                  !["merge"].rt = base.rt,
                                  !["merge"].total = base.total,
                                  !["merge"].domains = base.domains]
          /\ Move("merge", "add")
          /\ UNCHANGED out
     ELSE Refuse("merge")
  /\ UNCHANGED <<made, ledger, summary, tailRoot>>

MergeStatus ==
  /\ pc["merge"] = "status"
  /\ LET base == view["merge"].base IN
     IF TailAccepted(base)
     THEN /\ view' = [view EXCEPT !["merge"].ids = tailSummary.completed,
                                  !["merge"].total = base.total,
                                  !["merge"].domains = base.domains]
          /\ Move("merge", "add")
          /\ UNCHANGED out
     ELSE Refuse("merge")
  /\ UNCHANGED <<made, ledger, summary, tailRoot>>

------------------------------------------------------------------------------
\* Aggregation, the same code in both programs.

\* Mutant: the merge finds the tail's receipts in the original root.
ReceiptOfOriginal(p, s) == ledger[s]

\* The sealer reads the original root, the merge the completion root.
ReceiptOf(p, s) == IF p = "seal" THEN ledger[s] ELSE tailLedger[s]

\* The receipt exists and validates under the runtime of the first one.
Validates(p, receipt) ==
  /\ receipt # None
  /\ view[p].rt \in {None, receipt.rt}

\* Mutant: the runtime of the first receipt is not remembered.
PinsNothing(p, receipt) == view[p].rt

\* The first receipt fixes the runtime.
PinnedRuntime(p, receipt) == IF view[p].rt = None THEN receipt.rt ELSE view[p].rt

\* Mutant: a mixed shard counts for each of its domains.
AddToEveryDomain(domains, s, obs) ==
  [d \in Domains |-> IF d \in DomainsOf[s] THEN Plus(domains[d], obs) ELSE domains[d]]

\* Only a shard all of whose records have one domain counts for that domain.
AddToDomain(domains, s, obs) ==
  [d \in Domains |-> IF DomainsOf[s] = {d} THEN Plus(domains[d], obs) ELSE domains[d]]

AddShard(p) ==
  LET v == view[p]
      s == v.ids[v.next + 1]
      receipt == ReceiptOf(p, s)
  IN
  /\ pc[p] = "add"
  /\ v.next < Len(v.ids)
  /\ IF Validates(p, receipt)
     THEN /\ view' = [view EXCEPT ![p].next = @ + 1,
                                  ![p].rt = PinnedRuntime(p, receipt),
                                  ![p].total = Plus(@, receipt.obs),
                                  ![p].domains = AddToDomain(@, s, receipt.obs)]
          /\ UNCHANGED <<pc, lock, out>>
     ELSE Refuse(p)
  /\ UNCHANGED <<made, ledger, summary, tailRoot>>

\* Mutant: mkdir(exist_ok=True).
DirectoryIsFree(p) == TRUE

\* mkdir(exist_ok=False): a directory left by an earlier attempt is refused.
DirectoryFree(p) == out[p] = None

\* candidate_maps raises without any homogeneous shard; then the directory is made.
Finish(p) ==
  /\ pc[p] = "add"
  /\ view[p].next = Len(view[p].ids)
  /\ IF /\ \E d \in Domains : view[p].domains[d] # Nothing
        /\ p = "merge" => Len(view[p].base.ids) + Len(view[p].ids) = NumShards
        /\ DirectoryFree(p)
     THEN /\ out' = [out EXCEPT ![p] = <<>>]
          /\ Move(p, "write")
          /\ UNCHANGED view
     ELSE Refuse(p)
  /\ UNCHANGED <<made, ledger, summary, tailRoot>>

------------------------------------------------------------------------------
\* The output directory.

Aggregates(p) ==
  LET v == view[p] IN
  IF p = "seal"
  THEN [state |-> Kind(v.ids), ids |-> v.ids, rt |-> v.rt, tailrt |-> None,
        total |-> v.total, domains |-> v.domains]
  ELSE [state |-> "COMPLETE", ids |-> v.base.ids \o v.ids, rt |-> v.base.rt, tailrt |-> v.rt,
        total |-> v.total, domains |-> v.domains]

\* The n-th file.  The seal holds the digests of the first two as they are on disk.
Content(p, n) ==
  CASE n = 1 -> Aggregates(p)
    [] n = 2 -> [candidates |-> view[p].total, domains |-> view[p].domains]
    [] n = 3 -> [state |-> Aggregates(p).state, digests |-> SubSeq(out[p], 1, 2)]

CreateFile(p) ==
  /\ pc[p] = "write"
  /\ ~Writing(p)
  /\ Len(out[p]) < 3
  /\ out' = [out EXCEPT ![p] = Append(@, Torn)]
  /\ UNCHANGED <<lock, made, ledger, summary, tailRoot, programs>>

\* The file is complete; after the last one the program returns.
FillFile(p) ==
  LET n == Len(out[p]) IN
  /\ pc[p] = "write"
  /\ Writing(p)
  /\ out' = [out EXCEPT ![p][n] = Content(p, n)]
  /\ IF n = 3 THEN Idle(p) ELSE UNCHANGED <<programs, lock>>
  /\ UNCHANGED <<made, ledger, summary, tailRoot>>

\* The program dies; what it wrote stays.
Crash(p) ==
  /\ pc[p] # "off"
  /\ Refuse(p)
  /\ UNCHANGED <<made, ledger, summary, tailRoot>>

Init ==
  /\ lock = None
  /\ made = FALSE
  /\ Original!Init
  /\ Completion!Init
  /\ pc = [p \in Programs |-> "off"]
  /\ view = [p \in Programs |-> Empty]
  /\ out = [p \in Programs |-> None]

Step(p) ==
  AddShard(p) \/ Finish(p) \/ CreateFile(p) \/ FillFile(p) \/ Crash(p)

Next ==
  \/ WriterStep \/ CompletionStep
  \/ SealStart \/ SealStatus
  \/ MergeStart \/ MergePartial \/ MergeStatus
  \/ \E p \in Programs : Step(p)

Spec == Init /\ [][Next]_vars
------------------------------------------------------------------------------
(* Properties. *)

\* Every variable keeps its type.
TypeOK ==
  /\ lock \in {None, "writer", "seal"} /\ made \in BOOLEAN /\ tailOpen \in BOOLEAN
  /\ ledger \in [ShardIds -> Receipts \cup {None}]
  /\ tailLedger \in [FirstShard .. (NumShards - 1) -> Receipts \cup {None}]
  /\ {summary, tailSummary} \subseteq Summaries \cup {None}
  /\ pc \in [Programs -> {"off", "partial", "status", "add", "write"}]
  /\ view \in [Programs -> Views]
  /\ out \in [Programs -> Seq(OutputFiles) \cup {None}]
  /\ \A p \in Programs : out[p] # None =>
       Len(out[p]) <= 3 /\ \A n \in 1 .. Len(out[p]) : out[p][n] \in Written(n) \cup {Torn}

Listed(list) == {list[i] : i \in 1 .. Len(list)}
Homogeneous(d, S) == {s \in S : DomainsOf[s] = {d}}

\* What a finished observations.json says of the shards S: each is counted once,
\* in its own domain if all its records are of one domain, and nothing else is.
CountsOnce(a, S) ==
  /\ Listed(a.ids) = S
  /\ a.total = Once(S)
  /\ \A d \in Domains : a.domains[d] = Once(Homogeneous(d, S))

\* A seal counts each shard of its prefix once, under the one runtime that the
\* receipts on disk still name, and says COMPLETE only of the whole manifest; its
\* digests are those of the files beside it.
SealExact ==
  Sealed("seal") =>
    LET a == out["seal"][1] IN
    /\ CountsOnce(a, 0 .. (Len(a.ids) - 1))
    /\ \A s \in Listed(a.ids) : ledger[s] # None /\ ledger[s].rt = a.rt
    /\ a.state = "COMPLETE" <=> Listed(a.ids) = ShardIds
    /\ out["seal"][3].digests = SubSeq(out["seal"], 1, 2)

\* A seal covers the whole root as it was under the lock: not the shorter list of a
\* status file that a later, crashed launch left behind.
SealsWholeRoot ==
  pc["seal"] = "write" => Listed(view["seal"].ids) = Original!Present

\* The merged seal counts every shard of the manifest once: the sealed prefix under
\* its runtime, the tail under the one runtime of the completion root.
MergeExact ==
  Sealed("merge") =>
    LET a == out["merge"][1]
        k == Len(out["seal"][1].ids)
    IN /\ CountsOnce(a, ShardIds)
       /\ \A s \in 0 .. (k - 1) : ledger[s].rt = a.rt
       /\ \A s \in k .. (NumShards - 1) : tailLedger[s] # None /\ tailLedger[s].rt = a.tailrt

\* A file that was finished is never written again: an output directory is used once.
WriteOnce ==
  [][\A p \in Programs : out[p] # None =>
       \A n \in 1 .. Len(out[p]) : out[p][n] # Torn =>
         n <= Len(out'[p]) /\ out'[p][n] = out[p][n]]_out

ClosedTailOf(base) ==
  /\ tailSummary # None
  /\ tailSummary.state = "RECORD_LOCAL_COMPLETE"
  /\ Listed(tailSummary.completed) = Len(base.ids) .. (NumShards - 1)

ListsTwice(list) == \E i, j \in 1 .. Len(list) : i < j /\ list[i] = list[j]

\* Neither program refuses what the captures closed and the receipts on disk bear out: the sealer
\* accepts such a status, the merge accepts that of the tail its seal lacks, and every receipt
\* after them validates.  One case is refused, and is the only one: the status of a completion
\* driver that found shards and captured them again lists a shard twice (TailLedger).
NoFalseRefusal ==
  /\ pc["seal"] = "status" /\ summary # None /\ Listed(summary.completed) = Original!Present
       => RootAccepted \/ Original!Present = {}
  /\ pc["merge"] = "status" /\ ClosedTailOf(view["merge"].base)
       => TailAccepted(view["merge"].base) \/ ListsTwice(tailSummary.completed)
  /\ \A p \in Programs : pc[p] = "add" /\ view[p].next < Len(view[p].ids)
       => Validates(p, ReceiptOf(p, view[p].ids[view[p].next + 1]))
==============================================================================
