---------------------------- MODULE CheckpointBuild ----------------------------
(***************************************************************************)
(* build_reap_checkpoint.py: rewrites every weight file of a source model  *)
(* to the kept experts, with a receipt for each file, and seals the output *)
(* directory.  A builder may die at any point; any builder, of the same or *)
(* of another contract, may be started on what it left.                    *)
(*                                                                         *)
(* Abstractions.  Source files do not change, and what a builder makes of  *)
(* file f is determined by its contract (keep map, metric, digests), so a  *)
(* digest is the contract it was made under; tensors, and the closure      *)
(* checks that count those of the source, are left out.  A write to a      *)
(* temporary file that then replaces its target is one step, except for    *)
(* the contract, whose temporary file later builders can see.              *)
(***************************************************************************)
EXTENDS Integers, Sequences

CONSTANTS
  Builders,   \* processes
  Contracts,  \* build contracts
  NumFiles,   \* weight files of the source, in sorted order
  Omitted,    \* Omitted[c]: files of which contract c keeps nothing
  None, Torn

Files == 1 .. NumFiles

ASSUME FilesAssumption == NumFiles \in Nat \ {0} /\ Omitted \in [Contracts -> SUBSET Files]

\* Files other than weights and receipts, in the order they are written.  The first
\* two are copied in place; the rest are replaced.  The seal does not list tokenizer.
MetaNames == <<"source_config", "tokenizer", "config", "quantization_config", "index", "protected">>
CopiedMeta == 1 .. 2
SealedMeta == {1} \cup 3 .. Len(MetaNames)
MetaFiles == 1 .. Len(MetaNames)

\* What receipts, metadata, the manifest and the status say.
Receipts == [path : Files, contract : Contracts, omitted : BOOLEAN]
Metadata == [contract : Contracts \cup {None}, files : Seq(Receipts)]
Seals == [contract : Contracts, files : Seq(Receipts), meta : [SealedMeta -> Metadata]]
Statuses == [state : {"BUILDING", "COMPLETE"}, done : Files, manifest : Seals \cup {None}]

ASSUME NoneAssumption ==
  /\ None \notin Contracts \cup Builders \cup Receipts \cup Metadata \cup Seals \cup Statuses
  /\ Torn \notin Metadata \cup {None}

VARIABLES
  lock,      \* holder of .build.lock
  pc,        \* pc[b]: where builder b is
  args,      \* its contract
  next,      \* the file, then the metadata file, it is at
  seen,      \* the receipts it has collected
  temp,      \* is there a BUILD_CONTRACT.json.tmp?
  contract,  \* BUILD_CONTRACT.json
  data,      \* data[f]: weight file f
  receipt,   \* .receipts/f.json
  meta,      \* meta[n]: the n-th metadata file
  manifest,  \* EXL3_MANIFEST.json
  status     \* BUILD_STATUS.json

memory == <<pc, args, next, seen>>
claim == <<temp, contract>>
payload == <<data, receipt>>
vars == <<lock, memory, claim, payload, meta, manifest, status>>

------------------------------------------------------------------------------
Goto(b, label) == pc' = [pc EXCEPT ![b] = label]

\* The builder returns, raises or dies: its memory and its flock are gone.
Ends(b) ==
  /\ Goto(b, "off")
  /\ args' = [args EXCEPT ![b] = None]
  /\ next' = [next EXCEPT ![b] = 0]
  /\ seen' = [seen EXCEPT ![b] = <<>>]
  /\ lock' = IF lock = b THEN None ELSE lock

Refuse(b) == Ends(b) /\ UNCHANGED <<claim, payload, meta, manifest, status>>

\* What rewrite_shard says of file f under contract c.
ReceiptFor(c, f) == [path |-> f, contract |-> c, omitted |-> f \in Omitted[c]]

\* A metadata file is copied from the source, or made of the contract and the receipts.
MetaContent(b, n) ==
  IF n \in CopiedMeta THEN [contract |-> None, files |-> <<>>]
  ELSE [contract |-> args[b], files |-> seen[b]]

\* Anything but the lock file.
Nonempty ==
  \/ temp
  \/ manifest # None \/ status # None
  \/ \E f \in Files : data[f] # None \/ receipt[f] # None
  \/ \E n \in MetaFiles : meta[n] # None

------------------------------------------------------------------------------
\* Mutant: the lock file is opened and not locked.
StartUnlocked(b, c) ==
  /\ pc[b] = "off"
  /\ Goto(b, "contract")
  /\ args' = [args EXCEPT ![b] = c]
  /\ next' = [next EXCEPT ![b] = 1]
  /\ UNCHANGED <<lock, seen, claim, payload, meta, manifest, status>>

\* A builder that does not get the lock raises, and has changed nothing.
Start(b, c) ==
  /\ pc[b] = "off"
  /\ lock = None
  /\ lock' = b
  /\ Goto(b, "contract")
  /\ args' = [args EXCEPT ![b] = c]
  /\ next' = [next EXCEPT ![b] = 1]
  /\ UNCHANGED <<seen, claim, payload, meta, manifest, status>>

\* Mutant: the prior contract is not compared.
RecognisesAny(b) == contract # None \/ ~Nonempty

\* The directory is empty, or it belongs to this contract.
Recognises(b) == IF contract # None THEN contract = args[b] ELSE ~Nonempty

CheckContract(b) ==
  /\ pc[b] = "contract"
  /\ IF Recognises(b)
     THEN /\ Goto(b, "open")
          /\ UNCHANGED <<lock, args, next, seen, claim, payload, meta, manifest, status>>
     ELSE Refuse(b)

\* atomic_json of the contract, in two steps; a rerun writes the same contract again.
OpenContract(b) ==
  /\ pc[b] = "open"
  /\ temp' = TRUE
  /\ Goto(b, "claim")
  /\ UNCHANGED <<lock, args, next, seen, contract, payload, meta, manifest, status>>

ReplaceContract(b) ==
  /\ pc[b] = "claim"
  /\ temp' = FALSE
  /\ contract' = args[b]
  /\ Goto(b, "space")
  /\ UNCHANGED <<lock, args, next, seen, payload, meta, manifest, status>>

\* The free space is whatever the disk's other users leave.
CheckSpace(b) ==
  /\ pc[b] = "space"
  /\ \/ /\ Goto(b, "file")
        /\ UNCHANGED <<lock, args, next, seen, claim, payload, meta, manifest, status>>
     \/ Refuse(b)

\* A file that has a receipt must still be what the receipt says.
Intact(f) == receipt[f].omitted \/ data[f] = receipt[f].contract

ReuseFile(b) ==
  LET f == next[b] IN
  /\ pc[b] = "file"
  /\ f \in Files
  /\ receipt[f] # None
  /\ IF Intact(f)
     THEN /\ seen' = [seen EXCEPT ![b] = Append(@, receipt[f])]
          /\ Goto(b, "count")
          /\ UNCHANGED <<lock, args, next, claim, payload, meta, manifest, status>>
     ELSE Refuse(b)

\* Mutant: the temporary file is not put in place.
RewriteUnreplaced(b) ==
  /\ pc[b] = "file"
  /\ next[b] \in Files
  /\ receipt[next[b]] = None
  /\ Goto(b, "receipt")
  /\ UNCHANGED <<lock, args, next, seen, claim, payload, meta, manifest, status>>

\* rewrite_shard: a temporary file, reread, replaces the target.
RewriteFile(b) ==
  LET f == next[b] IN
  /\ pc[b] = "file"
  /\ f \in Files
  /\ receipt[f] = None
  /\ data' = [data EXCEPT ![f] = IF f \in Omitted[args[b]] THEN @ ELSE args[b]]
  /\ Goto(b, "receipt")
  /\ UNCHANGED <<lock, args, next, seen, claim, receipt, meta, manifest, status>>

WriteReceipt(b) ==
  LET f == next[b] IN
  /\ pc[b] = "receipt"
  /\ receipt' = [receipt EXCEPT ![f] = ReceiptFor(args[b], f)]
  /\ seen' = [seen EXCEPT ![b] = Append(@, ReceiptFor(args[b], f))]
  /\ Goto(b, "count")
  /\ UNCHANGED <<lock, args, next, claim, data, meta, manifest, status>>

\* Mutant: a rerun leaves the status of a finished build alone.
StatusKept(b) ==
  IF status # None /\ status.state = "COMPLETE" THEN status
  ELSE [state |-> "BUILDING", done |-> next[b], manifest |-> None]

\* Mutant: the count is that of the files before this one.
StatusOneBehind(b) == [state |-> "BUILDING", done |-> next[b] - 1, manifest |-> None]

StatusBuilding(b) == [state |-> "BUILDING", done |-> next[b], manifest |-> None]

\* Mutant: the loop stops before the last file.
LastButOne(b) == next[b] >= NumFiles - 1

LastFile(b) == next[b] = NumFiles

CountFile(b) ==
  /\ pc[b] = "count"
  /\ status' = StatusBuilding(b)
  /\ next' = [next EXCEPT ![b] = IF LastFile(b) THEN 1 ELSE @ + 1]
  /\ Goto(b, IF LastFile(b) THEN "meta" ELSE "file")
  /\ UNCHANGED <<lock, args, seen, claim, payload, meta, manifest>>

\* copyfile truncates its target before it fills it.
TruncateMeta(b) ==
  LET n == next[b] IN
  /\ pc[b] = "meta"
  /\ n \in CopiedMeta
  /\ meta' = [meta EXCEPT ![n] = Torn]
  /\ Goto(b, "fill")
  /\ UNCHANGED <<lock, args, next, seen, claim, payload, manifest, status>>

WriteMeta(b) ==
  LET n == next[b] IN
  /\ \/ pc[b] = "fill"
     \/ pc[b] = "meta" /\ n \notin CopiedMeta
  /\ meta' = [meta EXCEPT ![n] = MetaContent(b, n)]
  /\ next' = [next EXCEPT ![b] = @ + 1]
  /\ Goto(b, IF n = Len(MetaNames) THEN "seal" ELSE "meta")
  /\ UNCHANGED <<lock, args, seen, claim, payload, manifest, status>>

\* The manifest lists the receipts, and the digests of the metadata read from disk.
SealOf(b) ==
  [contract |-> contract, files |-> seen[b], meta |-> [n \in SealedMeta |-> meta[n]]]

WriteManifest(b) ==
  /\ pc[b] = "seal"
  /\ manifest' = SealOf(b)
  /\ Goto(b, "complete")
  /\ UNCHANGED <<lock, args, next, seen, claim, payload, meta, status>>

Complete(b) ==
  /\ pc[b] = "complete"
  /\ status' = [state |-> "COMPLETE", done |-> NumFiles, manifest |-> manifest]
  /\ Ends(b)
  /\ UNCHANGED <<claim, payload, meta, manifest>>

Crash(b) == pc[b] # "off" /\ Refuse(b)

Init ==
  /\ lock = None
  /\ pc = [b \in Builders |-> "off"]
  /\ args = [b \in Builders |-> None]
  /\ next = [b \in Builders |-> 0]
  /\ seen = [b \in Builders |-> <<>>]
  /\ temp = FALSE /\ contract = None
  /\ data = [f \in Files |-> None]
  /\ receipt = [f \in Files |-> None]
  /\ meta = [n \in MetaFiles |-> None]
  /\ manifest = None
  /\ status = None

BuilderStep(b) ==
  \/ CheckContract(b) \/ OpenContract(b) \/ ReplaceContract(b) \/ CheckSpace(b)
  \/ ReuseFile(b) \/ RewriteFile(b) \/ WriteReceipt(b) \/ CountFile(b)
  \/ TruncateMeta(b) \/ WriteMeta(b) \/ WriteManifest(b) \/ Complete(b)

Next ==
  \E b \in Builders :
    \/ \E c \in Contracts : Start(b, c)
    \/ BuilderStep(b)
    \/ Crash(b)

Spec == Init /\ [][Next]_vars
------------------------------------------------------------------------------
(* Properties. *)

MemoryOK ==
  /\ lock \in Builders \cup {None}
  /\ pc \in [Builders -> {"off", "contract", "open", "claim", "space", "file", "receipt", "count",
                          "meta", "fill", "seal", "complete"}]
  /\ args \in [Builders -> Contracts \cup {None}]
  /\ next \in [Builders -> 0 .. (NumFiles + Len(MetaNames))]
  /\ seen \in [Builders -> Seq(Receipts)]
DirectoryOK ==
  /\ temp \in BOOLEAN
  /\ contract \in Contracts \cup {None}
  /\ data \in [Files -> Contracts \cup {None}]
  /\ receipt \in [Files -> Receipts \cup {None}]
  /\ meta \in [MetaFiles -> Metadata \cup {None, Torn}]
  /\ manifest \in Seals \cup {None}
  /\ status \in Statuses \cup {None}

\* Every variable keeps its type.
TypeOK == MemoryOK /\ DirectoryOK

\* A receipt is backed by the file it names, in every state a crash can leave: a
\* rerun never finds its own output corrupted, and no file is counted unwritten.
ReceiptBacked ==
  \A f \in Files : receipt[f] # None =>
    /\ receipt[f].path = f
    /\ receipt[f].omitted <=> f \in Omitted[receipt[f].contract]
    /\ data[f] = IF receipt[f].omitted THEN None ELSE receipt[f].contract

\* One directory, one contract: no file, receipt, metadata or manifest in it was made
\* under another contract than the one it belongs to.
OneContract ==
  /\ \A f \in Files : data[f] # None => data[f] = contract
  /\ \A f \in Files : receipt[f] # None => receipt[f].contract = contract
  /\ \A n \in MetaFiles \ CopiedMeta : meta[n] # None => meta[n].contract = contract
  /\ manifest # None => manifest.contract = contract

\* COMPLETE is true of the directory as it is, also while a rerun is at work: the
\* manifest it names is on disk, lists every file once in order with its receipt, and
\* the metadata are those the manifest lists.
CompleteIsSealed ==
  status # None /\ status.state = "COMPLETE" =>
    /\ manifest # None /\ status.manifest = manifest
    /\ manifest.files = receipt
    /\ \A n \in SealedMeta : meta[n] = manifest.meta[n]

\* Neither a builder of another contract nor a rerun after a crash changes what is
\* finished: a file with a receipt, the receipt, or the contract.
FinishedStays ==
  [][/\ \A f \in Files : receipt[f] # None =>
          receipt'[f] = receipt[f] /\ data'[f] = data[f]
     /\ contract # None => contract' = contract]_vars

\* An interrupted build can be resumed under an identical contract: a directory in which
\* only builders of one contract were at work is not refused by the next of them.
Resumable ==
  \A b \in Builders : pc[b] = "contract" /\ Contracts = {args[b]} => Recognises(b)

\* The builder implements the output directory that stagers rely on.
Output == INSTANCE SealedOutput WITH
  owner <- contract,
  built <- {f \in Files : receipt[f] # None},
  sealed <- status # None /\ status.state = "COMPLETE"

ImplementsOutput == Output!Spec
==============================================================================
