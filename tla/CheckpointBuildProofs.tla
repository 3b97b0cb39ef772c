-------------------------- MODULE CheckpointBuildProofs --------------------------
(***************************************************************************)
(* What holds of an output directory for any number of builders, contracts *)
(* and files.                                                              *)
(***************************************************************************)
EXTENDS CheckpointBuild, SequenceTheorems, TLAPS

\* The contract has been replaced: the directory belongs to this builder's contract.
Working == {"space", "file", "receipt", "count", "meta", "fill", "seal", "complete"}
\* Every file has been counted.
Closing == {"meta", "fill", "seal", "complete"}

\* What file f holds when contract c is through with it.
Backing(c, f) == IF f \in Omitted[c] THEN None ELSE c

\* A live builder holds the lock, and nobody else does.
HolderInv == \A b \in Builders : pc[b] # "off" <=> lock = b

\* Where a builder is in the list of files, and then of metadata.
Cursor(b) ==
  /\ pc[b] \in {"contract", "open", "claim", "space"} => next[b] = 1
  /\ pc[b] \in {"file", "receipt", "count"} => next[b] \in Files
  /\ pc[b] \in {"meta", "fill"} => next[b] \in MetaFiles
  /\ pc[b] = "fill" => next[b] \in CopiedMeta
  /\ pc[b] = "receipt" =>
       receipt[next[b]] = None /\ data[next[b]] = Backing(contract, next[b])

\* It has collected the receipts of the files before its cursor.
Collected(b) ==
  /\ \A i \in 1 .. Len(seen[b]) : receipt[i] # None /\ seen[b][i] = receipt[i]
  /\ pc[b] \in {"off", "contract", "open", "claim", "space"} => Len(seen[b]) = 0
  /\ pc[b] \in {"file", "receipt"} => Len(seen[b]) = next[b] - 1
  /\ pc[b] = "count" => Len(seen[b]) = next[b]
  /\ pc[b] \in Closing => Len(seen[b]) = NumFiles

\* It has written the metadata before its cursor, the status says BUILDING meanwhile,
\* and the manifest is that of this round.
Laid(b) ==
  /\ pc[b] \in {"meta", "fill"} => \A n \in 1 .. next[b] - 1 : meta[n] \in Metadata
  /\ pc[b] \in {"seal", "complete"} => \A n \in MetaFiles : meta[n] \in Metadata
  /\ pc[b] \in Closing => status # None /\ status.state = "BUILDING"
  /\ pc[b] = "complete" => manifest = SealOf(b)

Claimed(b) ==
  /\ pc[b] # "off" => args[b] \in Contracts
  /\ pc[b] \in {"open", "claim"} => contract \in {None, args[b]}
  /\ pc[b] \in Working => contract = args[b]

BuilderInv(b) == Claimed(b) /\ Cursor(b) /\ Collected(b) /\ Laid(b)

\* An unclaimed directory holds nothing but perhaps the temporary file.
Unclaimed ==
  contract = None =>
    /\ \A f \in Files : data[f] = None /\ receipt[f] = None
    /\ \A n \in MetaFiles : meta[n] = None
    /\ manifest = None /\ status = None

\* Every file, receipt and metadata file was made under the contract.
FilesInv ==
  \A f \in Files :
    /\ data[f] # None => data[f] = Backing(contract, f)
    /\ receipt[f] # None => receipt[f] = ReceiptFor(contract, f) /\ data[f] = Backing(contract, f)
MetaInv ==
  /\ \A n \in MetaFiles \ CopiedMeta :
       meta[n] # None => meta[n] \in Metadata /\ meta[n].contract = contract
  /\ manifest # None => manifest.contract = contract

DiskInv == Unclaimed /\ FilesInv /\ MetaInv /\ CompleteIsSealed

BuildInv == TypeOK /\ HolderInv /\ (\A b \in Builders : BuilderInv(b)) /\ DiskInv
------------------------------------------------------------------------------
LEMMA MetaCount == Len(MetaNames) = 6
BY DEF MetaNames

\* What makes the elements of the types.
LEMMA MadeReceipt ==
  ASSUME NEW c \in Contracts, NEW f \in Files
  PROVE  /\ ReceiptFor(c, f) \in Receipts
         /\ ReceiptFor(c, f) # None
         /\ Backing(c, f) \in Contracts \cup {None}
<1>1. ReceiptFor(c, f) \in Receipts
  BY DEF ReceiptFor, Receipts
<1> QED
  BY <1>1, NoneAssumption DEF Backing

LEMMA MadeMeta ==
  ASSUME TypeOK, NEW b \in Builders, NEW n \in MetaFiles, args[b] \in Contracts
  PROVE  MetaContent(b, n) \in Metadata /\ MetaContent(b, n) # None
<1>1. seen[b] \in Seq(Receipts) /\ <<>> \in Seq(Receipts)
  BY DEF TypeOK, MemoryOK
<1>2. MetaContent(b, n) \in Metadata
  <2>1. CASE n \in CopiedMeta
    <3>1. [contract |-> None, files |-> <<>>] \in Metadata
      BY <1>1 DEF Metadata
    <3> QED BY <2>1, <3>1 DEF MetaContent
  <2>2. CASE n \notin CopiedMeta
    <3>1. [contract |-> args[b], files |-> seen[b]] \in Metadata
      BY <1>1 DEF Metadata
    <3> QED BY <2>2, <3>1 DEF MetaContent
  <2> QED BY <2>1, <2>2
<1> QED
  BY <1>2, NoneAssumption

------------------------------------------------------------------------------
\* Whoever acts holds the lock, so the others are not there.
LEMMA OthersIdle ==
  ASSUME BuildInv, NEW b \in Builders, pc[b] # "off",
         \A c \in Builders \ {b} : pc'[c] = pc[c] /\ seen'[c] = seen[c]
  PROVE  \A c \in Builders \ {b} : pc'[c] = "off" /\ BuilderInv(c)'
<1> SUFFICES ASSUME NEW c \in Builders \ {b}
             PROVE  pc'[c] = "off" /\ BuilderInv(c)'
  OBVIOUS
<1>1. pc[c] = "off" /\ pc'[c] = "off"
  BY DEF BuildInv, HolderInv
<1>2. Len(seen'[c]) = 0
  BY <1>1 DEF BuildInv, BuilderInv, Collected
<1>3. Collected(c)'
  BY <1>1, <1>2 DEF Collected, Closing
<1> QED
  BY <1>1, <1>3 DEF BuilderInv, Claimed, Cursor, Laid, Working, Closing

\* A step that ends in another label keeps the lock where it is.
LEMMA Continues ==
  ASSUME BuildInv, NEW b \in Builders, NEW label, pc[b] # "off", label # "off",
         Goto(b, label), lock' = lock,
         \A c \in Builders \ {b} : seen'[c] = seen[c],
         TypeOK', BuilderInv(b)', DiskInv'
  PROVE  BuildInv'
<1>1. pc'[b] = label /\ \A c \in Builders \ {b} : pc'[c] = pc[c]
  BY DEF BuildInv, TypeOK, MemoryOK, Goto
<1>2. \A c \in Builders \ {b} : pc'[c] = "off" /\ BuilderInv(c)'
  BY <1>1, OthersIdle
<1>3. HolderInv'
  BY <1>1 DEF BuildInv, HolderInv
<1> QED
  BY <1>2, <1>3 DEF BuildInv

\* A builder that ends leaves no builder behind, whatever it leaves on disk.
LEMMA EndsClean ==
  ASSUME BuildInv, NEW b \in Builders, pc[b] # "off", Ends(b)
  PROVE  MemoryOK' /\ HolderInv' /\ \A c \in Builders : BuilderInv(c)'
<1>1. /\ pc'[b] = "off" /\ seen'[b] = <<>>
      /\ \A c \in Builders \ {b} : pc'[c] = pc[c] /\ seen'[c] = seen[c]
  BY DEF BuildInv, TypeOK, MemoryOK, Ends, Goto
<1>2. lock = b /\ lock' = None
  BY DEF BuildInv, HolderInv, Ends
<1>3. \A c \in Builders \ {b} : pc'[c] = "off" /\ BuilderInv(c)'
  BY <1>1, OthersIdle
<1>4. MemoryOK'
  <2>1. <<>> \in Seq(Receipts) /\ 0 \in 0 .. (NumFiles + Len(MetaNames))
    BY FilesAssumption, MetaCount
  <2> QED
    BY <1>2, <2>1 DEF BuildInv, TypeOK, MemoryOK, Ends, Goto
<1>5. HolderInv'
  BY <1>1, <1>2, <1>3, NoneAssumption DEF HolderInv
<1>6. BuilderInv(b)'
  <2>1. Collected(b)'
    BY <1>1 DEF Collected, Closing
  <2> QED
    BY <1>1, <2>1 DEF BuilderInv, Claimed, Cursor, Laid, Working, Closing
<1> QED
  BY <1>3, <1>4, <1>5, <1>6

LEMMA DiskSame ==
  ASSUME BuildInv, contract' = contract, UNCHANGED <<payload, meta, manifest, status>>
  PROVE  DiskInv'
<1>1. UNCHANGED <<data, receipt, meta, manifest, status>>
  BY DEF payload
<1> QED
  BY <1>1 DEF BuildInv, DiskInv, Unclaimed, FilesInv, MetaInv, CompleteIsSealed,
     ReceiptFor, Backing

LEMMA BuildRefuse ==
  ASSUME BuildInv, NEW b \in Builders, pc[b] # "off", Refuse(b)
  PROVE  BuildInv'
<1>1. Ends(b) /\ UNCHANGED <<temp, contract, data, receipt, meta, manifest, status>>
      /\ UNCHANGED payload
  BY DEF Refuse, claim, payload
<1>2. DirectoryOK'
  BY <1>1 DEF BuildInv, TypeOK, DirectoryOK
<1>3. DiskInv'
  BY <1>1, DiskSame
<1> QED
  BY <1>1, <1>2, <1>3, EndsClean DEF BuildInv, TypeOK
------------------------------------------------------------------------------
\* One lemma per step.
LEMMA BuildStart ==
  ASSUME BuildInv, NEW b \in Builders, NEW c \in Contracts, Start(b, c)
  PROVE  BuildInv'
<1>0. UNCHANGED <<seen, temp, contract, data, receipt, meta, manifest, status>>
      /\ UNCHANGED payload
  BY DEF Start, claim, payload
<1>1. \A d \in Builders : pc[d] = "off"
  BY NoneAssumption DEF BuildInv, HolderInv, Start
<1>2. /\ pc'[b] = "contract" /\ args'[b] = c /\ next'[b] = 1 /\ lock' = b
      /\ \A d \in Builders \ {b} : pc'[d] = "off"
  BY <1>1 DEF BuildInv, TypeOK, MemoryOK, Start, Goto
<1>3. TypeOK'
  <2>1. 1 \in 0 .. (NumFiles + Len(MetaNames))
    BY FilesAssumption, MetaCount
  <2>2. MemoryOK'
    BY <1>0, <2>1 DEF BuildInv, TypeOK, MemoryOK, Start, Goto
  <2>3. DirectoryOK'
    BY <1>0 DEF BuildInv, TypeOK, DirectoryOK
  <2> QED
    BY <2>2, <2>3 DEF TypeOK
<1>4. HolderInv'
  BY <1>2, NoneAssumption DEF HolderInv
<1>5. ASSUME NEW d \in Builders PROVE BuilderInv(d)'
  <2>1. pc'[d] \in {"off", "contract"} /\ (pc'[d] # "off" => d = b)
    BY <1>2
  <2>2. Len(seen'[d]) = 0
    BY <1>0, <1>1 DEF BuildInv, BuilderInv, Collected
  <2>3. Collected(d)'
    BY <2>1, <2>2 DEF Collected, Closing
  <2> QED
    BY <1>2, <2>1, <2>3 DEF BuilderInv, Claimed, Cursor, Laid, Working, Closing
<1>6. DiskInv'
  BY <1>0, DiskSame
<1> QED
  BY <1>3, <1>4, <1>5, <1>6 DEF BuildInv

LEMMA BuildCheckContract ==
  ASSUME BuildInv, NEW b \in Builders, CheckContract(b)
  PROVE  BuildInv'
<1>1. CASE ~Recognises(b)
  <2>1. pc[b] # "off" /\ Refuse(b)
    BY <1>1 DEF CheckContract
  <2> QED BY <2>1, BuildRefuse
<1>2. CASE Recognises(b)
  <2>1. /\ pc[b] = "contract" /\ Goto(b, "open")
        /\ UNCHANGED <<lock, args, next, seen, temp, contract, data, receipt, meta, manifest, status>>
        /\ UNCHANGED payload
    BY <1>2 DEF CheckContract, claim, payload
  <2>2. pc'[b] = "open"
    BY <2>1 DEF BuildInv, TypeOK, MemoryOK, Goto
  <2>3. TypeOK'
    <3>1. MemoryOK'
      BY <2>1 DEF BuildInv, TypeOK, MemoryOK, Goto
    <3>2. DirectoryOK'
      BY <2>1 DEF BuildInv, TypeOK, DirectoryOK
    <3> QED BY <3>1, <3>2 DEF TypeOK
  <2>4. BuilderInv(b)'
    <3>1. BuilderInv(b) /\ contract \in {None, args[b]}
      BY <1>2 DEF BuildInv, Recognises
    <3>2. Collected(b)'
      BY <2>1, <2>2, <3>1 DEF BuilderInv, Collected, Closing
    <3> QED
      BY <2>1, <2>2, <3>1, <3>2 DEF BuilderInv, Claimed, Cursor, Laid, Working, Closing
  <2>5. DiskInv'
    BY <2>1, DiskSame
  <2> QED
    BY <2>1, <2>3, <2>4, <2>5, Continues
<1> QED
  BY <1>1, <1>2

LEMMA BuildOpenContract ==
  ASSUME BuildInv, NEW b \in Builders, OpenContract(b)
  PROVE  BuildInv'
<1>1. /\ pc[b] = "open" /\ temp' = TRUE /\ Goto(b, "claim")
      /\ UNCHANGED <<lock, args, next, seen, contract, data, receipt, meta, manifest, status>>
      /\ UNCHANGED payload
  BY DEF OpenContract, payload
<1>2. pc'[b] = "claim"
  BY <1>1 DEF BuildInv, TypeOK, MemoryOK, Goto
<1>3. TypeOK'
  <2>1. MemoryOK'
    BY <1>1 DEF BuildInv, TypeOK, MemoryOK, Goto
  <2>2. DirectoryOK'
    BY <1>1 DEF BuildInv, TypeOK, DirectoryOK
  <2> QED BY <2>1, <2>2 DEF TypeOK
<1>4. BuilderInv(b)'
  <2>1. BuilderInv(b)
    BY DEF BuildInv
  <2>2. Collected(b)'
    BY <1>1, <1>2, <2>1 DEF BuilderInv, Collected, Closing
  <2> QED
    BY <1>1, <1>2, <2>1, <2>2 DEF BuilderInv, Claimed, Cursor, Laid, Working, Closing
<1>5. DiskInv'
  BY <1>1, DiskSame
<1> QED
  BY <1>1, <1>3, <1>4, <1>5, Continues

LEMMA BuildReplaceContract ==
  ASSUME BuildInv, NEW b \in Builders, ReplaceContract(b)
  PROVE  BuildInv'
<1>1. /\ pc[b] = "claim" /\ temp' = FALSE /\ contract' = args[b] /\ Goto(b, "space")
      /\ UNCHANGED <<lock, args, next, seen, data, receipt, meta, manifest, status>>
      /\ UNCHANGED payload
  BY DEF ReplaceContract, payload
<1>2. /\ pc'[b] = "space" /\ args[b] \in Contracts /\ contract' # None
      /\ contract \in {None, args[b]}
  BY <1>1, NoneAssumption DEF BuildInv, TypeOK, MemoryOK, Goto, BuilderInv, Claimed
<1>3. TypeOK'
  <2>1. MemoryOK'
    BY <1>1 DEF BuildInv, TypeOK, MemoryOK, Goto
  <2>2. DirectoryOK'
    BY <1>1, <1>2 DEF BuildInv, TypeOK, DirectoryOK
  <2> QED BY <2>1, <2>2 DEF TypeOK
<1>4. BuilderInv(b)'
  <2>1. BuilderInv(b)
    BY DEF BuildInv
  <2>2. Collected(b)'
    BY <1>1, <1>2, <2>1 DEF BuilderInv, Collected, Closing
  <2> QED
    BY <1>1, <1>2, <2>1, <2>2 DEF BuilderInv, Claimed, Cursor, Laid, Working, Closing
<1>5. DiskInv'
  <2>1. CASE contract # None
    BY <1>1, <1>2, <2>1, DiskSame
  <2>2. CASE contract = None
    <3>1. /\ \A f \in Files : data'[f] = None /\ receipt'[f] = None
          /\ \A n \in MetaFiles : meta'[n] = None
          /\ manifest' = None /\ status' = None
      BY <1>1, <2>2 DEF BuildInv, DiskInv, Unclaimed
    <3> QED
      BY <1>2, <3>1 DEF DiskInv, Unclaimed, FilesInv, MetaInv, CompleteIsSealed
  <2> QED BY <2>1, <2>2
<1> QED
  BY <1>1, <1>3, <1>4, <1>5, Continues

LEMMA BuildCheckSpace ==
  ASSUME BuildInv, NEW b \in Builders, CheckSpace(b)
  PROVE  BuildInv'
<1>1. CASE Refuse(b)
  BY <1>1, BuildRefuse DEF CheckSpace
<1>2. CASE ~Refuse(b)
  <2>1. /\ pc[b] = "space" /\ Goto(b, "file")
        /\ UNCHANGED <<lock, args, next, seen, temp, contract, data, receipt, meta, manifest, status>>
        /\ UNCHANGED payload
    BY <1>2 DEF CheckSpace, payload, claim
  <2>2. pc'[b] = "file"
    BY <2>1 DEF BuildInv, TypeOK, MemoryOK, Goto
  <2>3. TypeOK'
    <3>1. MemoryOK'
      BY <2>1 DEF BuildInv, TypeOK, MemoryOK, Goto
    <3>2. DirectoryOK'
      BY <2>1 DEF BuildInv, TypeOK, DirectoryOK
    <3> QED BY <3>1, <3>2 DEF TypeOK
  <2>4. BuilderInv(b)'
    <3>1. BuilderInv(b) /\ next[b] = 1 /\ Len(seen[b]) = 0
      BY <2>1 DEF BuildInv, BuilderInv, Cursor, Collected
    <3>2. 1 \in Files /\ 1 - 1 = 0
      BY FilesAssumption DEF Files
    <3>3. Collected(b)'
      BY <2>1, <2>2, <3>1, <3>2 DEF Collected, Closing
    <3> QED
      BY <2>1, <2>2, <3>1, <3>2, <3>3 DEF BuilderInv, Claimed, Cursor, Laid, Working, Closing
  <2>5. DiskInv'
    BY <2>1, DiskSame
  <2> QED
    BY <2>1, <2>3, <2>4, <2>5, Continues
<1> QED
  BY <1>1, <1>2
\* The collected receipts grow by that of the file at the cursor.
LEMMA Collects ==
  ASSUME BuildInv, NEW b \in Builders, pc[b] \in {"file", "receipt"}, NEW r \in Receipts,
         Goto(b, "count"), next' = next,
         seen' = [seen EXCEPT ![b] = Append(@, r)],
         receipt'[next[b]] = r,
         \A f \in Files \ {next[b]} : receipt'[f] = receipt[f]
  PROVE  /\ seen' \in [Builders -> Seq(Receipts)]
         /\ Collected(b)'
<1> DEFINE s == seen[b]
<1>1. /\ seen \in [Builders -> Seq(Receipts)] /\ s \in Seq(Receipts)
      /\ next[b] \in Files /\ Len(s) = next[b] - 1 /\ pc'[b] = "count"
      /\ \A i \in 1 .. Len(s) : receipt[i] # None /\ s[i] = receipt[i]
  BY DEF BuildInv, TypeOK, MemoryOK, BuilderInv, Cursor, Collected, Goto
<1>2. next[b] \in Nat /\ next[b] >= 1 /\ next[b] <= NumFiles /\ NumFiles \in Nat
  BY <1>1, FilesAssumption DEF Files
<1>3. /\ seen'[b] = Append(s, r)
      /\ Append(s, r) \in Seq(Receipts)
      /\ Len(Append(s, r)) = next[b]
      /\ \A i \in 1 .. Len(s) : Append(s, r)[i] = s[i]
      /\ Append(s, r)[next[b]] = r
  BY <1>1, <1>2
<1>4. seen' \in [Builders -> Seq(Receipts)]
  BY <1>1, <1>3
<1>5. ASSUME NEW i \in 1 .. next[b] PROVE receipt'[i] # None /\ seen'[b][i] = receipt'[i]
  <2>1. CASE i = next[b]
    BY <1>3, <2>1, NoneAssumption
  <2>2. CASE i # next[b]
    <3>1. i \in 1 .. Len(s) /\ i \in Files \ {next[b]}
      BY <1>1, <1>2, <2>2 DEF Files
    <3> QED BY <1>1, <1>3, <3>1
  <2> QED BY <2>1, <2>2
<1>6. Collected(b)'
  <2>1. Len(seen'[b]) = next'[b] /\ next'[b] = next[b]
    BY <1>3
  <2> QED
    BY <1>1, <1>5, <2>1 DEF Collected, Closing
<1> QED
  BY <1>4, <1>6

LEMMA BuildReuseFile ==
  ASSUME BuildInv, NEW b \in Builders, ReuseFile(b)
  PROVE  BuildInv'
<1>1. CASE ~Intact(next[b])
  <2>1. pc[b] # "off" /\ Refuse(b)
    BY <1>1 DEF ReuseFile
  <2> QED BY <2>1, BuildRefuse
<1>2. CASE Intact(next[b])
  <2>1. /\ pc[b] = "file" /\ next[b] \in Files /\ receipt[next[b]] # None /\ Goto(b, "count")
        /\ seen' = [seen EXCEPT ![b] = Append(@, receipt[next[b]])]
        /\ UNCHANGED <<lock, args, next, temp, contract, data, receipt, meta, manifest, status>>
        /\ UNCHANGED payload
    BY <1>2 DEF ReuseFile, payload, claim
  <2>2. pc'[b] = "count" /\ \A c \in Builders \ {b} : seen'[c] = seen[c]
    BY <2>1 DEF BuildInv, TypeOK, MemoryOK, Goto
  <2>3. receipt[next[b]] \in Receipts
    BY <2>1 DEF BuildInv, TypeOK, DirectoryOK
  <2>4. seen' \in [Builders -> Seq(Receipts)] /\ Collected(b)'
    BY <2>1, <2>3, Collects
  <2>5. TypeOK'
    <3>1. MemoryOK'
      BY <2>1, <2>4 DEF BuildInv, TypeOK, MemoryOK, Goto
    <3>2. DirectoryOK'
      BY <2>1 DEF BuildInv, TypeOK, DirectoryOK
    <3> QED BY <3>1, <3>2 DEF TypeOK
  <2>6. BuilderInv(b)'
    <3>1. BuilderInv(b)
      BY DEF BuildInv
    <3> QED
      BY <2>1, <2>2, <2>4, <3>1 DEF BuilderInv, Claimed, Cursor, Laid, Working, Closing
  <2>7. DiskInv'
    BY <2>1, DiskSame
  <2> QED
    BY <2>1, <2>2, <2>5, <2>6, <2>7, Continues
<1> QED
  BY <1>1, <1>2

LEMMA BuildRewriteFile ==
  ASSUME BuildInv, NEW b \in Builders, RewriteFile(b)
  PROVE  BuildInv'
<1> DEFINE f == next[b]
<1>1. /\ pc[b] = "file" /\ f \in Files /\ receipt[f] = None /\ Goto(b, "receipt")
      /\ data' = [data EXCEPT ![f] = IF f \in Omitted[args[b]] THEN @ ELSE args[b]]
      /\ UNCHANGED <<lock, args, next, seen, temp, contract, receipt, meta, manifest, status>>
  BY DEF RewriteFile, claim
<1>2. /\ pc'[b] = "receipt" /\ BuilderInv(b) /\ args[b] \in Contracts /\ contract = args[b]
      /\ contract # None
  BY <1>1, NoneAssumption
     DEF BuildInv, TypeOK, MemoryOK, Goto, BuilderInv, Claimed, Working
<1>3. data \in [Files -> Contracts \cup {None}] /\ FilesInv
  BY DEF BuildInv, TypeOK, DirectoryOK, DiskInv
<1>4. data'[f] = Backing(contract, f)
  <2>1. data[f] # None => data[f] = Backing(contract, f)
    BY <1>1, <1>3 DEF FilesInv
  <2> QED
    BY <1>1, <1>2, <1>3, <2>1 DEF Backing
<1>5. \A g \in Files \ {f} : data'[g] = data[g]
  BY <1>1, <1>3
<1>6. TypeOK'
  <2>1. MemoryOK'
    BY <1>1 DEF BuildInv, TypeOK, MemoryOK, Goto
  <2>2. data' \in [Files -> Contracts \cup {None}]
    BY <1>1, <1>2, <1>3
  <2>3. DirectoryOK'
    BY <1>1, <2>2 DEF BuildInv, TypeOK, DirectoryOK
  <2> QED BY <2>1, <2>3 DEF TypeOK
<1>7. BuilderInv(b)'
  <2>1. Cursor(b)'
    <3>1. Backing(contract, f)' = Backing(contract, f)
      BY <1>1 DEF Backing
    <3> QED
      BY <1>1, <1>2, <1>4, <3>1 DEF Cursor
  <2>2. Collected(b)'
    BY <1>1, <1>2 DEF BuilderInv, Collected, Closing
  <2> QED
    BY <1>1, <1>2, <2>1, <2>2 DEF BuilderInv, Claimed, Laid, Working, Closing
<1>8. DiskInv'
  <2>1. Unclaimed'
    BY <1>1, <1>2 DEF Unclaimed
  <2>2. FilesInv'
    <3> SUFFICES ASSUME NEW g \in Files
                 PROVE  /\ data'[g] # None => data'[g] = Backing(contract, g)
                        /\ receipt[g] # None =>
                             receipt[g] = ReceiptFor(contract, g) /\ data'[g] = Backing(contract, g)
      BY <1>1 DEF FilesInv, Backing, ReceiptFor
    <3> QED
      BY <1>1, <1>3, <1>4, <1>5 DEF FilesInv
  <2>3. MetaInv' /\ CompleteIsSealed'
    BY <1>1 DEF BuildInv, DiskInv, MetaInv, CompleteIsSealed
  <2> QED BY <2>1, <2>2, <2>3 DEF DiskInv
<1> QED
  BY <1>1, <1>6, <1>7, <1>8, Continues
LEMMA CompleteHasReceipts ==
  ASSUME BuildInv, status # None, status.state = "COMPLETE", NEW f \in Files
  PROVE  receipt[f] # None
<1>1. manifest \in Seals /\ manifest.files = receipt
  BY DEF BuildInv, TypeOK, DirectoryOK, DiskInv, CompleteIsSealed
<1>2. receipt \in Seq(Receipts) /\ receipt \in [Files -> Receipts \cup {None}]
  BY <1>1 DEF BuildInv, TypeOK, DirectoryOK, Seals
<1>3. DOMAIN receipt = 1 .. Len(receipt) /\ DOMAIN receipt = Files
  BY <1>2
<1>4. receipt[f] \in Receipts
  BY <1>2, <1>3
<1> QED
  BY <1>4, NoneAssumption

LEMMA BuildWriteReceipt ==
  ASSUME BuildInv, NEW b \in Builders, WriteReceipt(b)
  PROVE  BuildInv'
<1> DEFINE f == next[b]
<1> DEFINE r == ReceiptFor(args[b], f)
<1>1. /\ pc[b] = "receipt" /\ Goto(b, "count")
      /\ receipt' = [receipt EXCEPT ![f] = r]
      /\ seen' = [seen EXCEPT ![b] = Append(@, r)]
      /\ UNCHANGED <<lock, args, next, temp, contract, data, meta, manifest, status>>
  BY DEF WriteReceipt, claim
<1>2. /\ pc'[b] = "count" /\ BuilderInv(b) /\ args[b] \in Contracts /\ contract = args[b]
      /\ contract # None /\ f \in Files /\ receipt[f] = None /\ data[f] = Backing(contract, f)
  BY <1>1, NoneAssumption
     DEF BuildInv, TypeOK, MemoryOK, Goto, BuilderInv, Claimed, Cursor, Working
<1>3. r \in Receipts /\ r # None /\ r = ReceiptFor(contract, f)
  BY <1>2, MadeReceipt
<1> HIDE DEF r
<1>4. receipt \in [Files -> Receipts \cup {None}]
  BY DEF BuildInv, TypeOK, DirectoryOK
<1>5. receipt'[f] = r /\ \A g \in Files \ {f} : receipt'[g] = receipt[g]
  BY <1>1, <1>2, <1>4
<1>6. seen' \in [Builders -> Seq(Receipts)] /\ Collected(b)'
  BY <1>1, <1>3, <1>5, Collects
<1>7. TypeOK'
  <2>1. MemoryOK'
    BY <1>1, <1>6 DEF BuildInv, TypeOK, MemoryOK, Goto
  <2>2. receipt' \in [Files -> Receipts \cup {None}]
    BY <1>1, <1>3, <1>4
  <2>3. DirectoryOK'
    BY <1>1, <2>2 DEF BuildInv, TypeOK, DirectoryOK
  <2> QED BY <2>1, <2>3 DEF TypeOK
<1>8. BuilderInv(b)'
  BY <1>1, <1>2, <1>6 DEF BuilderInv, Claimed, Cursor, Laid, Working, Closing
<1>9. DiskInv'
  <2>1. Unclaimed'
    BY <1>1, <1>2 DEF Unclaimed
  <2>2. FilesInv'
    <3> SUFFICES ASSUME NEW g \in Files
                 PROVE  /\ data[g] # None => data[g] = Backing(contract, g)
                        /\ receipt'[g] # None =>
                             receipt'[g] = ReceiptFor(contract, g) /\ data[g] = Backing(contract, g)
      BY <1>1 DEF FilesInv, Backing, ReceiptFor
    <3>1. FilesInv
      BY DEF BuildInv, DiskInv
    <3> QED
      BY <1>2, <1>3, <1>5, <3>1 DEF FilesInv
  <2>3. MetaInv'
    BY <1>1 DEF BuildInv, DiskInv, MetaInv
  <2>4. CompleteIsSealed'
    <3>1. ~(status # None /\ status.state = "COMPLETE")
      BY <1>2, CompleteHasReceipts
    <3> QED
      BY <1>1, <3>1 DEF CompleteIsSealed
  <2> QED BY <2>1, <2>2, <2>3, <2>4 DEF DiskInv
<1>10. \A c \in Builders \ {b} : seen'[c] = seen[c]
  BY <1>1 DEF BuildInv, TypeOK, MemoryOK
<1> QED
  BY <1>1, <1>7, <1>8, <1>9, <1>10, Continues

\* The status of a build in progress is a status, and never one of a finished build.
LEMMA CountingStatus ==
  ASSUME NEW b \in Builders, next[b] \in Files
  PROVE  /\ StatusBuilding(b) \in Statuses
         /\ StatusBuilding(b) # None
         /\ StatusBuilding(b).state = "BUILDING"
<1>1. StatusBuilding(b) \in Statuses
  BY DEF StatusBuilding, Statuses
<1> QED
  BY <1>1, NoneAssumption DEF StatusBuilding

LEMMA BuildCountFile ==
  ASSUME BuildInv, NEW b \in Builders, CountFile(b)
  PROVE  BuildInv'
<1>1. /\ pc[b] = "count" /\ status' = StatusBuilding(b)
      /\ next' = [next EXCEPT ![b] = IF LastFile(b) THEN 1 ELSE @ + 1]
      /\ Goto(b, IF LastFile(b) THEN "meta" ELSE "file")
      /\ UNCHANGED <<lock, args, seen, temp, contract, data, receipt, meta, manifest>>
  BY DEF CountFile, claim, payload
<1>2. /\ BuilderInv(b) /\ args[b] \in Contracts /\ contract = args[b] /\ contract # None
      /\ next[b] \in Files /\ Len(seen[b]) = next[b]
      /\ next \in [Builders -> 0 .. (NumFiles + Len(MetaNames))]
  BY <1>1, NoneAssumption
     DEF BuildInv, TypeOK, MemoryOK, BuilderInv, Claimed, Cursor, Collected, Working
<1>3. /\ StatusBuilding(b) \in Statuses /\ StatusBuilding(b) # None
      /\ StatusBuilding(b).state = "BUILDING"
  BY <1>2, CountingStatus
<1>4. next[b] \in Nat /\ next[b] >= 1 /\ next[b] <= NumFiles /\ NumFiles \in Nat
  BY <1>2, FilesAssumption DEF Files
<1>5. TypeOK'
  <2>1. next' \in [Builders -> 0 .. (NumFiles + Len(MetaNames))]
    <3>1. next[b] + 1 \in 0 .. (NumFiles + Len(MetaNames)) /\ 1 \in 0 .. (NumFiles + Len(MetaNames))
      BY <1>4, MetaCount
    <3> QED BY <1>1, <1>2, <3>1
  <2>2. MemoryOK'
    BY <1>1, <2>1 DEF BuildInv, TypeOK, MemoryOK, Goto
  <2>3. DirectoryOK'
    BY <1>1, <1>3 DEF BuildInv, TypeOK, DirectoryOK
  <2> QED BY <2>2, <2>3 DEF TypeOK
<1>6. \A i \in 1 .. Len(seen'[b]) : receipt'[i] # None /\ seen'[b][i] = receipt'[i]
  BY <1>1, <1>2 DEF BuilderInv, Collected
<1>7. BuilderInv(b)'
  <2>1. CASE LastFile(b)
    <3>1. pc'[b] = "meta" /\ next'[b] = 1 /\ Len(seen'[b]) = NumFiles
      BY <1>1, <1>2, <2>1 DEF BuildInv, TypeOK, MemoryOK, Goto, LastFile
    <3>2. 1 \in MetaFiles /\ 1 .. 1 - 1 = {}
      BY MetaCount DEF MetaFiles
    <3> QED
      BY <1>1, <1>2, <1>3, <1>6, <3>1, <3>2
         DEF BuilderInv, Claimed, Cursor, Collected, Laid, Working, Closing
  <2>2. CASE ~LastFile(b)
    <3>1. pc'[b] = "file" /\ next'[b] = next[b] + 1
      BY <1>1, <1>2, <2>2 DEF BuildInv, TypeOK, MemoryOK, Goto
    <3>2. next[b] + 1 \in Files /\ (next[b] + 1) - 1 = next[b]
      BY <1>4, <2>2 DEF Files, LastFile
    <3> QED
      BY <1>1, <1>2, <1>6, <3>1, <3>2
         DEF BuilderInv, Claimed, Cursor, Collected, Laid, Working, Closing
  <2> QED BY <2>1, <2>2
<1>8. DiskInv'
  <2>1. Unclaimed'
    BY <1>1, <1>2 DEF Unclaimed
  <2>2. FilesInv' /\ MetaInv'
    BY <1>1 DEF BuildInv, DiskInv, FilesInv, MetaInv, Backing, ReceiptFor
  <2>3. CompleteIsSealed'
    BY <1>1, <1>3 DEF CompleteIsSealed
  <2> QED BY <2>1, <2>2, <2>3 DEF DiskInv
<1> QED
  BY <1>1, <1>5, <1>7, <1>8, Continues
LEMMA BuildTruncateMeta ==
  ASSUME BuildInv, NEW b \in Builders, TruncateMeta(b)
  PROVE  BuildInv'
<1>1. /\ pc[b] = "meta" /\ next[b] \in CopiedMeta /\ Goto(b, "fill")
      /\ meta' = [meta EXCEPT ![next[b]] = Torn]
      /\ UNCHANGED <<lock, args, next, seen, temp, contract, data, receipt, manifest, status>>
  BY DEF TruncateMeta, claim, payload
<1>2. /\ pc'[b] = "fill" /\ BuilderInv(b) /\ args[b] \in Contracts /\ contract = args[b]
      /\ contract # None /\ next[b] \in MetaFiles
      /\ status # None /\ status.state = "BUILDING"
  BY <1>1, NoneAssumption
     DEF BuildInv, TypeOK, MemoryOK, Goto, BuilderInv, Claimed, Cursor, Laid, Working, Closing
<1>3. meta \in [MetaFiles -> Metadata \cup {None, Torn}]
  BY DEF BuildInv, TypeOK, DirectoryOK
<1>4. \A n \in MetaFiles \ {next[b]} : meta'[n] = meta[n]
  BY <1>1, <1>3
<1>5. TypeOK'
  <2>1. MemoryOK'
    BY <1>1 DEF BuildInv, TypeOK, MemoryOK, Goto
  <2>2. meta' \in [MetaFiles -> Metadata \cup {None, Torn}]
    BY <1>1, <1>3
  <2>3. DirectoryOK'
    BY <1>1, <2>2 DEF BuildInv, TypeOK, DirectoryOK
  <2> QED BY <2>1, <2>3 DEF TypeOK
<1>6. BuilderInv(b)'
  <2>1. Collected(b)'
    BY <1>1, <1>2 DEF BuilderInv, Collected, Closing
  <2>2. Laid(b)'
    <3>1. \A n \in 1 .. next[b] - 1 : meta[n] \in Metadata /\ n \in MetaFiles \ {next[b]}
      BY <1>1, <1>2 DEF BuilderInv, Laid, MetaFiles, CopiedMeta
    <3>2. \A n \in 1 .. next[b] - 1 : meta'[n] \in Metadata
      BY <1>4, <3>1
    <3> QED
      BY <1>1, <1>2, <3>2 DEF Laid, Closing
  <2> QED
    BY <1>1, <1>2, <2>1, <2>2 DEF BuilderInv, Claimed, Cursor, Working
<1>7. DiskInv'
  <2>1. Unclaimed' /\ CompleteIsSealed'
    BY <1>1, <1>2 DEF Unclaimed, CompleteIsSealed
  <2>2. FilesInv'
    BY <1>1 DEF BuildInv, DiskInv, FilesInv, Backing, ReceiptFor
  <2>3. MetaInv'
    BY <1>1, <1>4 DEF BuildInv, DiskInv, MetaInv
  <2> QED BY <2>1, <2>2, <2>3 DEF DiskInv
<1> QED
  BY <1>1, <1>5, <1>6, <1>7, Continues

LEMMA BuildWriteMeta ==
  ASSUME BuildInv, NEW b \in Builders, WriteMeta(b)
  PROVE  BuildInv'
<1> DEFINE n == next[b]
<1> DEFINE m == MetaContent(b, n)
<1>1. /\ pc[b] \in {"meta", "fill"} /\ Goto(b, IF n = Len(MetaNames) THEN "seal" ELSE "meta")
      /\ meta' = [meta EXCEPT ![n] = m]
      /\ next' = [next EXCEPT ![b] = @ + 1]
      /\ UNCHANGED <<lock, args, seen, temp, contract, data, receipt, manifest, status>>
  BY DEF WriteMeta, claim, payload
<1>2. /\ BuilderInv(b) /\ args[b] \in Contracts /\ contract = args[b]
      /\ contract # None /\ n \in MetaFiles
      /\ status # None /\ status.state = "BUILDING"
      /\ next \in [Builders -> 0 .. (NumFiles + Len(MetaNames))]
      /\ meta \in [MetaFiles -> Metadata \cup {None, Torn}]
  BY <1>1, NoneAssumption
     DEF BuildInv, TypeOK, MemoryOK, DirectoryOK, BuilderInv, Claimed, Cursor, Laid, Working, Closing
<1>3. m \in Metadata /\ m # None
  BY <1>2, MadeMeta DEF BuildInv
<1>4. n \notin CopiedMeta => m.contract = contract
  BY <1>2 DEF MetaContent
<1> HIDE DEF m
<1>5. meta'[n] = m /\ \A i \in MetaFiles \ {n} : meta'[i] = meta[i]
  BY <1>1, <1>2
<1>6. n \in 1 .. 6 /\ MetaFiles = 1 .. 6 /\ NumFiles \in Nat
  BY <1>2, MetaCount, FilesAssumption DEF MetaFiles
<1>7. TypeOK'
  <2>1. next' \in [Builders -> 0 .. (NumFiles + Len(MetaNames))]
    <3>1. CASE n < NumFiles + 6
      <4>1. n + 1 \in 0 .. (NumFiles + Len(MetaNames))
        BY <1>6, <3>1, MetaCount
      <4> QED BY <1>1, <1>2, <4>1
    <3>2. NumFiles >= 1
      BY FilesAssumption
    <3> QED BY <1>6, <3>1, <3>2
  <2>2. MemoryOK'
    BY <1>1, <2>1 DEF BuildInv, TypeOK, MemoryOK, Goto
  <2>3. meta' \in [MetaFiles -> Metadata \cup {None, Torn}]
    BY <1>1, <1>2, <1>3
  <2>4. DirectoryOK'
    BY <1>1, <2>3 DEF BuildInv, TypeOK, DirectoryOK
  <2> QED BY <2>2, <2>4 DEF TypeOK
<1>8. BuilderInv(b)'
  <2>1. pc'[b] = (IF n = 6 THEN "seal" ELSE "meta") /\ next'[b] = n + 1
    BY <1>1, <1>2, MetaCount DEF BuildInv, TypeOK, MemoryOK, Goto
  <2>2. Claimed(b)' /\ Collected(b)'
    BY <1>1, <1>2, <2>1 DEF BuilderInv, Claimed, Collected, Working, Closing
  <2>3. Cursor(b)'
    <3>1. n # 6 => n + 1 \in MetaFiles
      BY <1>6
    <3> QED BY <2>1, <3>1 DEF Cursor
  <2>4. \A i \in 1 .. n : meta'[i] \in Metadata
    <3> SUFFICES ASSUME NEW i \in 1 .. n PROVE meta'[i] \in Metadata
      OBVIOUS
    <3>1. CASE i = n
      BY <1>3, <1>5, <3>1
    <3>2. CASE i # n
      <4>1. i \in 1 .. n - 1 /\ i \in MetaFiles \ {n}
        BY <1>6, <3>2
      <4>2. meta[i] \in Metadata
        BY <1>1, <1>2, <4>1 DEF BuilderInv, Laid
      <4> QED BY <1>5, <4>1, <4>2
    <3> QED BY <3>1, <3>2
  <2>5. Laid(b)'
    <3>1. CASE n = 6
      BY <1>1, <1>2, <1>6, <2>1, <2>4, <3>1 DEF Laid, Closing, MetaFiles
    <3>2. CASE n # 6
      <4>1. (n + 1) - 1 = n
        BY <1>6
      <4> QED BY <1>1, <1>2, <2>1, <2>4, <3>2, <4>1 DEF Laid, Closing
    <3> QED BY <3>1, <3>2
  <2> QED BY <2>2, <2>3, <2>5 DEF BuilderInv
<1>9. DiskInv'
  <2>1. Unclaimed' /\ CompleteIsSealed'
    BY <1>1, <1>2 DEF Unclaimed, CompleteIsSealed
  <2>2. FilesInv'
    BY <1>1 DEF BuildInv, DiskInv, FilesInv, Backing, ReceiptFor
  <2>3. MetaInv'
    BY <1>1, <1>3, <1>4, <1>5 DEF BuildInv, DiskInv, MetaInv
  <2> QED BY <2>1, <2>2, <2>3 DEF DiskInv
<1> QED
  BY <1>1, <1>7, <1>8, <1>9, Continues
LEMMA MadeSeal ==
  ASSUME BuildInv, NEW b \in Builders, pc[b] \in {"seal", "complete"}
  PROVE  SealOf(b) \in Seals
<1>1. contract \in Contracts /\ seen[b] \in Seq(Receipts)
  BY DEF BuildInv, TypeOK, MemoryOK, BuilderInv, Claimed, Working
<1>2. [n \in SealedMeta |-> meta[n]] \in [SealedMeta -> Metadata]
  <2>1. SealedMeta \subseteq MetaFiles
    BY MetaCount DEF SealedMeta, MetaFiles
  <2>2. \A n \in MetaFiles : meta[n] \in Metadata
    BY DEF BuildInv, BuilderInv, Laid
  <2> QED BY <2>1, <2>2
<1> QED
  BY <1>1, <1>2 DEF SealOf, Seals

LEMMA BuildWriteManifest ==
  ASSUME BuildInv, NEW b \in Builders, WriteManifest(b)
  PROVE  BuildInv'
<1>1. /\ pc[b] = "seal" /\ Goto(b, "complete") /\ manifest' = SealOf(b)
      /\ UNCHANGED <<lock, args, next, seen, temp, contract, data, receipt, meta, status>>
  BY DEF WriteManifest, claim, payload
<1>2. /\ pc'[b] = "complete" /\ BuilderInv(b) /\ args[b] \in Contracts /\ contract = args[b]
      /\ contract # None /\ status # None /\ status.state = "BUILDING"
  BY <1>1, NoneAssumption
     DEF BuildInv, TypeOK, MemoryOK, Goto, BuilderInv, Claimed, Laid, Working, Closing
<1>3. SealOf(b) \in Seals
  BY <1>1, MadeSeal
<1>4. TypeOK'
  <2>1. MemoryOK'
    BY <1>1 DEF BuildInv, TypeOK, MemoryOK, Goto
  <2>2. DirectoryOK'
    BY <1>1, <1>3 DEF BuildInv, TypeOK, DirectoryOK
  <2> QED BY <2>1, <2>2 DEF TypeOK
<1>5. BuilderInv(b)'
  <2>1. Collected(b)'
    BY <1>1, <1>2 DEF BuilderInv, Collected, Closing
  <2>2. Laid(b)'
    <3>1. SealOf(b)' = SealOf(b)
      BY <1>1 DEF SealOf
    <3>2. \A n \in MetaFiles : meta[n] \in Metadata
      BY <1>1, <1>2 DEF BuilderInv, Laid
    <3> QED BY <1>1, <1>2, <3>1, <3>2 DEF Laid, Closing
  <2> QED
    BY <1>1, <1>2, <2>1, <2>2 DEF BuilderInv, Claimed, Cursor, Working
<1>6. DiskInv'
  <2>1. Unclaimed' /\ CompleteIsSealed'
    BY <1>1, <1>2 DEF Unclaimed, CompleteIsSealed
  <2>2. FilesInv'
    BY <1>1 DEF BuildInv, DiskInv, FilesInv, Backing, ReceiptFor
  <2>3. MetaInv'
    BY <1>1 DEF BuildInv, DiskInv, MetaInv, SealOf
  <2> QED BY <2>1, <2>2, <2>3 DEF DiskInv
<1> QED
  BY <1>1, <1>4, <1>5, <1>6, Continues

\* At the end of a build the receipts collected are those on disk.
LEMMA AllCollected ==
  ASSUME BuildInv, NEW b \in Builders, pc[b] \in Closing
  PROVE  seen[b] = receipt /\ \A f \in Files : receipt[f] # None
<1>1. /\ seen[b] \in Seq(Receipts) /\ Len(seen[b]) = NumFiles
      /\ \A i \in 1 .. Len(seen[b]) : receipt[i] # None /\ seen[b][i] = receipt[i]
      /\ receipt \in [Files -> Receipts \cup {None}]
  BY DEF BuildInv, TypeOK, MemoryOK, DirectoryOK, BuilderInv, Collected
<1>2. /\ DOMAIN seen[b] = Files
      /\ \A f \in Files : receipt[f] # None /\ seen[b][f] = receipt[f]
  BY <1>1 DEF Files
<1>3. seen[b] = [f \in Files |-> seen[b][f]] /\ receipt = [f \in Files |-> receipt[f]]
  BY <1>1, <1>2
<1> QED
  BY <1>2, <1>3

LEMMA BuildComplete ==
  ASSUME BuildInv, NEW b \in Builders, Complete(b)
  PROVE  BuildInv'
<1> DEFINE new == [state |-> "COMPLETE", done |-> NumFiles, manifest |-> manifest]
<1>1. /\ pc[b] = "complete" /\ Ends(b) /\ status' = new
      /\ UNCHANGED <<temp, contract, data, receipt, meta, manifest>>
  BY DEF Complete, claim, payload
<1>2. /\ contract = args[b] /\ args[b] \in Contracts /\ contract # None
      /\ manifest = SealOf(b) /\ manifest \in Seals /\ manifest # None
  <2>1. SealOf(b) \in Seals
    BY <1>1, MadeSeal
  <2> QED
    BY <1>1, <2>1, NoneAssumption DEF BuildInv, BuilderInv, Claimed, Laid, Working
<1>3. manifest.files = receipt /\ \A n \in SealedMeta : manifest.meta[n] = meta[n]
  BY <1>1, <1>2, AllCollected DEF SealOf, Closing
<1>4. new \in Statuses
  BY <1>2, FilesAssumption DEF Statuses, Files
<1>5. DirectoryOK'
  BY <1>1, <1>4 DEF BuildInv, TypeOK, DirectoryOK
<1>6. DiskInv'
  <2>1. Unclaimed'
    BY <1>1, <1>2 DEF Unclaimed
  <2>2. FilesInv' /\ MetaInv'
    BY <1>1 DEF BuildInv, DiskInv, FilesInv, MetaInv, Backing, ReceiptFor
  <2>3. CompleteIsSealed'
    BY <1>1, <1>2, <1>3 DEF CompleteIsSealed
  <2> QED BY <2>1, <2>2, <2>3 DEF DiskInv
<1> QED
  BY <1>1, <1>5, <1>6, EndsClean DEF BuildInv, TypeOK

LEMMA BuildInit == Init => BuildInv
<1> SUFFICES ASSUME Init PROVE BuildInv
  OBVIOUS
<1>1. TypeOK
  <2>1. <<>> \in Seq(Receipts) /\ 0 \in 0 .. (NumFiles + Len(MetaNames))
    BY FilesAssumption, MetaCount
  <2> QED BY <2>1 DEF Init, TypeOK, MemoryOK, DirectoryOK
<1>2. HolderInv
  BY NoneAssumption DEF Init, HolderInv
<1>3. ASSUME NEW b \in Builders PROVE BuilderInv(b)
  <2>1. pc[b] = "off" /\ seen[b] = <<>> /\ Len(seen[b]) = 0
    BY DEF Init
  <2> QED
    BY <2>1 DEF BuilderInv, Claimed, Cursor, Collected, Laid, Working, Closing
<1>4. DiskInv
  BY DEF Init, DiskInv, Unclaimed, FilesInv, MetaInv, CompleteIsSealed
<1> QED
  BY <1>1, <1>2, <1>3, <1>4 DEF BuildInv

LEMMA BuildStep == BuildInv /\ [Next]_vars => BuildInv'
<1> SUFFICES ASSUME BuildInv, [Next]_vars PROVE BuildInv'
  OBVIOUS
<1>1. CASE UNCHANGED vars
  <2>1. UNCHANGED <<lock, pc, args, next, seen, temp, contract, data, receipt, meta, manifest, status>>
    BY <1>1 DEF vars, memory, claim, payload
  <2>2. TypeOK' /\ HolderInv'
    BY <2>1 DEF BuildInv, TypeOK, MemoryOK, DirectoryOK, HolderInv
  <2>3. \A b \in Builders : BuilderInv(b)'
    BY <2>1 DEF BuildInv, BuilderInv, Claimed, Cursor, Collected, Laid, Backing, SealOf
  <2>4. DiskInv'
    BY <2>1, DiskSame DEF payload
  <2> QED BY <2>2, <2>3, <2>4 DEF BuildInv
<1>2. ASSUME NEW b \in Builders, NEW c \in Contracts, Start(b, c) PROVE BuildInv'
  BY <1>2, BuildStart
<1>3. ASSUME NEW b \in Builders, BuilderStep(b) PROVE BuildInv'
  BY <1>3, BuildCheckContract, BuildOpenContract, BuildReplaceContract, BuildCheckSpace, BuildReuseFile,
     BuildRewriteFile, BuildWriteReceipt, BuildCountFile, BuildTruncateMeta, BuildWriteMeta,
     BuildWriteManifest, BuildComplete DEF BuilderStep
<1>4. ASSUME NEW b \in Builders, Crash(b) PROVE BuildInv'
  BY <1>4, BuildRefuse DEF Crash
<1> QED
  BY <1>1, <1>2, <1>3, <1>4 DEF Next

LEMMA BuildAlways == Spec => []BuildInv
BY BuildInit, BuildStep, PTL DEF Spec
------------------------------------------------------------------------------
\* Every variable of the build keeps its type, for any number of files and builders.
THEOREM BuildTypes == Spec => []TypeOK
BY BuildAlways, PTL DEF BuildInv

LEMMA InvBacked == BuildInv => ReceiptBacked
<1> SUFFICES ASSUME BuildInv, NEW f \in Files, receipt[f] # None
             PROVE  /\ receipt[f].path = f
                    /\ receipt[f].omitted <=> f \in Omitted[receipt[f].contract]
                    /\ data[f] = IF receipt[f].omitted THEN None ELSE receipt[f].contract
  BY DEF ReceiptBacked
<1>1. receipt[f] = ReceiptFor(contract, f) /\ data[f] = Backing(contract, f)
  BY DEF BuildInv, DiskInv, FilesInv
<1>2. receipt[f].path = f /\ receipt[f].contract = contract
  <2>1. ReceiptFor(contract, f).path = f /\ ReceiptFor(contract, f).contract = contract
    BY DEF ReceiptFor
  <2> QED BY <1>1, <2>1
<1>3. receipt[f].omitted = (f \in Omitted[contract])
  <2>1. ReceiptFor(contract, f).omitted = (f \in Omitted[contract])
    BY DEF ReceiptFor
  <2> QED BY <1>1, <2>1, Zenon
<1>4. receipt[f].omitted <=> f \in Omitted[receipt[f].contract]
  BY <1>2, <1>3, Zenon
<1>5. data[f] = IF receipt[f].omitted THEN None ELSE receipt[f].contract
  <2>1. CASE f \in Omitted[contract]
    BY <1>1, <1>2, <1>3, <2>1 DEF Backing
  <2>2. CASE f \notin Omitted[contract]
    BY <1>1, <1>2, <1>3, <2>2 DEF Backing
  <2> QED BY <2>1, <2>2
<1> QED
  BY <1>2, <1>4, <1>5

\* A receipt is backed by the file it names in every state a crash of rewrite_shard or of
\* build can leave.
THEOREM ReceiptsBacked == Spec => []ReceiptBacked
BY BuildAlways, InvBacked, PTL

LEMMA InvOneContract == BuildInv => OneContract
<1> SUFFICES ASSUME BuildInv PROVE OneContract
  OBVIOUS
<1>0. FilesInv
  BY DEF BuildInv, DiskInv
<1>1. \A f \in Files : data[f] # None => data[f] = contract
  BY <1>0 DEF FilesInv, Backing
<1>2. \A f \in Files : receipt[f] # None => receipt[f].contract = contract
  <2>1. \A f \in Files : ReceiptFor(contract, f).contract = contract
    BY DEF ReceiptFor
  <2> QED BY <1>0, <2>1 DEF FilesInv
<1>3. MetaInv
  BY DEF BuildInv, DiskInv
<1>4. /\ \A n \in MetaFiles \ CopiedMeta : meta[n] # None => meta[n].contract = contract
      /\ manifest # None => manifest.contract = contract
  BY <1>3 DEF MetaInv
<1> QED
  BY <1>1, <1>2, <1>4, Zenon DEF OneContract

\* Nothing in an output directory was made under another contract than the one in its
\* BUILD_CONTRACT.json.
THEOREM ContractsNeverMix == Spec => []OneContract
BY BuildAlways, InvOneContract, PTL

\* BUILD_STATUS.json says COMPLETE only of a directory that matches its manifest.
THEOREM CompleteIsTrue == Spec => []CompleteIsSealed
BY BuildAlways, PTL DEF BuildInv, DiskInv

------------------------------------------------------------------------------
\* The kinds of step: what they do to the contract, the receipts and the status.
Sealed == status # None /\ status.state = "COMPLETE"
Built == {f \in Files : receipt[f] # None}

ClaimStep == \E c \in Contracts :
  contract \in {None, c} /\ contract' = c /\ UNCHANGED <<data, receipt, status>>
RewriteStep == \E f \in Files :
  /\ receipt[f] = None
  /\ \A g \in Files \ {f} : data'[g] = data[g]
  /\ UNCHANGED <<contract, receipt, status>>
ReceiptStep == \E f \in Files :
  /\ contract # None
  /\ receipt[f] = None /\ receipt'[f] # None
  /\ \A g \in Files \ {f} : receipt'[g] = receipt[g]
  /\ UNCHANGED <<contract, data, status>>
ReopenStep == ~Sealed' /\ UNCHANGED <<contract, data, receipt>>
SealStep == Built = Files /\ Sealed' /\ UNCHANGED <<contract, data, receipt>>
QuietStep == UNCHANGED <<contract, data, receipt, status>>

LEMMA BuildKinds ==
  ASSUME BuildInv, [Next]_vars
  PROVE  ClaimStep \/ RewriteStep \/ ReceiptStep \/ ReopenStep \/ SealStep \/ QuietStep
<1>1. CASE UNCHANGED vars
  BY <1>1 DEF vars, claim, payload, QuietStep
<1>2. ASSUME NEW b \in Builders, NEW c \in Contracts, Start(b, c) PROVE QuietStep
  BY <1>2 DEF Start, claim, payload, QuietStep
<1>3. ASSUME NEW b \in Builders, Refuse(b) PROVE QuietStep
  BY <1>3 DEF Refuse, claim, payload, QuietStep
<1>4. ASSUME NEW b \in Builders, BuilderStep(b)
      PROVE  ClaimStep \/ RewriteStep \/ ReceiptStep \/ ReopenStep \/ SealStep \/ QuietStep
  <2>0. BuilderInv(b) /\ TypeOK
    BY DEF BuildInv
  <2>1. CASE CheckContract(b)
    <3>1. UNCHANGED <<claim, payload, status>> \/ Refuse(b)
      BY <2>1 DEF CheckContract
    <3> QED BY <3>1, <1>3 DEF claim, payload, QuietStep
  <2>12. CASE OpenContract(b)
    BY <2>12 DEF OpenContract, payload, QuietStep
  <2>2. CASE ReplaceContract(b)
    <3>1. /\ contract \in {None, args[b]} /\ args[b] \in Contracts
          /\ contract' = args[b] /\ UNCHANGED <<data, receipt, status>>
      BY <2>0, <2>2 DEF ReplaceContract, payload, BuilderInv, Claimed
    <3> QED BY <3>1 DEF ClaimStep
  <2>3. CASE CheckSpace(b)
    <3>1. UNCHANGED <<claim, payload, status>> \/ Refuse(b)
      BY <2>3 DEF CheckSpace
    <3> QED BY <3>1, <1>3 DEF claim, payload, QuietStep
  <2>4. CASE ReuseFile(b)
    <3>1. UNCHANGED <<claim, payload, status>> \/ Refuse(b)
      BY <2>4 DEF ReuseFile
    <3> QED BY <3>1, <1>3 DEF claim, payload, QuietStep
  <2>5. CASE RewriteFile(b)
    <3>1. /\ next[b] \in Files /\ receipt[next[b]] = None
          /\ \A g \in Files \ {next[b]} : data'[g] = data[g]
          /\ UNCHANGED <<contract, receipt, status>>
      BY <2>0, <2>5 DEF RewriteFile, claim, TypeOK, DirectoryOK
    <3> QED BY <3>1 DEF RewriteStep
  <2>6. CASE WriteReceipt(b)
    <3>1. /\ next[b] \in Files /\ receipt[next[b]] = None /\ contract # None
          /\ args[b] \in Contracts
      BY <2>0, <2>6, NoneAssumption
         DEF WriteReceipt, BuilderInv, Claimed, Cursor, Working
    <3>2. ReceiptFor(args[b], next[b]) # None
      BY <3>1, MadeReceipt
    <3>3. /\ receipt'[next[b]] # None
          /\ \A g \in Files \ {next[b]} : receipt'[g] = receipt[g]
          /\ UNCHANGED <<contract, data, status>>
      BY <2>0, <2>6, <3>1, <3>2 DEF WriteReceipt, claim, TypeOK, DirectoryOK
    <3> QED BY <3>1, <3>3 DEF ReceiptStep
  <2>7. CASE CountFile(b)
    <3>1. UNCHANGED <<contract, data, receipt>> /\ status' = StatusBuilding(b)
      BY <2>7 DEF CountFile, claim, payload
    <3>2. StatusBuilding(b).state = "BUILDING"
      BY DEF StatusBuilding
    <3> QED BY <3>1, <3>2 DEF ReopenStep, Sealed
  <2>8. CASE TruncateMeta(b)
    BY <2>8 DEF TruncateMeta, claim, payload, QuietStep
  <2>9. CASE WriteMeta(b)
    BY <2>9 DEF WriteMeta, claim, payload, QuietStep
  <2>10. CASE WriteManifest(b)
    BY <2>10 DEF WriteManifest, claim, payload, QuietStep
  <2>11. CASE Complete(b)
    <3>1. Built = Files
      BY <2>11, AllCollected DEF Complete, Closing, Built
    <3>2. UNCHANGED <<contract, data, receipt>>
      BY <2>11 DEF Complete, claim, payload
    <3>3. status'.state = "COMPLETE" /\ status' # None
      <4>1. BuildInv'
        BY BuildStep
      <4>2. status' = [state |-> "COMPLETE", done |-> NumFiles, manifest |-> manifest]
        BY <2>11 DEF Complete
      <4>3. manifest \in Seals \cup {None} /\ NumFiles \in Files
        BY <2>0, FilesAssumption DEF TypeOK, DirectoryOK, Files
      <4>4. status' \in Statuses
        BY <4>2, <4>3 DEF Statuses
      <4> QED BY <4>2, <4>4, NoneAssumption
    <3> QED BY <3>1, <3>2, <3>3 DEF SealStep, Sealed
  <2> QED
    BY <1>4, <2>1, <2>2, <2>3, <2>4, <2>5, <2>6, <2>7, <2>8, <2>9, <2>10, <2>11, <2>12
       DEF BuilderStep
<1>5. ASSUME NEW b \in Builders, Crash(b) PROVE QuietStep
  BY <1>3, <1>5 DEF Crash
<1> QED
  BY <1>1, <1>2, <1>4, <1>5 DEF Next

\* No step, of whichever builder, changes a file that has a receipt, the receipt, or the
\* contract of a directory that has one.
THEOREM FinishedIsFinal == Spec => FinishedStays
<1>1. BuildInv /\ [Next]_vars =>
        [/\ \A f \in Files : receipt[f] # None => receipt'[f] = receipt[f] /\ data'[f] = data[f]
         /\ contract # None => contract' = contract]_vars
  BY BuildKinds
     DEF ClaimStep, RewriteStep, ReceiptStep, ReopenStep, SealStep, QuietStep
<1> QED
  BY <1>1, BuildAlways, PTL DEF Spec, FinishedStays

LEMMA OutputInit == Init => Output!Init
<1> SUFFICES ASSUME Init PROVE Output!Init
  OBVIOUS
<1>1. {f \in Files : receipt[f] # None} = {}
  BY DEF Init
<1>2. ~(status # None /\ status.state = "COMPLETE") /\ contract = None
  BY DEF Init
<1> QED
  BY <1>1, <1>2 DEF Output!Init

LEMMA OutputStep ==
  ASSUME BuildInv, [Next]_vars
  PROVE  [Output!Next]_(Output!outputVars)
<1> DEFINE built == {f \in Files : receipt[f] # None}
<1> DEFINE sealed == status # None /\ status.state = "COMPLETE"
<1>1. CASE ClaimStep
  <2>1. PICK c \in Contracts : contract \in {None, c} /\ contract' = c
                               /\ UNCHANGED <<data, receipt, status>>
    BY <1>1 DEF ClaimStep
  <2>2. UNCHANGED <<built, sealed>>
    BY <2>1
  <2> QED
    BY <2>1, <2>2 DEF Output!Next, Output!Claim, Output!outputVars
<1>2. CASE RewriteStep
  <2>1. UNCHANGED <<contract, receipt, status>>
    BY <1>2 DEF RewriteStep
  <2>2. UNCHANGED <<built, sealed>>
    BY <2>1
  <2> QED BY <2>1, <2>2 DEF Output!outputVars
<1>3. CASE ReceiptStep
  <2>1. PICK f \in Files :
          /\ contract # None /\ receipt[f] = None /\ receipt'[f] # None
          /\ \A g \in Files \ {f} : receipt'[g] = receipt[g]
          /\ UNCHANGED <<contract, data, status>>
    BY <1>3 DEF ReceiptStep
  <2>2. f \notin built /\ built' = built \cup {f} /\ sealed' = sealed
    BY <2>1
  <2>3. Output!Add(f)
    BY <2>1, <2>2 DEF Output!Add
  <2> QED BY <2>3 DEF Output!Next
<1>4. CASE ReopenStep
  <2>1. UNCHANGED <<contract, receipt>> /\ sealed' = FALSE
    BY <1>4 DEF ReopenStep, Sealed
  <2>2. UNCHANGED built
    BY <2>1
  <2> QED
    BY <2>1, <2>2 DEF Output!Next, Output!Reopen, Output!outputVars
<1>5. CASE SealStep
  <2>1. UNCHANGED <<contract, receipt>> /\ sealed' = TRUE /\ built = Files
    BY <1>5 DEF SealStep, Sealed, Built
  <2>2. UNCHANGED built
    BY <2>1
  <2> QED
    BY <2>1, <2>2 DEF Output!Next, Output!Seal
<1>6. CASE QuietStep
  <2>1. UNCHANGED <<contract, receipt, status>>
    BY <1>6 DEF QuietStep
  <2>2. UNCHANGED <<built, sealed>>
    BY <2>1
  <2> QED BY <2>1, <2>2 DEF Output!outputVars
<1> QED
  BY <1>1, <1>2, <1>3, <1>4, <1>5, <1>6, BuildKinds

\* The builder implements the output directory that stagers rely on: claimed once, filled
\* file by file, sealed only when full.
THEOREM BuildImplementsOutput == Spec => ImplementsOutput
<1>1. Init => Output!Init
  BY OutputInit
<1>2. BuildInv /\ [Next]_vars => [Output!Next]_(Output!outputVars)
  BY OutputStep
<1> QED
  BY <1>1, <1>2, BuildAlways, PTL DEF Spec, ImplementsOutput, Output!Spec
==============================================================================
