--------------------------- MODULE ObserverReplayProofs ---------------------------
(***************************************************************************)
(* ObserverReplay for any number of observers, identities, layers and      *)
(* groups.  Any process may die anywhere, a worker before its observer     *)
(* too; but no worker is started beside an orphan (AttendedSpec; with Spec *)
(* none of this holds, and a run shows how).  Then at most one observer    *)
(* lives: the child that the holder of the lock waits for, or an orphan    *)
(* while nobody holds it.  It reads the slot progress.json names, which    *)
(* nobody writes before progress.json names the other one: so a crash      *)
(* anywhere leaves a whole slot, and what the observer still had in memory *)
(* is made again of it.                                                    *)
(***************************************************************************)
EXTENDS ObserverReplay, FiniteSetTheorems, SequenceTheorems, TLAPS

------------------------------------------------------------------------------
(* The invariant. *)

\* An observer that lives is alone: the child of the worker that waits, or there is no worker.
\* With a receipt none lives.
LockInv ==
  /\ \A p \in Observers :
       pc[p] # "off" => /\ worker # "sealing" /\ receipt = None /\ child \in {None, p}
                        /\ \A q \in Observers : q # p => pc[q] = "off"
  /\ worker = "waiting" <=> child # None
  /\ worker = "sealing" => manifest /\ CompleteTotals /\ receipt = None

\* The group files of a layer, up to the n-th.
UpTo(list, n, k) == \A i \in 1 .. n : list[i] = State(i, k)

\* Everything in the directory is of its one identity, and whole.
DiskInv ==
  /\ progress # None \/ manifest => identity # None
  /\ progress # None /\ receipt = None =>
       progress.slot \in dirs /\ slot[progress.slot] = Whole(progress.layer + 1)
  /\ \A k \in Routed :
       /\ observed[k] # None => identity # None /\ observed[k] = [runtime |-> identity, files |-> Whole(k)]
       /\ progress # None /\ k <= progress.layer => observed[k] # None
  /\ ReceiptExact

\* An observer past its check is of the identity on disk.
IdentityInv(p) ==
  /\ pc[p] # "off" => runtime[p] \in Runtimes
  /\ pc[p] \notin {"off", "identity", "claim"} => identity = runtime[p]
  /\ pc[p] = "claim" => identity = None

\* It holds nothing before it has found a slot.
FreshInv(p) ==
  pc[p] \in {"off", "identity", "claim", "resume", "embed"} =>
    /\ layer[p] = -1 /\ input[p] = "a" /\ names[p] = {}
    /\ pc[p] # "embed" => files[p] = <<>>

EmbedInv(p) ==
  pc[p] = "embed" =>
    /\ progress = None /\ "a" \in dirs
    /\ Len(files[p]) <= NumGroups
    /\ UpTo(files[p], Len(files[p]), 0) /\ UpTo(slot["a"], Len(files[p]), 0)

\* It reads the slot that progress.json names; until it has removed it, the one it named before.
PlaceInv(p) ==
  /\ pc[p] \in {"list", "clear", "read", "write", "progress", "manifest", "complete"} =>
       progress = [layer |-> layer[p], slot |-> input[p]]
  /\ pc[p] = "remove" =>
       progress = [layer |-> layer[p] + 1, slot |-> Output(p)] /\ input[p] \in dirs
  /\ pc[p] \in {"clear", "read", "write", "progress", "remove"} => layer[p] + 1 \in Layers /\ names[p] = Groups
  /\ pc[p] \in {"list", "clear"} => files[p] = <<>>
  /\ pc[p] \in {"manifest", "complete"} => layer[p] = NumLayers - 1
  /\ pc[p] = "complete" => manifest

\* What it has read is what it has written, one layer up; a file behind at most.
ReplayInv(p) ==
  /\ pc[p] \in {"read", "write", "progress"} =>
       /\ Output(p) \in dirs
       /\ Len(files[p]) <= NumGroups
       /\ UpTo(files[p], Len(files[p]), layer[p] + 1)
  /\ pc[p] = "read" => UpTo(slot[Output(p)], Len(files[p]), layer[p] + 2)
  /\ pc[p] = "write" => Len(files[p]) # 0 /\ UpTo(slot[Output(p)], Len(files[p]) - 1, layer[p] + 2)
  /\ pc[p] = "progress" =>
       /\ slot[Output(p)] = Whole(layer[p] + 2)
       /\ layer[p] + 1 \in Routed => observed[layer[p] + 1] # None

ObserverInv(p) ==
  IdentityInv(p) /\ FreshInv(p) /\ EmbedInv(p) /\ PlaceInv(p) /\ ReplayInv(p)

IInv == TypeOK /\ LockInv /\ DiskInv /\ \A p \in Observers : ObserverInv(p)
------------------------------------------------------------------------------
(* Slots and group files. *)

LEMMA Sizes ==
  /\ NumLayers \in Nat /\ NumLayers >= 1 /\ NumGroups \in Nat /\ NumGroups >= 1
  /\ Routed \subseteq Layers /\ Layers \subseteq Nat /\ Layers \subseteq -1 .. NumLayers - 1
  BY SizesAssumption, RoutedAssumption DEF Layers

LEMMA TwoSlots ==
  ASSUME NEW s \in Slots
  PROVE  Other(s) \in Slots /\ Other(s) # s /\ Other(Other(s)) = s
  BY DEF Other, Slots

LEMMA StateIs ==
  ASSUME NEW g \in Groups, NEW k \in -1 .. NumLayers
  PROVE  State(g, k) \in Files /\ State(g, k) # None
  BY NoneAssumption DEF State, Files

LEMMA ApplyIs ==
  ASSUME NEW g \in Groups, NEW k \in Layers
  PROVE  Apply(k, State(g, k)) = State(g, k + 1)
  BY DEF Apply, State

LEMMA WholeIs ==
  ASSUME NEW k \in -1 .. NumLayers
  PROVE  /\ Whole(k) \in Seq(Files) /\ Len(Whole(k)) = NumGroups
         /\ Whole(k) \in [Groups -> Files \cup {None}]
         /\ \A g \in Groups : Whole(k)[g] = State(g, k) /\ Whole(k)[g] # None
  <1>1. \A g \in Groups : Whole(k)[g] = State(g, k)
    BY DEF Whole
  <1>2. Whole(k) \in [1 .. NumGroups -> Files]
    BY StateIs DEF Whole, Groups
  <1>3. Whole(k) \in Seq(Files) /\ Len(Whole(k)) = NumGroups
    BY <1>2, Sizes
  <1>. QED  BY <1>1, <1>2, <1>3, StateIs DEF Groups

\* A list of files, and a slot, that is right up to the last group is whole.
LEMMA UpToWhole ==
  ASSUME NEW list \in Seq(Files), Len(list) = NumGroups, NEW k, UpTo(list, NumGroups, k)
  PROVE  list = Whole(k)
  BY Sizes DEF UpTo, Whole, Groups

LEMMA SlotWhole ==
  ASSUME NEW list \in [Groups -> Files \cup {None}], NEW k, UpTo(list, NumGroups, k)
  PROVE  list = Whole(k)
  BY DEF UpTo, Whole, Groups

\* With the names of all groups the next one is that after as many as were read.
LEMMA NextIs ==
  ASSUME NEW p \in Observers, names[p] = Groups, Len(files[p]) \in Nat
  PROVE  /\ AllRead(p) <=> Len(files[p]) = NumGroups
         /\ Len(files[p]) < NumGroups => NextName(p) = Len(files[p]) + 1
  <1>. DEFINE n == Len(files[p])
  <1>1. Cardinality(Groups) = NumGroups
    BY FS_Interval, Sizes DEF Groups
  <1>2. ASSUME NEW g \in Groups
        PROVE  Cardinality({h \in Groups : h < g}) = g - 1
    <2>1. {h \in Groups : h < g} = 1 .. g - 1 /\ g - 1 \in Nat
      BY Sizes DEF Groups
    <2>2. Cardinality(1 .. g - 1) = g - 1
      BY <2>1, FS_Interval
    <2>. QED  BY <2>1, <2>2
  <1>3. ASSUME n < NumGroups
        PROVE  NextName(p) = n + 1
    <2>1. n + 1 \in Groups /\ \A g \in Groups : Cardinality({h \in Groups : h < g}) = n <=> g = n + 1
      BY <1>2, <1>3, Sizes DEF Groups
    <2>. QED  BY <2>1 DEF NextName
  <1>. QED  BY <1>1, <1>3 DEF AllRead

------------------------------------------------------------------------------
(* What an action leaves alone. *)

Statuses == {"off", "identity", "claim", "resume", "embed", "list", "clear", "read", "write",
             "progress", "remove", "manifest", "complete"}

\* Only p's memory changes.
Only(p) == \A q \in Observers : q # p =>
  /\ pc'[q] = pc[q] /\ runtime'[q] = runtime[q] /\ layer'[q] = layer[q]
  /\ input'[q] = input[q] /\ names'[q] = names[q] /\ files'[q] = files[q]

LEMMA OthersOff ==
  ASSUME IInv, NEW p \in Observers, pc[p] # "off"
  PROVE  /\ \A q \in Observers : q # p => pc[q] = "off"
         /\ worker # "sealing" /\ child \in {None, p} /\ receipt = None
  BY DEF IInv, LockInv

LEMMA OthersKeep ==
  ASSUME IInv, NEW p \in Observers, Only(p), NEW q \in Observers, q # p, pc[q] = "off"
  PROVE  ObserverInv(q)'
  BY DEF Only, IInv, ObserverInv, IdentityInv, FreshInv, EmbedInv, PlaceInv, ReplayInv

\* A step of an observer that goes on.
LEMMA GoesOn ==
  ASSUME IInv, NEW p \in Observers, pc[p] # "off", Only(p), UNCHANGED <<lockVars, receipt>>,
         TypeOK', DiskInv', ObserverInv(p)'
  PROVE  IInv'
  <1>1. \A q \in Observers : q # p => ObserverInv(q)' /\ pc'[q] = "off"
    BY OthersOff, OthersKeep DEF Only
  <1>2. LockInv'
    BY <1>1, OthersOff DEF IInv, LockInv, lockVars
  <1>. QED  BY <1>1, <1>2 DEF IInv

\* A file is written that progress.json does not speak of.
LEMMA DiskKeeps ==
  ASSUME IInv, UNCHANGED <<progress, result>>,
         progress # None /\ receipt = None =>
           progress.slot \in dirs' /\ slot'[progress.slot] = slot[progress.slot]
  PROVE  DiskInv'
  BY DEF IInv, DiskInv, result, ReceiptExact

LEMMA DiskStays ==
  ASSUME IInv, UNCHANGED <<replay, result>>
  PROVE  DiskInv'
  BY DiskKeeps DEF IInv, DiskInv, replay

LEMMA Forgotten ==
  ASSUME IInv, NEW p \in Observers, pc[p] # "off", Forget(p)
  PROVE  MemoryOK' /\ \A q \in Observers : ObserverInv(q)' /\ pc'[q] = "off"
  <1>1. MemoryOK'
    BY Sizes DEF IInv, TypeOK, MemoryOK, Forget, Goto, Slots
  <1>2. pc'[p] = "off" /\ layer'[p] = -1 /\ input'[p] = "a" /\ names'[p] = {} /\ files'[p] = <<>>
    BY DEF IInv, TypeOK, MemoryOK, Forget, Goto
  <1>3. ObserverInv(p)'
    BY <1>2 DEF ObserverInv, IdentityInv, FreshInv, EmbedInv, PlaceInv, ReplayInv
  <1>4. Only(p)
    BY DEF IInv, TypeOK, MemoryOK, Forget, Goto, Only
  <1>. QED  BY <1>1, <1>2, <1>3, <1>4, OthersOff, OthersKeep DEF Only

\* An observer that ends badly: its worker ends with it, if there still is one.
LEMMA FailsInv ==
  ASSUME IInv, NEW p \in Observers, pc[p] # "off", Fails(p), UNCHANGED receipt, ShardOK', DiskInv'
  PROVE  IInv'
  <1>1. worker' = "off" /\ child' = None
    BY OthersOff DEF Fails, Noticed, IInv, LockInv, TypeOK, WorkerOK
  <1>2. MemoryOK' /\ \A q \in Observers : ObserverInv(q)' /\ pc'[q] = "off"
    BY Forgotten DEF Fails
  <1>3. LockInv'
    BY <1>1, <1>2 DEF LockInv
  <1>. QED  BY <1>1, <1>2, <1>3 DEF IInv, TypeOK, WorkerOK

LEMMA RefuseInv ==
  ASSUME IInv, NEW p \in Observers, pc[p] # "off", Refuse(p)
  PROVE  IInv'
  <1>1. ShardOK'
    BY DEF IInv, TypeOK, ShardOK, Refuse, replay, result
  <1>. QED  BY <1>1, FailsInv, DiskStays DEF Refuse, result
------------------------------------------------------------------------------
(* The worker. *)

LEMMA ReplayInit == Init => IInv
  <1>. SUFFICES ASSUME Init PROVE IInv
    OBVIOUS
  <1>1. TypeOK
    <2>1. WorkerOK
      BY DEF Init, WorkerOK
    <2>2. MemoryOK
      BY Sizes DEF Init, MemoryOK, Slots
    <2>3. ShardOK
      BY Sizes DEF Init, ShardOK, EmptySlot, Slots
    <2>. QED  BY <2>1, <2>2, <2>3 DEF TypeOK
  <1>2. LockInv
    BY DEF Init, LockInv
  <1>3. DiskInv
    BY DEF Init, DiskInv, ReceiptExact
  <1>4. \A p \in Observers : ObserverInv(p)
    BY DEF Init, ObserverInv, IdentityInv, FreshInv, EmbedInv, PlaceInv, ReplayInv
  <1>. QED  BY <1>1, <1>2, <1>3, <1>4 DEF IInv

LEMMA LaunchInv == ASSUME IInv, NEW p \in Observers, NEW r \in Runtimes, NoOrphan, Launch(p, r) PROVE IInv'
  <1>1. \A q \in Observers : pc[q] = "off"
    BY NoneAssumption DEF NoOrphan, Launch, LockFree, IInv, LockInv
  <1>2. pc'[p] = "identity" /\ runtime'[p] = r /\ Only(p)
    BY DEF Launch, Goto, Only, IInv, TypeOK, MemoryOK
  <1>3. TypeOK'
    BY DEF Launch, Goto, IInv, TypeOK, WorkerOK, MemoryOK, ShardOK, replay, result
  <1>4. DiskInv'
    BY DiskStays DEF Launch
  <1>5. LockInv'
    BY <1>1, <1>2, NoneAssumption DEF Launch, LockInv, Only, result
  <1>6. ObserverInv(p)
    BY DEF IInv
  <1>7. ObserverInv(p)'
    BY <1>1, <1>2, <1>6 DEF Launch, ObserverInv, IdentityInv, FreshInv, EmbedInv, PlaceInv, ReplayInv
  <1>. QED  BY <1>1, <1>2, <1>3, <1>4, <1>5, <1>7, OthersKeep DEF IInv

\* The receipt is of what the observer left: the worker waited until it had ended.
LEMMA SealReceiptInv == ASSUME IInv, SealReceipt PROVE IInv'
  <1>1. /\ \A q \in Observers : pc[q] = "off"
        /\ manifest /\ CompleteTotals /\ receipt = None /\ child = None
    BY DEF SealReceipt, IInv, LockInv
  <1>2. receipt' = [runtime |-> identity, observed |-> observed] /\ worker' = "off"
    BY <1>1 DEF SealReceipt
  <1>3. identity \in Runtimes /\ observed \in [Routed -> Statistics]
    BY <1>1 DEF CompleteTotals, IInv, DiskInv, TypeOK, ShardOK
  <1>4. UNCHANGED <<child, memory, replay, identity, observed, manifest>>
    BY DEF SealReceipt
  <1>5. TypeOK'
    BY <1>2, <1>3, <1>4 DEF IInv, TypeOK, WorkerOK, MemoryOK, ShardOK, memory, replay
  <1>6. LockInv'
    BY <1>1, <1>2, <1>4 DEF LockInv, memory
  <1>7. ReceiptExact'
    BY <1>1, <1>2, <1>4 DEF ReceiptExact, CompleteTotals, IInv, DiskInv
  <1>8. DiskInv'
    BY <1>1, <1>4, <1>7 DEF IInv, DiskInv, replay
  <1>9. ASSUME NEW p \in Observers
        PROVE  ObserverInv(p)'
    <2>1. ObserverInv(p)
      BY DEF IInv
    <2>. QED  BY <2>1, <1>1, <1>4 DEF memory, ObserverInv, IdentityInv, FreshInv, EmbedInv, PlaceInv, ReplayInv
  <1>. QED  BY <1>5, <1>6, <1>8, <1>9 DEF IInv

LEMMA CleanReplayInv == ASSUME IInv, CleanReplay PROVE IInv'
  <1>1. \A q \in Observers : pc[q] = "off"
    BY DEF CleanReplay, IInv, LockInv
  <1>2. UNCHANGED <<lockVars, memory, progress, result>> /\ receipt # None
    BY DEF CleanReplay
  <1>3. TypeOK'
    BY <1>2 DEF CleanReplay, EmptySlot, IInv, TypeOK, WorkerOK, MemoryOK, ShardOK, lockVars, memory, result
  <1>4. LockInv'
    BY <1>2 DEF IInv, LockInv, lockVars, memory, result, CompleteTotals
  <1>5. DiskInv'
    BY <1>2, DiskKeeps
  <1>6. ASSUME NEW p \in Observers
        PROVE  ObserverInv(p)'
    <2>1. ObserverInv(p)
      BY DEF IInv
    <2>. QED  BY <2>1, <1>1, <1>2 DEF memory, result, ObserverInv, IdentityInv, FreshInv, EmbedInv, PlaceInv, ReplayInv
  <1>. QED  BY <1>3, <1>4, <1>5, <1>6 DEF IInv

\* Its observer, if it lives, is alone as it was.
LEMMA WorkerDiesInv == ASSUME IInv, WorkerDies PROVE IInv'
  <1>1. worker' = "off" /\ child' = None /\ UNCHANGED <<memory, replay, result>>
    BY DEF WorkerDies
  <1>2. DiskInv'
    BY <1>1, DiskStays
  <1>3. TypeOK'
    BY <1>1 DEF IInv, TypeOK, WorkerOK, MemoryOK, ShardOK, memory, replay, result
  <1>4. LockInv'
    BY <1>1 DEF IInv, LockInv, memory, result
  <1>5. ASSUME NEW p \in Observers
        PROVE  ObserverInv(p)'
    <2>1. ObserverInv(p)
      BY DEF IInv
    <2>. QED  BY <2>1, <1>1
         DEF memory, replay, result, ObserverInv, IdentityInv, FreshInv, EmbedInv, PlaceInv, ReplayInv, UpTo, Output
  <1>. QED  BY <1>2, <1>3, <1>4, <1>5 DEF IInv

------------------------------------------------------------------------------
(* The observer, until it has found its slot. *)

LEMMA CheckIdentityInv == ASSUME IInv, NEW p \in Observers, CheckIdentity(p) PROVE IInv'
  <1>1. pc[p] = "identity" /\ ObserverInv(p) /\ runtime[p] \in Runtimes
    BY DEF CheckIdentity, IInv, ObserverInv, IdentityInv
  <1>2. CASE SameRun(p)
    <2>. DEFINE label == IF identity = None THEN "claim" ELSE "resume"
    <2>1. Goto(p, label) /\ UNCHANGED <<lockVars, runtime, layer, input, names, files, replay, result>>
      BY <1>2 DEF CheckIdentity
    <2>2. label \in {"claim", "resume"} /\ (label = "claim" <=> identity = None)
      OBVIOUS
    <2>. HIDE DEF label
    <2>3. pc'[p] = label /\ Only(p)
      BY <2>1 DEF Goto, Only, IInv, TypeOK, MemoryOK
    <2>4. TypeOK'
      BY <2>1, <2>2 DEF Goto, IInv, TypeOK, WorkerOK, MemoryOK, ShardOK, lockVars, replay, result
    <2>5. label = "resume" => identity = runtime[p]
      BY <1>2, <2>2 DEF SameRun
    <2>6. ObserverInv(p)'
      BY <1>1, <2>1, <2>2, <2>3, <2>5
      DEF result, ObserverInv, IdentityInv, FreshInv, EmbedInv, PlaceInv, ReplayInv
    <2>. QED  BY <1>1, <2>1, <2>3, <2>4, <2>6, GoesOn, DiskStays DEF result
  <1>3. CASE ~SameRun(p)
    BY <1>1, <1>3, RefuseInv DEF CheckIdentity
  <1>. QED  BY <1>2, <1>3

LEMMA WriteIdentityInv == ASSUME IInv, NEW p \in Observers, WriteIdentity(p) PROVE IInv'
  <1>1. pc[p] = "claim" /\ ObserverInv(p) /\ runtime[p] \in Runtimes /\ identity = None
    BY DEF WriteIdentity, IInv, ObserverInv, IdentityInv
  <1>2. /\ Goto(p, "resume") /\ identity' = runtime[p]
        /\ UNCHANGED <<lockVars, runtime, layer, input, names, files, replay, observed, manifest, receipt>>
    BY DEF WriteIdentity
  <1>3. pc'[p] = "resume" /\ Only(p)
    BY <1>2 DEF Goto, Only, IInv, TypeOK, MemoryOK
  <1>4. TypeOK'
    BY <1>1, <1>2 DEF Goto, IInv, TypeOK, WorkerOK, MemoryOK, ShardOK, lockVars, replay
  <1>5. DiskInv'
    BY <1>1, <1>2 DEF IInv, DiskInv, replay, ReceiptExact
  <1>6. ObserverInv(p)'
    BY <1>1, <1>2, <1>3 DEF ObserverInv, IdentityInv, FreshInv, EmbedInv, PlaceInv, ReplayInv
  <1>. QED  BY <1>1, <1>2, <1>3, <1>4, <1>5, <1>6, GoesOn

LEMMA ResumeInv == ASSUME IInv, NEW p \in Observers, Resume(p) PROVE IInv'
  <1>1. pc[p] = "resume" /\ ObserverInv(p) /\ progress # None
    BY DEF Resume, IInv
  <1>2. progress \in Progress
    BY <1>1 DEF IInv, TypeOK, ShardOK
  <1>3. CASE progress.slot \in dirs
    <2>1. /\ layer' = [layer EXCEPT ![p] = progress.layer] /\ input' = [input EXCEPT ![p] = progress.slot]
          /\ Goto(p, "list") /\ UNCHANGED <<lockVars, runtime, names, files, replay, result>>
      BY <1>3 DEF Resume, ResumeLayer
    <2>2. /\ pc'[p] = "list" /\ layer'[p] = progress.layer /\ input'[p] = progress.slot
          /\ names'[p] = names[p] /\ files'[p] = files[p] /\ runtime'[p] = runtime[p] /\ Only(p)
      BY <2>1 DEF Goto, Only, IInv, TypeOK, MemoryOK
    <2>3. TypeOK'
      BY <1>2, <2>1 DEF Progress, Goto, IInv, TypeOK, WorkerOK, MemoryOK, ShardOK, lockVars, replay, result
    <2>4. progress' = [layer |-> layer'[p], slot |-> input'[p]]
      BY <1>2, <2>1, <2>2 DEF Progress, replay
    <2>5. ObserverInv(p)'
      BY <1>1, <2>1, <2>2, <2>4
      DEF replay, result, ObserverInv, IdentityInv, FreshInv, EmbedInv, PlaceInv, ReplayInv
    <2>. QED  BY <1>1, <2>1, <2>2, <2>3, <2>5, GoesOn, DiskStays DEF result
  <1>4. CASE progress.slot \notin dirs
    BY <1>1, <1>4, RefuseInv DEF Resume
  <1>. QED  BY <1>3, <1>4

LEMMA BeginEmbedInv == ASSUME IInv, NEW p \in Observers, BeginEmbed(p) PROVE IInv'
  <1>1. pc[p] = "resume" /\ ObserverInv(p) /\ progress = None
    BY DEF BeginEmbed, IInv
  <1>2. /\ dirs' = dirs \cup {"a"} /\ Goto(p, "embed")
        /\ UNCHANGED <<lockVars, runtime, layer, input, names, files, slot, progress, result>>
    BY DEF BeginEmbed
  <1>3. pc'[p] = "embed" /\ Only(p)
    BY <1>2 DEF Goto, Only, IInv, TypeOK, MemoryOK
  <1>4. TypeOK'
    BY <1>2 DEF Goto, IInv, TypeOK, WorkerOK, MemoryOK, ShardOK, lockVars, result, Slots
  <1>5. DiskInv'
    BY <1>1, <1>2, DiskKeeps
  <1>6. files[p] = <<>>
    BY <1>1 DEF ObserverInv, FreshInv
  <1>7. ObserverInv(p)'
    BY <1>1, <1>2, <1>3, <1>6, Sizes
    DEF result, ObserverInv, IdentityInv, FreshInv, EmbedInv, PlaceInv, ReplayInv, UpTo
  <1>. QED  BY <1>1, <1>2, <1>3, <1>4, <1>5, <1>7, GoesOn DEF result

LEMMA EmbedsInv == ASSUME IInv, NEW p \in Observers, Embed(p) PROVE IInv'
  <1>. DEFINE n == Len(files[p])  g == n + 1
  <1>1. pc[p] = "embed" /\ ObserverInv(p) /\ progress = None /\ g \in Groups /\ files[p] \in Seq(Files) /\ n \in Nat
    BY DEF Embed, IInv, ObserverInv, EmbedInv, TypeOK, MemoryOK
  <1>2. /\ files' = [files EXCEPT ![p] = Append(files[p], State(g, 0))]
        /\ slot' = [slot EXCEPT !["a"][g] = State(g, 0)]
        /\ dirs' = dirs \cup {"a"}
        /\ UNCHANGED <<lockVars, pc, runtime, layer, input, names, progress, result>>
    BY DEF Embed
  <1>3. State(g, 0) \in Files
    BY <1>1, StateIs, Sizes
  <1>4. files'[p] = Append(files[p], State(g, 0)) /\ Only(p)
    BY <1>2 DEF Only, IInv, TypeOK, MemoryOK
  <1>5. TypeOK'
    <2>1. Append(files[p], State(g, 0)) \in Seq(Files)
      BY <1>1, <1>3
    <2>2. files' \in [Observers -> Seq(Files)]
      BY <1>2, <2>1 DEF IInv, TypeOK, MemoryOK
    <2>3. slot' \in [Slots -> [Groups -> Files \cup {None}]] /\ dirs' \in SUBSET Slots
      BY <1>1, <1>2, <1>3 DEF IInv, TypeOK, ShardOK, Slots
    <2>. QED  BY <1>2, <2>2, <2>3 DEF IInv, TypeOK, WorkerOK, MemoryOK, ShardOK, lockVars, result
  <1>6. DiskInv'
    BY <1>1, <1>2, DiskKeeps
  <1>. HIDE DEF n, g
  <1>7. /\ slot'["a"][g] = State(g, 0)
        /\ \A i \in Groups : i # g => slot'["a"][i] = slot["a"][i]
    BY <1>1, <1>2 DEF IInv, TypeOK, ShardOK, Slots
  <1>8. /\ Len(files'[p]) = g /\ files'[p][g] = State(g, 0)
        /\ \A i \in 1 .. n : files'[p][i] = files[p][i]
    BY <1>1, <1>3, <1>4 DEF n, g
  <1>9. g = n + 1 /\ g <= NumGroups /\ \A i \in 1 .. g : i \in Groups /\ (i = g \/ i \in 1 .. n)
    BY <1>1, Sizes DEF g, Groups
  <1>10. UpTo(files'[p], g, 0) /\ UpTo(slot'["a"], g, 0)
    <2>1. UpTo(files[p], n, 0) /\ UpTo(slot["a"], n, 0)
      BY <1>1 DEF n, ObserverInv, EmbedInv
    <2>2. \A i \in 1 .. n : i # g
      BY <1>1, <1>9
    <2>. QED  BY <1>7, <1>8, <1>9, <2>1, <2>2 DEF UpTo
  <1>11. ObserverInv(p)'
    BY <1>1, <1>2, <1>8, <1>9, <1>10
    DEF result, ObserverInv, IdentityInv, FreshInv, EmbedInv, PlaceInv, ReplayInv
  <1>. QED  BY <1>1, <1>2, <1>4, <1>5, <1>6, <1>11, GoesOn DEF result

LEMMA EndEmbedInv == ASSUME IInv, NEW p \in Observers, EndEmbed(p) PROVE IInv'
  <1>1. pc[p] = "embed" /\ ObserverInv(p) /\ Len(files[p]) = NumGroups
    BY DEF EndEmbed, IInv
  <1>2. /\ progress' = [layer |-> -1, slot |-> "a"] /\ files' = [files EXCEPT ![p] = <<>>] /\ Goto(p, "list")
        /\ UNCHANGED <<lockVars, runtime, layer, input, names, slot, dirs, result>>
    BY DEF EndEmbed
  <1>3. pc'[p] = "list" /\ files'[p] = <<>> /\ Only(p)
    BY <1>2 DEF Goto, Only, IInv, TypeOK, MemoryOK
  <1>4. TypeOK'
    BY <1>2, Sizes DEF Progress, Goto, IInv, TypeOK, WorkerOK, MemoryOK, ShardOK, lockVars, result, Slots
  <1>5. slot["a"] = Whole(0) /\ "a" \in dirs
    BY <1>1, SlotWhole DEF ObserverInv, EmbedInv, IInv, TypeOK, ShardOK, Slots
  <1>6. identity # None
    BY <1>1, NoneAssumption DEF ObserverInv, IdentityInv
  <1>7. \A k \in Routed : ~(k <= -1)
    BY Sizes
  <1>8. DiskInv'
    BY <1>2, <1>5, <1>6, <1>7 DEF IInv, DiskInv, result, ReceiptExact
  <1>9. ObserverInv(p)'
    BY <1>1, <1>2, <1>3 DEF result, ObserverInv, IdentityInv, FreshInv, EmbedInv, PlaceInv, ReplayInv
  <1>. QED  BY <1>1, <1>2, <1>3, <1>4, <1>8, <1>9, GoesOn DEF result

LEMMA ListFilesInv == ASSUME IInv, NEW p \in Observers, ListFiles(p) PROVE IInv'
  <1>1. pc[p] = "list" /\ ObserverInv(p) /\ receipt = None
    BY OthersOff DEF ListFiles, IInv
  <1>2. /\ progress = [layer |-> layer[p], slot |-> input[p]] /\ files[p] = <<>>
        /\ layer[p] \in -1 .. NumLayers - 1 /\ input[p] \in Slots
    BY <1>1 DEF ObserverInv, PlaceInv, IInv, TypeOK, MemoryOK
  <1>3. progress # None
    BY <1>2, NoneAssumption DEF Progress
  <1>4. slot[input[p]] = Whole(layer[p] + 1) /\ layer[p] + 1 \in -1 .. NumLayers
    BY <1>1, <1>2, <1>3, Sizes DEF IInv, DiskInv
  <1>5. Present(input[p]) = Groups /\ Groups # {}
    <2>1. \A g \in Groups : slot[input[p]][g] # None
      BY <1>4, WholeIs
    <2>2. 1 \in Groups
      BY Sizes DEF Groups
    <2>. QED  BY <2>1, <2>2 DEF Present
  <1>. DEFINE label == AfterLayer(layer[p])
  <1>6. /\ names' = [names EXCEPT ![p] = Groups] /\ Goto(p, label)
        /\ UNCHANGED <<lockVars, runtime, layer, input, files, replay, result>>
    BY <1>5 DEF ListFiles
  <1>7. /\ label \in {"manifest", "clear"}
        /\ label = "manifest" => layer[p] = NumLayers - 1
        /\ label = "clear" => layer[p] + 1 \in Layers
    BY <1>2, Sizes DEF AfterLayer, Layers
  <1>. HIDE DEF label
  <1>8. pc'[p] = label /\ names'[p] = Groups /\ Only(p)
    BY <1>6 DEF Goto, Only, IInv, TypeOK, MemoryOK
  <1>9. TypeOK'
    BY <1>6, <1>7 DEF Goto, IInv, TypeOK, WorkerOK, MemoryOK, ShardOK, lockVars, replay, result
  <1>10. ObserverInv(p)'
    BY <1>1, <1>2, <1>6, <1>7, <1>8
    DEF replay, result, ObserverInv, IdentityInv, FreshInv, EmbedInv, PlaceInv, ReplayInv
  <1>. QED  BY <1>1, <1>6, <1>8, <1>9, <1>10, GoesOn, DiskStays DEF result
------------------------------------------------------------------------------
(* The observer, one layer. *)

\* Where an observer replays a layer, and what it has read so far.
LEMMA Replays ==
  ASSUME IInv, NEW p \in Observers, pc[p] \in {"clear", "read", "write", "progress", "remove"}
  PROVE  /\ pc[p] # "off" /\ receipt = None /\ identity = runtime[p] /\ identity \in Runtimes
         /\ layer[p] \in -1 .. NumLayers - 1 /\ layer[p] + 1 \in Layers /\ layer[p] + 2 \in -1 .. NumLayers
         /\ names[p] = Groups /\ files[p] \in Seq(Files) /\ Len(files[p]) \in Nat
         /\ input[p] \in Slots /\ Output(p) \in Slots /\ Output(p) # input[p]
         /\ progress # None
         /\ pc[p] # "remove" => progress = [layer |-> layer[p], slot |-> input[p]]
         /\ pc[p] = "remove" => progress = [layer |-> layer[p] + 1, slot |-> Output(p)]
         /\ pc[p] # "remove" => slot[input[p]] = Whole(layer[p] + 1) /\ input[p] \in dirs
         /\ pc[p] = "remove" => slot[Output(p)] = Whole(layer[p] + 2) /\ {Output(p), input[p]} \subseteq dirs
  <1>1. pc[p] # "off" /\ receipt = None /\ ObserverInv(p)
    BY OthersOff DEF IInv
  <1>2. identity = runtime[p] /\ identity \in Runtimes
    BY <1>1 DEF ObserverInv, IdentityInv
  <1>3. layer[p] \in -1 .. NumLayers - 1 /\ layer[p] + 1 \in Layers /\ names[p] = Groups
    BY <1>1 DEF ObserverInv, PlaceInv, IInv, TypeOK, MemoryOK
  <1>4. files[p] \in Seq(Files) /\ Len(files[p]) \in Nat /\ input[p] \in Slots
    BY DEF IInv, TypeOK, MemoryOK
  <1>5. Output(p) \in Slots /\ Output(p) # input[p]
    BY <1>4, TwoSlots DEF Output
  <1>6. layer[p] + 1 \in -1 .. NumLayers - 1 /\ layer[p] + 2 \in -1 .. NumLayers /\ layer[p] + 1 + 1 = layer[p] + 2
    BY <1>3, Sizes DEF Layers
  <1>7. CASE pc[p] # "remove"
    <2>1. progress = [layer |-> layer[p], slot |-> input[p]]
      BY <1>1, <1>7 DEF ObserverInv, PlaceInv
    <2>2. progress # None
      BY <2>1, <1>3, <1>4, NoneAssumption DEF Progress
    <2>. QED  BY <1>1, <1>2, <1>3, <1>4, <1>5, <1>6, <1>7, <2>1, <2>2 DEF IInv, DiskInv
  <1>8. CASE pc[p] = "remove"
    <2>1. progress = [layer |-> layer[p] + 1, slot |-> Output(p)] /\ input[p] \in dirs
      BY <1>1, <1>8 DEF ObserverInv, PlaceInv
    <2>2. progress # None
      BY <2>1, <1>5, <1>6, NoneAssumption DEF Progress
    <2>. QED  BY <1>1, <1>2, <1>3, <1>4, <1>5, <1>6, <1>8, <2>1, <2>2 DEF IInv, DiskInv
  <1>. QED  BY <1>7, <1>8

LEMMA ClearOutputInv == ASSUME IInv, NEW p \in Observers, ClearOutput(p) PROVE IInv'
  <1>1. pc[p] = "clear" /\ ObserverInv(p)
    BY DEF ClearOutput, IInv
  <1>2. /\ slot' = [slot EXCEPT ![Output(p)] = EmptySlot] /\ dirs' = dirs \cup {Output(p)} /\ Goto(p, "read")
        /\ UNCHANGED <<lockVars, runtime, layer, input, names, files, progress, result>>
    BY DEF ClearOutput
  <1>3. pc'[p] = "read" /\ Only(p)
    BY <1>2 DEF Goto, Only, IInv, TypeOK, MemoryOK
  <1>4. slot' \in [Slots -> [Groups -> Files \cup {None}]] /\ slot'[input[p]] = slot[input[p]]
    BY <1>1, <1>2, Replays DEF EmptySlot, IInv, TypeOK, ShardOK
  <1>5. TypeOK'
    BY <1>1, <1>2, <1>4, Replays DEF Goto, IInv, TypeOK, WorkerOK, MemoryOK, ShardOK, lockVars, result
  <1>6. DiskInv'
    BY <1>1, <1>2, <1>4, Replays, DiskKeeps
  <1>7. files[p] = <<>> /\ Len(files[p]) = 0 /\ Output(p)' = Output(p)
    BY <1>1, <1>2 DEF ObserverInv, PlaceInv, Output
  <1>8. ReplayInv(p)'
    BY <1>2, <1>3, <1>7, Sizes DEF ReplayInv, UpTo
  <1>9. PlaceInv(p)'
    BY <1>1, <1>2, <1>3 DEF ObserverInv, PlaceInv
  <1>10. ObserverInv(p)'
    BY <1>1, <1>2, <1>3, <1>8, <1>9 DEF result, ObserverInv, IdentityInv, FreshInv, EmbedInv
  <1>. QED  BY <1>1, <1>2, <1>3, <1>5, <1>6, <1>10, GoesOn DEF result

LEMMA ReadGroupInv == ASSUME IInv, NEW p \in Observers, ReadGroup(p) PROVE IInv'
  <1>. DEFINE n == Len(files[p])  k == layer[p] + 1
  <1>1. pc[p] = "read" /\ ObserverInv(p) /\ ~AllRead(p)
    BY DEF ReadGroup, IInv
  <1>2. n <= NumGroups /\ UpTo(files[p], n, k) /\ UpTo(slot[Output(p)], n, layer[p] + 2) /\ Output(p) \in dirs
    BY <1>1 DEF ObserverInv, ReplayInv
  <1>3. n \in Nat /\ n + 1 \in Groups /\ NextName(p) = n + 1
    BY <1>1, <1>2, Replays, NextIs, Sizes DEF Groups
  <1>4. slot[input[p]][n + 1] = State(n + 1, k) /\ State(n + 1, k) # None /\ State(n + 1, k) \in Files
    <2>1. k \in -1 .. NumLayers /\ slot[input[p]] = Whole(k)
      BY <1>1, Replays, Sizes
    <2>. QED  BY <1>3, <2>1, WholeIs, StateIs
  <1>5. /\ files' = [files EXCEPT ![p] = Append(files[p], State(n + 1, k))] /\ Goto(p, "write")
        /\ UNCHANGED <<lockVars, runtime, layer, input, names, replay, result>>
    BY <1>1, <1>3, <1>4 DEF ReadGroup
  <1>6. /\ pc'[p] = "write" /\ files'[p] = Append(files[p], State(n + 1, k)) /\ Only(p)
        /\ Output(p)' = Output(p)
    BY <1>5 DEF Goto, Only, Output, IInv, TypeOK, MemoryOK
  <1>7. files[p] \in Seq(Files)
    BY <1>1, Replays
  <1>8. TypeOK'
    <2>1. Append(files[p], State(n + 1, k)) \in Seq(Files)
      BY <1>4, <1>7
    <2>2. files' \in [Observers -> Seq(Files)]
      BY <1>5, <2>1 DEF IInv, TypeOK, MemoryOK
    <2>. QED  BY <1>5, <2>2 DEF Goto, IInv, TypeOK, WorkerOK, MemoryOK, ShardOK, lockVars, replay, result
  <1>. HIDE DEF n, k
  <1>9. Len(files'[p]) = n + 1 /\ files'[p][n + 1] = State(n + 1, k) /\ \A i \in 1 .. n : files'[p][i] = files[p][i]
    BY <1>4, <1>6, <1>7 DEF n
  <1>10. UpTo(files'[p], n + 1, k)
    BY <1>2, <1>3, <1>9 DEF UpTo
  <1>11. ReplayInv(p)'
    <2>1. n + 1 <= NumGroups /\ n + 1 # 0 /\ n + 1 - 1 = n
      BY <1>3, Sizes DEF Groups
    <2>2. layer'[p] + 1 = k /\ layer'[p] = layer[p] /\ slot' = slot /\ dirs' = dirs
      BY <1>5 DEF k, replay
    <2>. QED  BY <1>2, <1>3, <1>6, <1>9, <1>10, <2>1, <2>2 DEF ReplayInv
  <1>12. PlaceInv(p)'
    BY <1>1, <1>5, <1>6 DEF ObserverInv, PlaceInv, replay
  <1>13. ObserverInv(p)'
    BY <1>1, <1>5, <1>6, <1>11, <1>12 DEF result, ObserverInv, IdentityInv, FreshInv, EmbedInv
  <1>. QED  BY <1>1, <1>5, <1>6, <1>8, <1>13, GoesOn, DiskStays DEF result

LEMMA WriteGroupInv == ASSUME IInv, NEW p \in Observers, WriteGroup(p) PROVE IInv'
  <1>. DEFINE n == Len(files[p])  k == layer[p] + 1  file == State(n, k + 1)
  <1>1. pc[p] = "write" /\ ObserverInv(p)
    BY DEF WriteGroup, IInv
  <1>2. /\ n <= NumGroups /\ n # 0 /\ UpTo(files[p], n, k)
        /\ UpTo(slot[Output(p)], n - 1, layer[p] + 2) /\ Output(p) \in dirs
    BY <1>1 DEF ObserverInv, ReplayInv
  <1>3. n \in Groups /\ n \in Nat /\ files[p][n] = State(n, k) /\ k \in Layers
    BY <1>1, <1>2, Replays, Sizes DEF Groups, UpTo
  <1>4. Apply(k, files[p][n]) = file /\ k + 1 = layer[p] + 2 /\ file \in Files
    BY <1>1, <1>3, ApplyIs, StateIs, Replays
  <1>5. /\ slot' = [slot EXCEPT ![Output(p)][n] = file] /\ dirs' = dirs \cup {Output(p)} /\ Goto(p, "read")
        /\ UNCHANGED <<lockVars, runtime, layer, input, names, files, progress, result>>
    BY <1>4 DEF WriteGroup
  <1>6. pc'[p] = "read" /\ Only(p) /\ Output(p)' = Output(p)
    BY <1>5 DEF Goto, Only, Output, IInv, TypeOK, MemoryOK
  <1>. HIDE DEF file, n
  <1>7. /\ slot' \in [Slots -> [Groups -> Files \cup {None}]]
        /\ slot'[input[p]] = slot[input[p]]
        /\ slot'[Output(p)][n] = file /\ \A i \in Groups : i # n => slot'[Output(p)][i] = slot[Output(p)][i]
    BY <1>1, <1>3, <1>4, <1>5, Replays DEF IInv, TypeOK, ShardOK
  <1>8. TypeOK'
    BY <1>1, <1>5, <1>7, Replays DEF Goto, IInv, TypeOK, WorkerOK, MemoryOK, ShardOK, lockVars, result
  <1>9. DiskInv'
    BY <1>1, <1>5, <1>7, Replays, DiskKeeps
  <1>10. UpTo(slot'[Output(p)], n, layer[p] + 2)
    <2>1. \A i \in 1 .. n : i \in Groups /\ (i = n \/ i \in 1 .. n - 1)
      BY <1>2, <1>3, Sizes DEF Groups
    <2>. QED  BY <1>2, <1>4, <1>7, <2>1 DEF UpTo, file
  <1>11. ReplayInv(p)'
    BY <1>2, <1>5, <1>6, <1>10 DEF ReplayInv, n
  <1>12. PlaceInv(p)'
    BY <1>1, <1>5, <1>6 DEF ObserverInv, PlaceInv
  <1>13. ObserverInv(p)'
    BY <1>1, <1>5, <1>6, <1>11, <1>12 DEF result, ObserverInv, IdentityInv, FreshInv, EmbedInv
  <1>. QED  BY <1>1, <1>5, <1>6, <1>8, <1>9, <1>13, GoesOn DEF result

LEMMA WriteObservedInv == ASSUME IInv, NEW p \in Observers, WriteObserved(p) PROVE IInv'
  <1>. DEFINE n == Len(files[p])  k == layer[p] + 1  new == [runtime |-> runtime[p], files |-> files[p]]
  <1>1. pc[p] = "read" /\ ObserverInv(p) /\ AllRead(p)
    BY DEF WriteObserved, IInv
  <1>2. n = NumGroups
    BY <1>1, Replays, NextIs
  <1>3. UpTo(files[p], n, k) /\ UpTo(slot[Output(p)], n, layer[p] + 2) /\ Output(p) \in dirs
    BY <1>1 DEF ObserverInv, ReplayInv
  <1>4. files[p] = Whole(k) /\ slot[Output(p)] = Whole(layer[p] + 2)
    <2>1. slot[Output(p)] \in [Groups -> Files \cup {None}]
      BY <1>1, Replays DEF IInv, TypeOK, ShardOK
    <2>. QED  BY <1>1, <1>2, <1>3, <2>1, Replays, UpToWhole, SlotWhole
  <1>5. /\ observed' = IF k \in Routed THEN [observed EXCEPT ![k] = new] ELSE observed
        /\ Goto(p, "progress")
        /\ UNCHANGED <<lockVars, runtime, layer, input, names, files, replay, identity, manifest, receipt>>
    BY DEF WriteObserved
  <1>6. new \in Statistics /\ new # None /\ new = [runtime |-> identity, files |-> Whole(k)]
    BY <1>1, <1>4, Replays, NoneAssumption DEF Statistics
  <1>. HIDE DEF new
  <1>7. /\ observed' \in [Routed -> Statistics \cup {None}]
        /\ k \in Routed => observed'[k] = new
        /\ \A j \in Routed : j # k => observed'[j] = observed[j]
    BY <1>5, <1>6 DEF IInv, TypeOK, ShardOK
  <1>8. pc'[p] = "progress" /\ Only(p) /\ Output(p)' = Output(p)
    BY <1>5 DEF Goto, Only, Output, IInv, TypeOK, MemoryOK
  <1>9. TypeOK'
    BY <1>5, <1>7 DEF Goto, IInv, TypeOK, WorkerOK, MemoryOK, ShardOK, lockVars, replay
  <1>10. DiskInv'
    <2>1. identity # None
      BY <1>1, Replays, NoneAssumption
    <2>2. \A j \in Routed :
            /\ observed'[j] # None => observed'[j] = [runtime |-> identity, files |-> Whole(j)]
            /\ progress # None /\ j <= progress.layer => observed'[j] # None
      BY <1>6, <1>7 DEF IInv, DiskInv
    <2>. QED  BY <1>5, <2>1, <2>2 DEF IInv, DiskInv, replay, ReceiptExact
  <1>11. ReplayInv(p)'
    <2>1. UNCHANGED <<slot, dirs, layer, files>>
      BY <1>5 DEF replay
    <2>2. layer[p] + 1 \in Routed => observed'[layer[p] + 1] # None
      BY <1>6, <1>7
    <2>. QED  BY <1>2, <1>3, <1>4, <1>8, <2>1, <2>2, Sizes DEF ReplayInv
  <1>12. PlaceInv(p)'
    BY <1>1, <1>5, <1>8 DEF ObserverInv, PlaceInv, replay
  <1>13. ObserverInv(p)'
    BY <1>1, <1>5, <1>8, <1>11, <1>12 DEF ObserverInv, IdentityInv, FreshInv, EmbedInv
  <1>. QED  BY <1>1, <1>5, <1>8, <1>9, <1>10, <1>13, GoesOn

LEMMA WriteProgressInv == ASSUME IInv, NEW p \in Observers, WriteProgress(p) PROVE IInv'
  <1>1. pc[p] = "progress" /\ ObserverInv(p)
    BY DEF WriteProgress, IInv
  <1>2. /\ progress' = [layer |-> layer[p] + 1, slot |-> Output(p)] /\ Goto(p, "remove")
        /\ UNCHANGED <<lockVars, runtime, layer, input, names, files, slot, dirs, result>>
    BY DEF WriteProgress, NewProgress
  <1>3. pc'[p] = "remove" /\ Only(p) /\ Output(p)' = Output(p)
    BY <1>2 DEF Goto, Only, Output, IInv, TypeOK, MemoryOK
  <1>4. progress' \in Progress
    BY <1>1, <1>2, Replays, Sizes DEF Progress
  <1>5. TypeOK'
    BY <1>2, <1>4 DEF Goto, IInv, TypeOK, WorkerOK, MemoryOK, ShardOK, lockVars, result
  <1>6. /\ slot[Output(p)] = Whole(layer[p] + 2) /\ Output(p) \in dirs
        /\ layer[p] + 1 \in Routed => observed[layer[p] + 1] # None
    BY <1>1 DEF ObserverInv, ReplayInv
  <1>7. \A k \in Routed : k <= layer[p] + 1 => observed[k] # None
    <2>1. \A k \in Routed : k <= layer[p] => observed[k] # None
      <3>1. progress # None /\ progress.layer = layer[p]
        BY <1>1, Replays
      <3>. QED  BY <3>1 DEF IInv, DiskInv
    <2>2. \A k \in Routed : k <= layer[p] + 1 => k <= layer[p] \/ k = layer[p] + 1
      <3>1. layer[p] \in Int
        BY <1>1, Replays
      <3>. QED  BY <3>1, Sizes
    <2>. QED  BY <1>6, <2>1, <2>2
  <1>8. DiskInv'
    <2>1. layer[p] + 1 + 1 = layer[p] + 2 /\ identity # None
      BY <1>1, Replays, NoneAssumption
    <2>. QED  BY <1>2, <1>6, <1>7, <2>1 DEF IInv, DiskInv, result, ReceiptExact
  <1>9. PlaceInv(p)'
    BY <1>1, <1>2, <1>3, Replays DEF ObserverInv, PlaceInv
  <1>10. ObserverInv(p)'
    BY <1>1, <1>2, <1>3, <1>9 DEF result, ObserverInv, IdentityInv, FreshInv, EmbedInv, ReplayInv
  <1>. QED  BY <1>1, <1>2, <1>3, <1>5, <1>8, <1>10, GoesOn DEF result

LEMMA RemoveInputInv == ASSUME IInv, NEW p \in Observers, RemoveInput(p) PROVE IInv'
  <1>. DEFINE k == layer[p] + 1  label == AfterLayer(layer[p] + 1)
  <1>1. pc[p] = "remove" /\ ObserverInv(p)
    BY DEF RemoveInput, IInv
  <1>2. k \in -1 .. NumLayers - 1 /\ k \in Layers /\ k + 1 = layer[p] + 2 /\ k + 1 \in -1 .. NumLayers
    BY <1>1, Replays, Sizes
  <1>3. Present(Output(p)) = Groups
    BY <1>1, <1>2, Replays, WholeIs DEF Present
  <1>4. /\ slot' = [slot EXCEPT ![input[p]] = EmptySlot]
        /\ dirs' = dirs \ {input[p]}
        /\ layer' = [layer EXCEPT ![p] = k]
        /\ input' = [input EXCEPT ![p] = Output(p)]
        /\ names' = [names EXCEPT ![p] = Groups]
        /\ files' = [files EXCEPT ![p] = <<>>]
        /\ Goto(p, label)
        /\ UNCHANGED <<lockVars, runtime, progress, result>>
    BY <1>1, <1>3, Replays DEF RemoveInput, IInv, TypeOK, MemoryOK
  <1>5. /\ label \in {"manifest", "clear"}
        /\ label = "manifest" => k = NumLayers - 1
        /\ label = "clear" => k + 1 \in Layers
    BY <1>2, Sizes DEF AfterLayer, Layers
  <1>. HIDE DEF label, k
  <1>6. /\ pc'[p] = label /\ layer'[p] = k /\ input'[p] = Output(p) /\ names'[p] = Groups /\ files'[p] = <<>>
        /\ runtime'[p] = runtime[p] /\ Only(p)
    BY <1>4 DEF Goto, Only, IInv, TypeOK, MemoryOK
  <1>7. /\ slot' \in [Slots -> [Groups -> Files \cup {None}]]
        /\ slot'[Output(p)] = slot[Output(p)] /\ Output(p) \in dirs'
    BY <1>1, <1>4, Replays DEF EmptySlot, IInv, TypeOK, ShardOK
  <1>8. TypeOK'
    <2>1. MemoryOK'
      BY <1>1, <1>2, <1>4, <1>5, Replays DEF Goto, IInv, TypeOK, MemoryOK
    <2>. QED  BY <1>4, <1>7, <2>1 DEF IInv, TypeOK, WorkerOK, ShardOK, lockVars, result
  <1>9. progress = [layer |-> k, slot |-> Output(p)]
    BY <1>1, Replays DEF k
  <1>10. DiskInv'
    BY <1>4, <1>7, <1>9, DiskKeeps
  <1>11. PlaceInv(p)'
    BY <1>4, <1>5, <1>6, <1>9 DEF PlaceInv
  <1>12. ObserverInv(p)'
    BY <1>1, <1>4, <1>5, <1>6, <1>11 DEF result, ObserverInv, IdentityInv, FreshInv, EmbedInv, ReplayInv
  <1>. QED  BY <1>1, <1>4, <1>6, <1>8, <1>10, <1>12, GoesOn DEF result

\* What a crash leaves half removed is never the slot that progress.json names.
LEMMA CrashRemovingInv == ASSUME IInv, NEW p \in Observers, CrashRemoving(p) PROVE IInv'
  <1>1. PICK s \in Slots, left \in SUBSET Groups :
          /\ \/ pc[p] = "clear" /\ s = Output(p)
             \/ pc[p] = "remove" /\ s = input[p]
          /\ slot' = [slot EXCEPT ![s] = [g \in Groups |-> IF g \in left THEN slot[s][g] ELSE None]]
          /\ dirs' \in {dirs, dirs \ {s}}
          /\ Fails(p)
          /\ UNCHANGED <<progress, result>>
    BY DEF CrashRemoving
  <1>2. progress # None /\ progress.slot \in Slots /\ progress.slot # s /\ progress.slot \in dirs
    BY <1>1, Replays
  <1>3. /\ slot' \in [Slots -> [Groups -> Files \cup {None}]]
        /\ slot'[progress.slot] = slot[progress.slot] /\ progress.slot \in dirs' /\ dirs' \in SUBSET Slots
    BY <1>1, <1>2 DEF IInv, TypeOK, ShardOK
  <1>4. ShardOK'
    BY <1>1, <1>3 DEF IInv, TypeOK, ShardOK, result
  <1>5. DiskInv'
    BY <1>1, <1>3, DiskKeeps
  <1>. QED  BY <1>1, <1>4, <1>5, FailsInv DEF result

------------------------------------------------------------------------------
(* The end. *)

LEMMA WriteManifestInv == ASSUME IInv, NEW p \in Observers, WriteManifest(p) PROVE IInv'
  <1>1. pc[p] = "manifest" /\ ObserverInv(p)
    BY DEF WriteManifest, IInv
  <1>2. /\ manifest' = TRUE /\ Goto(p, "complete")
        /\ UNCHANGED <<lockVars, runtime, layer, input, names, files, replay, identity, observed, receipt>>
    BY DEF WriteManifest
  <1>3. pc'[p] = "complete" /\ Only(p)
    BY <1>2 DEF Goto, Only, IInv, TypeOK, MemoryOK
  <1>4. TypeOK'
    BY <1>2 DEF Goto, IInv, TypeOK, WorkerOK, MemoryOK, ShardOK, lockVars, replay
  <1>5. identity # None
    BY <1>1, NoneAssumption DEF ObserverInv, IdentityInv
  <1>6. DiskInv'
    BY <1>2, <1>5 DEF IInv, DiskInv, replay, ReceiptExact
  <1>7. ObserverInv(p)'
    BY <1>1, <1>2, <1>3 DEF replay, ObserverInv, IdentityInv, FreshInv, EmbedInv, PlaceInv, ReplayInv
  <1>. QED  BY <1>1, <1>2, <1>3, <1>4, <1>6, <1>7, GoesOn

LEMMA CompleteInv == ASSUME IInv, NEW p \in Observers, Complete(p) PROVE IInv'
  <1>1. pc[p] = "complete" /\ ObserverInv(p) /\ child \in {None, p} /\ receipt = None /\ pc[p] # "off"
    BY OthersOff DEF Complete, IInv
  <1>2. /\ progress = [layer |-> NumLayers - 1, slot |-> input[p]] /\ manifest
        /\ input[p] \in Slots
    BY <1>1 DEF ObserverInv, PlaceInv, IInv, TypeOK, MemoryOK
  <1>3. /\ progress' = progress /\ UNCHANGED <<slot, dirs, result>>
        /\ worker' \in {"off", "sealing"} /\ child' = None
    BY <1>1, <1>2, OthersOff DEF Complete, Noticed, IInv, LockInv, TypeOK, WorkerOK
  <1>4. UNCHANGED <<replay, result>>
    BY <1>3 DEF replay
  <1>5. MemoryOK' /\ \A q \in Observers : ObserverInv(q)' /\ pc'[q] = "off"
    BY <1>1, Forgotten DEF Complete
  <1>6. CompleteTotals
    <2>1. progress # None
      BY <1>2, Sizes, NoneAssumption DEF Progress
    <2>2. ASSUME NEW k \in Routed
          PROVE  observed[k] # None /\ Len(observed[k].files) = NumGroups
      <3>1. k <= progress.layer /\ k \in -1 .. NumLayers
        BY <1>2, Sizes DEF Layers
      <3>2. observed[k] # None /\ observed[k] = [runtime |-> identity, files |-> Whole(k)]
        BY <2>1, <3>1 DEF IInv, DiskInv
      <3>. QED  BY <3>1, <3>2, WholeIs
    <2>. QED  BY <2>2 DEF CompleteTotals
  <1>7. LockInv'
    BY <1>1, <1>2, <1>3, <1>5, <1>6 DEF LockInv, result, CompleteTotals
  <1>8. TypeOK'
    BY <1>3, <1>4, <1>5 DEF IInv, TypeOK, WorkerOK, ShardOK, replay, result
  <1>. QED  BY <1>4, <1>5, <1>7, <1>8, DiskStays DEF IInv

LEMMA ReplayStep == IInv /\ [AttendedNext]_vars => IInv'
  <1>. SUFFICES ASSUME IInv, [AttendedNext]_vars PROVE IInv'
    OBVIOUS
  <1>1. CASE UNCHANGED vars
    <2>1. UNCHANGED <<lockVars, memory, replay, result>>
      BY <1>1 DEF vars
    <2>2. TypeOK' /\ LockInv'
      BY <2>1 DEF IInv, TypeOK, WorkerOK, MemoryOK, ShardOK, LockInv, CompleteTotals, lockVars, memory, replay, result
    <2>3. ASSUME NEW p \in Observers
          PROVE  ObserverInv(p)'
      <3>1. ObserverInv(p)
        BY DEF IInv
      <3>. QED  BY <3>1, <2>1
           DEF memory, replay, result, ObserverInv, IdentityInv, FreshInv, EmbedInv, PlaceInv, ReplayInv, UpTo, Output
    <2>. QED  BY <2>1, <2>2, <2>3, DiskStays DEF IInv
  <1>2. ASSUME NEW p \in Observers, Begin(p) \/ ReplayLayer(p) \/ End(p)
        PROVE  IInv'
    <2>1. CASE Begin(p)
      BY <2>1, CheckIdentityInv, WriteIdentityInv, ResumeInv, BeginEmbedInv, EmbedsInv, EndEmbedInv,
         ListFilesInv DEF Begin
    <2>2. CASE ReplayLayer(p)
      BY <2>2, ClearOutputInv, ReadGroupInv, WriteGroupInv, WriteObservedInv, WriteProgressInv,
         RemoveInputInv, CrashRemovingInv DEF ReplayLayer
    <2>3. CASE End(p)
      BY <2>3, WriteManifestInv, CompleteInv, RefuseInv DEF End, Crash
    <2>. QED  BY <1>2, <2>1, <2>2, <2>3
  <1>. QED  BY <1>1, <1>2, LaunchInv, SealReceiptInv, CleanReplayInv, WorkerDiesInv DEF AttendedNext, Proceed

LEMMA ReplayAlways == AttendedSpec => []IInv
  BY ReplayInit, ReplayStep, PTL DEF AttendedSpec

------------------------------------------------------------------------------
(* What follows. *)

LEMMA InvWhole == IInv => ProgressWhole
  <1>. SUFFICES ASSUME IInv, progress # None PROVE
         /\ receipt = None => slot[progress.slot] = Whole(progress.layer + 1)
         /\ \A k \in Routed : k <= progress.layer =>
              observed[k] = [runtime |-> identity, files |-> Whole(k)]
    BY DEF ProgressWhole
  <1>. QED  BY DEF IInv, DiskInv

LEMMA InvNoRefusal == IInv => NoSelfRefusal
  <1>. SUFFICES ASSUME IInv PROVE NoSelfRefusal
    OBVIOUS
  <1>1. ASSUME NEW p \in Observers, pc[p] = "identity", identity = runtime[p]
        PROVE  SameRun(p)
    <2>1. runtime[p] \in Runtimes
      BY <1>1 DEF IInv, ObserverInv, IdentityInv
    <2>. QED  BY <1>1, <2>1, NoneAssumption DEF SameRun
  <1>2. ASSUME NEW p \in Observers, pc[p] = "resume", progress # None
        PROVE  progress.slot \in dirs
    BY <1>2, OthersOff DEF IInv, DiskInv
  <1>3. ASSUME NEW p \in Observers, pc[p] = "list"
        PROVE  Present(input[p]) = Groups
    <2>1. /\ progress = [layer |-> layer[p], slot |-> input[p]]
          /\ layer[p] \in -1 .. NumLayers - 1 /\ input[p] \in Slots
      BY <1>3 DEF IInv, ObserverInv, PlaceInv, TypeOK, MemoryOK
    <2>2. progress # None /\ receipt = None
      BY <1>3, <2>1, OthersOff, NoneAssumption DEF Progress
    <2>3. slot[input[p]] = Whole(layer[p] + 1) /\ layer[p] + 1 \in -1 .. NumLayers
      BY <2>1, <2>2, Sizes DEF IInv, DiskInv
    <2>. QED  BY <2>3, WholeIs DEF Present
  <1>4. ASSUME NEW p \in Observers, pc[p] = "read", ~AllRead(p)
        PROVE  slot[input[p]][NextName(p)] # None
    <2>1. Len(files[p]) <= NumGroups
      BY <1>4 DEF IInv, ObserverInv, ReplayInv
    <2>2. NextName(p) \in Groups
      BY <1>4, <2>1, Replays, NextIs, Sizes DEF Groups
    <2>3. slot[input[p]] = Whole(layer[p] + 1) /\ layer[p] + 1 \in -1 .. NumLayers
      BY <1>4, Replays, Sizes
    <2>. QED  BY <2>2, <2>3, WholeIs
  <1>5. ASSUME NEW p \in Observers, pc[p] = "remove"
        PROVE  input[p] \in dirs
    BY <1>5 DEF IInv, ObserverInv, PlaceInv
  <1>6. worker = "sealing" => manifest /\ CompleteTotals
    BY DEF IInv, LockInv
  <1>. QED  BY <1>1, <1>2, <1>3, <1>4, <1>5, <1>6 DEF NoSelfRefusal

\* What one step may do to progress, statistics and receipt.
ProgressKept ==
  /\ progress # None => progress' # None /\ progress'.layer >= progress.layer
  /\ \A k \in Routed : progress # None /\ k <= progress.layer => observed'[k] = observed[k]
  /\ receipt # None => receipt' = receipt

LEMMA ProgressStep == ASSUME IInv, [AttendedNext]_vars PROVE ProgressKept
  <1>1. progress \in Progress \cup {None} /\ (progress # None => progress.layer >= progress.layer)
    BY DEF IInv, TypeOK, ShardOK, Progress
  <1>2. CASE UNCHANGED <<progress, observed, receipt>>
    BY <1>1, <1>2 DEF ProgressKept
  <1>3. CASE SealReceipt
    <2>1. receipt = None
      BY <1>3 DEF SealReceipt, IInv, LockInv
    <2>. QED  BY <1>1, <1>3, <2>1 DEF SealReceipt, ProgressKept, replay
  <1>4. ASSUME NEW p \in Observers, EndEmbed(p)
        PROVE  ProgressKept
    <2>1. progress = None /\ UNCHANGED <<observed, receipt>>
      BY <1>4 DEF EndEmbed, IInv, ObserverInv, EmbedInv, result
    <2>. QED  BY <2>1 DEF ProgressKept
  <1>5. ASSUME NEW p \in Observers, WriteObserved(p)
        PROVE  ProgressKept
    <2>1. UNCHANGED <<progress, receipt>> /\ pc[p] = "read"
      BY <1>5 DEF WriteObserved, replay
    <2>2. progress.layer = layer[p] /\ layer[p] \in Int
      BY <2>1, Replays
    <2>3. \A k \in Routed : k <= progress.layer => k # layer[p] + 1
      BY <2>2, Sizes
    <2>4. \A k \in Routed : k # layer[p] + 1 => observed'[k] = observed[k]
      BY <1>5 DEF WriteObserved, IInv, TypeOK, ShardOK
    <2>. QED  BY <1>1, <2>1, <2>3, <2>4 DEF ProgressKept
  <1>6. ASSUME NEW p \in Observers, WriteProgress(p)
        PROVE  ProgressKept
    <2>1. UNCHANGED <<observed, receipt>> /\ pc[p] = "progress" /\ progress' = [layer |-> layer[p] + 1, slot |-> Output(p)]
      BY <1>6 DEF WriteProgress, NewProgress, result
    <2>2. progress.layer = layer[p] /\ layer[p] + 1 \in -1 .. NumLayers - 1 /\ Output(p) \in Slots /\ layer[p] \in Int
      BY <2>1, Replays, Sizes
    <2>3. progress' \in Progress /\ progress'.layer = layer[p] + 1
      BY <2>1, <2>2 DEF Progress
    <2>. QED  BY <2>1, <2>2, <2>3, NoneAssumption DEF ProgressKept
  <1>7. ASSUME NEW p \in Observers, Complete(p)
        PROVE  UNCHANGED <<progress, observed, receipt>>
    BY <1>7 DEF Complete, IInv, ObserverInv, PlaceInv, result
  <1>8. CASE CleanReplay \/ WorkerDies
    BY <1>2, <1>8 DEF CleanReplay, WorkerDies, replay, result
  <1>9. ASSUME NEW p \in Observers, NEW r \in Runtimes, Launch(p, r)
        PROVE  ProgressKept
    BY <1>2, <1>9 DEF Launch, replay, result
  <1>10. ASSUME NEW p \in Observers, Begin(p)
         PROVE  ProgressKept
    BY <1>2, <1>4, <1>10
    DEF Begin, CheckIdentity, WriteIdentity, Resume, BeginEmbed, Embed, ListFiles, Refuse, replay, result
  <1>11. ASSUME NEW p \in Observers, ReplayLayer(p)
         PROVE  ProgressKept
    BY <1>2, <1>5, <1>6, <1>11
    DEF ReplayLayer, ClearOutput, ReadGroup, WriteGroup, RemoveInput, CrashRemoving, Refuse, replay, result
  <1>12. ASSUME NEW p \in Observers, End(p)
         PROVE  ProgressKept
    BY <1>2, <1>7, <1>12 DEF End, WriteManifest, Crash, Refuse, replay, result
  <1>13. CASE UNCHANGED vars
    BY <1>2, <1>13 DEF vars, replay, result
  <1>. QED  BY <1>3, <1>8, <1>9, <1>10, <1>11, <1>12, <1>13 DEF AttendedNext, Proceed

\* While an observer replays, the slot it reads is not written, nor the other behind its back.
Undisturbed(p) ==
  /\ pc[p] \in {"read", "write"} => slot'[input[p]] = slot[input[p]]
  /\ pc[p] \in {"read", "write", "progress"} /\ pc'[p] = pc[p] /\ files'[p] = files[p] =>
       slot'[Output(p)] = slot[Output(p)]

LEMMA RaceStep ==
  ASSUME IInv, [AttendedNext]_vars, NEW p \in Observers
  PROVE  Undisturbed(p)
  <1>. SUFFICES ASSUME pc[p] \in {"read", "write", "progress"} PROVE Undisturbed(p)
    BY DEF Undisturbed
  <1>1. receipt = None /\ \A q \in Observers : q # p => pc[q] = "off"
    BY OthersOff
  <1>2. CASE slot' = slot
    BY <1>2 DEF Undisturbed
  <1>3. CASE SealReceipt \/ CleanReplay \/ WorkerDies \/ UNCHANGED vars
    BY <1>1, <1>2, <1>3 DEF SealReceipt, CleanReplay, WorkerDies, vars, replay
  <1>4. ASSUME NEW q \in Observers, NEW r \in Runtimes, Launch(q, r)
        PROVE  Undisturbed(p)
    BY <1>2, <1>4 DEF Launch, replay
  <1>5. CASE WriteGroup(p)
    <2>1. pc[p] = "write" /\ pc'[p] = "read"
      BY <1>5 DEF WriteGroup, Goto, IInv, TypeOK, MemoryOK
    <2>2. slot'[input[p]] = slot[input[p]]
      BY <1>5, <2>1, Replays DEF WriteGroup, IInv, TypeOK, ShardOK
    <2>. QED  BY <2>1, <2>2 DEF Undisturbed
  <1>6. ASSUME NEW q \in Observers, Begin(q)
        PROVE  Undisturbed(p)
    BY <1>1, <1>2, <1>6
    DEF Begin, CheckIdentity, WriteIdentity, Resume, BeginEmbed, Embed, EndEmbed, ListFiles, Refuse, replay
  <1>7. ASSUME NEW q \in Observers, ReplayLayer(q)
        PROVE  Undisturbed(p)
    BY <1>1, <1>2, <1>5, <1>7
    DEF ReplayLayer, ClearOutput, ReadGroup, WriteGroup, WriteObserved, WriteProgress, RemoveInput,
        CrashRemoving, Refuse, replay
  <1>8. ASSUME NEW q \in Observers, End(q)
        PROVE  Undisturbed(p)
    BY <1>2, <1>8 DEF End, WriteManifest, Complete, Crash, Refuse, replay
  <1>. QED  BY <1>3, <1>4, <1>6, <1>7, <1>8 DEF AttendedNext, Proceed

(* All of it under the one condition, which the code does not provide, that no worker is started *)
(* beside an observer that outlived another.                                                    *)

\* If no worker is started beside an orphan, every variable keeps its type, for any number of
\* observers, identities, layers and groups.
THEOREM ReplayTypes == AttendedSpec => []TypeOK
  BY ReplayAlways, PTL DEF IInv

\* If no worker is started beside an orphan, a receipt counts every group once in every routed
\* layer, at the output of the layer below, under one identity, whichever workers and observers died
\* on the way and were started again (make_shard_receipt).
THEOREM ReceiptsAreExact == AttendedSpec => []ReceiptExact
  BY ReplayAlways, PTL DEF IInv, DiskInv

\* If no worker is started beside an orphan, the slot progress.json names is whole, and so are the
\* statistics up to its layer, after the death of any process at any point.
THEOREM ProgressIsWhole == AttendedSpec => []ProgressWhole
  BY ReplayAlways, InvWhole, PTL

\* If no worker is started beside an orphan, what a dead observer left is never refused by the next
\* of its identity, nor what one that ended well left by the worker.
THEOREM NobodyRefusesItself == AttendedSpec => []NoSelfRefusal
  BY ReplayAlways, InvNoRefusal, PTL

\* If no worker is started beside an orphan, progress never goes back, and the statistics of
\* completed layers and the receipt stay.
THEOREM ProgressIsKept == AttendedSpec => ProgressStays
  <1>1. IInv /\ [AttendedNext]_vars => [ProgressKept]_vars
    BY ProgressStep
  <1>. QED  BY <1>1, ReplayAlways, PTL DEF AttendedSpec, ProgressStays, ProgressKept

\* If no worker is started beside an orphan, an observer has both slots to itself while it replays:
\* its worker's lock keeps others out, and when the worker is dead nobody comes.
THEOREM NoObserversRace == AttendedSpec => NoResumeRace
  <1>1. IInv /\ [AttendedNext]_vars => [\A p \in Observers : Undisturbed(p)]_vars
    BY RaceStep
  <1>. QED  BY <1>1, ReplayAlways, PTL DEF AttendedSpec, NoResumeRace, Undisturbed
==============================================================================
