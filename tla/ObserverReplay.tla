----------------------------- MODULE ObserverReplay -----------------------------
(***************************************************************************)
(* One shard of the sequential observation worker.  The worker             *)
(* (glm53_observation_worker.py), which holds the lock, launches an        *)
(* observer process (glm53_exl3_observe.py), which replays the groups of   *)
(* the shard through the model one layer at a time, between two slots of   *)
(* group files, and resumes from progress.json; then the worker makes the  *)
(* shard's receipt of the statistics the observer left.                    *)
(*                                                                         *)
(* Abstractions.  A group file holds which group it is and how many layers *)
(* have been applied to it, in order.  The statistics of a layer are the   *)
(* list of the group files they were made of, and their token total is     *)
(* its length.  A file is replaced in one step; so is a tree removed, for  *)
(* other processes, but a crash may leave any part of it.                  *)
(***************************************************************************)
EXTENDS Integers, Sequences, FiniteSets

CONSTANTS
  Observers,  \* processes of the observer
  Runtimes,   \* identities of a run: model, experts, kernels, tokens
  NumLayers,  \* trunk layers, from 0
  Routed,     \* those whose statistics are kept
  NumGroups,  \* groups of the shard
  None

ASSUME SizesAssumption == NumLayers \in Nat \ {0} /\ NumGroups \in Nat \ {0}

Layers == 0 .. NumLayers - 1
Groups == 1 .. NumGroups
Slots == {"a", "b"}

ASSUME RoutedAssumption == Routed \subseteq Layers

\* layers = -1: some layer was applied to the output of a wrong one.
Files == [group : Groups, layers : -1 .. NumLayers]
Statistics == [runtime : Runtimes, files : Seq(Files)]
Progress == [layer : -1 .. NumLayers - 1, slot : Slots]

ASSUME NoneAssumption == None \notin Observers \cup Runtimes \cup Files \cup Statistics \cup Progress

VARIABLES
  worker,    \* the worker that holds the lock: "off", "waiting", "sealing"
  child,     \* the observer it waits for
  pc,        \* pc[p]: where observer p is
  runtime,   \* its identity
  layer,     \* the last layer it has completed
  input,     \* the slot it reads
  names,     \* the group files it found there
  files,     \* the files it has read for the next layer
  identity,  \* run_identity.json
  slot,      \* slot[s][g]: group file g of slot s
  dirs,      \* slots that exist
  progress,  \* progress.json
  observed,  \* observed[k]: statistics of layer k
  manifest,  \* is there a manifest.json?
  receipt    \* receipt.json: its runtime, and statistics by layer

lockVars == <<worker, child>>
memory == <<pc, runtime, layer, input, names, files>>
replay == <<slot, dirs, progress>>
result == <<identity, observed, manifest, receipt>>
vars == <<lockVars, memory, replay, result>>

------------------------------------------------------------------------------
Other(s) == IF s = "a" THEN "b" ELSE "a"
State(g, k) == [group |-> g, layers |-> k]
Whole(k) == [g \in Groups |-> State(g, k)]
EmptySlot == [g \in Groups |-> None]

\* Layer k applied to a group file.
Apply(k, file) == [file EXCEPT !.layers = IF @ = k THEN k + 1 ELSE -1]

Goto(p, label) == pc' = [pc EXCEPT ![p] = label]

Forget(p) ==
  /\ Goto(p, "off")
  /\ runtime' = [runtime EXCEPT ![p] = None]
  /\ layer' = [layer EXCEPT ![p] = -1]
  /\ input' = [input EXCEPT ![p] = "a"]
  /\ names' = [names EXCEPT ![p] = {}]
  /\ files' = [files EXCEPT ![p] = <<>>]

\* subprocess.run(check=True) raises, and the worker ends; it notices its own child only.
Noticed(p, state) ==
  /\ child' = IF child = p THEN None ELSE child
  /\ worker' = IF child = p THEN state ELSE worker

\* The observer raises or dies.
Fails(p) == Forget(p) /\ Noticed(p, "off")

Refuse(p) == Fails(p) /\ UNCHANGED <<replay, result>>

------------------------------------------------------------------------------
(* The worker: lock, launch, receipt. *)

\* Mutant: the worker does not take the lock.
LockIgnored == TRUE

\* The lock of the worker id, which its observer does not inherit.
LockFree == worker = "off"

Launch(p, r) ==
  /\ LockFree
  /\ receipt = None
  /\ pc[p] = "off"
  /\ worker' = "waiting"
  /\ child' = p
  /\ Goto(p, "identity")
  /\ runtime' = [runtime EXCEPT ![p] = r]
  /\ UNCHANGED <<layer, input, names, files, replay, result>>

\* Every routed layer has statistics, with as many tokens as the shard.
CompleteTotals ==
  \A k \in Routed : observed[k] # None /\ Len(observed[k].files) = NumGroups

SealReceipt ==
  /\ worker = "sealing"
  /\ worker' = "off"
  /\ receipt' = IF manifest /\ CompleteTotals
                THEN [runtime |-> identity, observed |-> observed]
                ELSE receipt
  /\ UNCHANGED <<child, memory, replay, identity, observed, manifest>>

\* clean_replay: a worker that finds the receipt uploaded may delete both slots.
CleanReplay ==
  /\ worker = "off"
  /\ receipt # None
  /\ slot' = [s \in Slots |-> EmptySlot]
  /\ dirs' = {}
  /\ UNCHANGED <<lockVars, memory, progress, result>>

\* The lock goes with the worker.  Its observer does not: it may go on, or crash.
WorkerDies ==
  /\ worker # "off"
  /\ worker' = "off"
  /\ child' = None
  /\ UNCHANGED <<memory, replay, result>>

------------------------------------------------------------------------------
(* The observer. *)

\* Mutant: an identity on disk is not compared.
SameRunAny(p) == TRUE

\* The directory is new, or belongs to the same run.
SameRun(p) == IF identity # None THEN identity = runtime[p] ELSE progress = None

CheckIdentity(p) ==
  /\ pc[p] = "identity"
  /\ IF SameRun(p)
     THEN /\ Goto(p, IF identity = None THEN "claim" ELSE "resume")
          /\ UNCHANGED <<lockVars, runtime, layer, input, names, files, replay, result>>
     ELSE Refuse(p)

WriteIdentity(p) ==
  /\ pc[p] = "claim"
  /\ identity' = runtime[p]
  /\ Goto(p, "resume")
  /\ UNCHANGED <<lockVars, runtime, layer, input, names, files, replay, observed, manifest, receipt>>

\* Mutant: the layer in progress.json is replayed once more, on its own output.
ResumeAtSame == progress.layer - 1

\* The layer to continue from.
ResumeLayer == progress.layer

Resume(p) ==
  /\ pc[p] = "resume"
  /\ progress # None
  /\ IF progress.slot \in dirs
     THEN /\ layer' = [layer EXCEPT ![p] = ResumeLayer]
          /\ input' = [input EXCEPT ![p] = progress.slot]
          /\ Goto(p, "list")
          /\ UNCHANGED <<lockVars, runtime, names, files, replay, result>>
     ELSE Refuse(p)

\* Without progress the embeddings are written to the first slot, over what is there.
BeginEmbed(p) ==
  /\ pc[p] = "resume"
  /\ progress = None
  /\ dirs' = dirs \cup {"a"}
  /\ Goto(p, "embed")
  /\ UNCHANGED <<lockVars, runtime, layer, input, names, files, slot, progress, result>>

Embed(p) ==
  LET g == Len(files[p]) + 1 IN
  /\ pc[p] = "embed"
  /\ g \in Groups
  /\ files' = [files EXCEPT ![p] = Append(@, State(g, 0))]
  /\ slot' = [slot EXCEPT !["a"][g] = State(g, 0)]
  /\ dirs' = dirs \cup {"a"}
  /\ UNCHANGED <<lockVars, pc, runtime, layer, input, names, progress, result>>

EndEmbed(p) ==
  /\ pc[p] = "embed"
  /\ Len(files[p]) = NumGroups
  /\ progress' = [layer |-> -1, slot |-> "a"]
  /\ files' = [files EXCEPT ![p] = <<>>]
  /\ Goto(p, "list")
  /\ UNCHANGED <<lockVars, runtime, layer, input, names, slot, dirs, result>>

Present(s) == {g \in Groups : slot[s][g] # None}

AfterLayer(k) == IF k = NumLayers - 1 THEN "manifest" ELSE "clear"

\* The first listing of group files must find one.
ListFiles(p) ==
  LET present == Present(input[p]) IN
  /\ pc[p] = "list"
  /\ IF present # {}
     THEN /\ names' = [names EXCEPT ![p] = present]
          /\ Goto(p, AfterLayer(layer[p]))
          /\ UNCHANGED <<lockVars, runtime, layer, input, files, replay, result>>
     ELSE Refuse(p)

Output(p) == Other(input[p])

ClearOutput(p) ==
  /\ pc[p] = "clear"
  /\ slot' = [slot EXCEPT ![Output(p)] = EmptySlot]
  /\ dirs' = dirs \cup {Output(p)}
  /\ Goto(p, "read")
  /\ UNCHANGED <<lockVars, runtime, layer, input, names, files, progress, result>>

\* The names in order: that of the next file has as many before it as files were read.
NextName(p) == CHOOSE g \in names[p] : Cardinality({h \in names[p] : h < g}) = Len(files[p])

AllRead(p) == Len(files[p]) = Cardinality(names[p])

ReadGroup(p) ==
  /\ pc[p] = "read"
  /\ ~AllRead(p)
  /\ LET file == slot[input[p]][NextName(p)] IN
     IF file # None
     THEN /\ files' = [files EXCEPT ![p] = Append(@, file)]
          /\ Goto(p, "write")
          /\ UNCHANGED <<lockVars, runtime, layer, input, names, replay, result>>
     ELSE Refuse(p)

\* Output files are numbered by position; the slot is made again if it is gone.
WriteGroup(p) ==
  LET i == Len(files[p]) IN
  /\ pc[p] = "write"
  /\ slot' = [slot EXCEPT ![Output(p)][i] = Apply(layer[p] + 1, files[p][i])]
  /\ dirs' = dirs \cup {Output(p)}
  /\ Goto(p, "read")
  /\ UNCHANGED <<lockVars, runtime, layer, input, names, files, progress, result>>

WriteObserved(p) ==
  LET k == layer[p] + 1 IN
  /\ pc[p] = "read"
  /\ AllRead(p)
  /\ observed' = IF k \in Routed
                 THEN [observed EXCEPT ![k] = [runtime |-> runtime[p], files |-> files[p]]]
                 ELSE observed
  /\ Goto(p, "progress")
  /\ UNCHANGED <<lockVars, runtime, layer, input, names, files, replay, identity, manifest, receipt>>

\* Mutant: progress.json names the slot that was read.
NewProgressOfInput(p) == [layer |-> layer[p] + 1, slot |-> input[p]]

NewProgress(p) == [layer |-> layer[p] + 1, slot |-> Output(p)]

WriteProgress(p) ==
  /\ pc[p] = "progress"
  /\ progress' = NewProgress(p)
  /\ Goto(p, "remove")
  /\ UNCHANGED <<lockVars, runtime, layer, input, names, files, slot, dirs, result>>

\* The slots change roles.
RemoveInput(p) ==
  /\ pc[p] = "remove"
  /\ IF input[p] \in dirs
     THEN /\ slot' = [slot EXCEPT ![input[p]] = EmptySlot]
          /\ dirs' = dirs \ {input[p]}
          /\ layer' = [layer EXCEPT ![p] = @ + 1]
          /\ input' = [input EXCEPT ![p] = Output(p)]
          /\ names' = [names EXCEPT ![p] = Present(Output(p))]
          /\ files' = [files EXCEPT ![p] = <<>>]
          /\ Goto(p, AfterLayer(layer[p] + 1))
          /\ UNCHANGED <<lockVars, runtime, progress, result>>
     ELSE Refuse(p)

\* A crash while a slot is removed leaves any part of it.
CrashRemoving(p) ==
  \E s \in Slots, left \in SUBSET Groups : \E kept \in {dirs, dirs \ {s}} :
    /\ \/ pc[p] = "clear" /\ s = Output(p)
       \/ pc[p] = "remove" /\ s = input[p]
    /\ s \notin kept => left = {}
    /\ slot' = [slot EXCEPT ![s] = [g \in Groups |-> IF g \in left THEN slot[s][g] ELSE None]]
    /\ dirs' = kept
    /\ Fails(p)
    /\ UNCHANGED <<progress, result>>

WriteManifest(p) ==
  /\ pc[p] = "manifest"
  /\ manifest' = TRUE
  /\ Goto(p, "complete")
  /\ UNCHANGED <<lockVars, runtime, layer, input, names, files, replay, identity, observed, receipt>>

Complete(p) ==
  /\ pc[p] = "complete"
  /\ progress' = [layer |-> NumLayers - 1, slot |-> input[p]]
  /\ Forget(p)
  /\ Noticed(p, "sealing")
  /\ UNCHANGED <<slot, dirs, result>>

Crash(p) == pc[p] # "off" /\ Refuse(p)

------------------------------------------------------------------------------
Init ==
  /\ worker = "off" /\ child = None
  /\ pc = [p \in Observers |-> "off"]
  /\ runtime = [p \in Observers |-> None]
  /\ layer = [p \in Observers |-> -1]
  /\ input = [p \in Observers |-> "a"]
  /\ names = [p \in Observers |-> {}]
  /\ files = [p \in Observers |-> <<>>]
  /\ slot = [s \in Slots |-> EmptySlot] /\ dirs = {} /\ progress = None
  /\ identity = None
  /\ observed = [k \in Routed |-> None]
  /\ manifest = FALSE
  /\ receipt = None

Begin(p) ==
  \/ CheckIdentity(p) \/ WriteIdentity(p)
  \/ Resume(p) \/ BeginEmbed(p) \/ Embed(p) \/ EndEmbed(p) \/ ListFiles(p)
ReplayLayer(p) ==
  \/ ClearOutput(p) \/ ReadGroup(p) \/ WriteGroup(p) \/ WriteObserved(p)
  \/ WriteProgress(p) \/ RemoveInput(p) \/ CrashRemoving(p)
End(p) == WriteManifest(p) \/ Complete(p) \/ Crash(p)

Proceed ==
  \/ SealReceipt \/ CleanReplay \/ WorkerDies
  \/ \E p \in Observers : Begin(p) \/ ReplayLayer(p) \/ End(p)

Next == Proceed \/ \E p \in Observers, r \in Runtimes : Launch(p, r)

Spec == Init /\ [][Next]_vars

------------------------------------------------------------------------------
(* The same with an operator who sees to orphans: before a worker is       *)
(* started again, an observer that outlived its worker has ended, by       *)
(* itself or killed.  Nothing in the code asks for it, and without it the  *)
(* properties below do not hold.                                           *)

NoOrphan == \A p \in Observers : pc[p] # "off" => child = p

AttendedNext ==
  \/ Proceed
  \/ \E p \in Observers, r \in Runtimes : NoOrphan /\ Launch(p, r)

AttendedSpec == Init /\ [][AttendedNext]_vars
------------------------------------------------------------------------------
(* Properties, of AttendedSpec. *)

WorkerOK ==
  /\ worker \in {"off", "waiting", "sealing"}
  /\ child \in Observers \cup {None}
MemoryOK ==
  /\ pc \in [Observers -> {"off", "identity", "claim", "resume", "embed", "list", "clear", "read",
                           "write", "progress", "remove", "manifest", "complete"}]
  /\ runtime \in [Observers -> Runtimes \cup {None}]
  /\ layer \in [Observers -> -1 .. NumLayers - 1]
  /\ input \in [Observers -> Slots]
  /\ names \in [Observers -> SUBSET Groups]
  /\ files \in [Observers -> Seq(Files)]
ShardOK ==
  /\ slot \in [Slots -> [Groups -> Files \cup {None}]]
  /\ dirs \in SUBSET Slots
  /\ progress \in Progress \cup {None}
  /\ identity \in Runtimes \cup {None}
  /\ observed \in [Routed -> Statistics \cup {None}]
  /\ manifest \in BOOLEAN
  /\ receipt \in [runtime : Runtimes, observed : [Routed -> Statistics]] \cup {None}

\* Every variable keeps its type.
TypeOK == WorkerOK /\ MemoryOK /\ ShardOK

\* A receipt counts every group of the shard once in every layer, at the output of the
\* layer below, by observers of one identity, however often they and their workers died and
\* were started again, if no worker is started beside an orphan.
ReceiptExact ==
  receipt # None => \A k \in Routed :
    receipt.observed[k] = [runtime |-> receipt.runtime, files |-> Whole(k)]

\* If no worker is started beside an orphan, what progress.json names is there and whole after a
\* death at any point, and so are the statistics up to its layer.
ProgressWhole ==
  progress # None =>
    /\ receipt = None => slot[progress.slot] = Whole(progress.layer + 1)
    /\ \A k \in Routed : k <= progress.layer =>
         observed[k] = [runtime |-> identity, files |-> Whole(k)]

\* Launches and resumes do not race: while an observer reads a slot, nobody changes it, and
\* between its clearing the other slot and its saying so in progress.json nobody else does.  The
\* lock sees to that while workers live; with Spec an orphan races the next observer.
NoResumeRace ==
  [][\A p \in Observers :
       /\ pc[p] \in {"read", "write"} => slot'[input[p]] = slot[input[p]]
       /\ pc[p] \in {"read", "write", "progress"} /\ pc'[p] = pc[p] /\ files'[p] = files[p] =>
            slot'[Output(p)] = slot[Output(p)]]_vars

\* What a layer cost is not paid twice: progress does not go back, the statistics of
\* completed layers stay, and so does a receipt, if no worker is started beside an orphan (which
\* would write older progress over that of the observer started beside it).
ProgressStays ==
  [][/\ progress # None => progress' # None /\ progress'.layer >= progress.layer
     /\ \A k \in Routed :
          progress # None /\ k <= progress.layer => observed'[k] = observed[k]
     /\ receipt # None => receipt' = receipt]_vars

\* Whatever a dead observer left, the next of the same identity is not refused, and what an
\* observer that ended well left is accepted by its worker, if no worker is started beside an
\* orphan, which would remove the slot from under its successor.
NoSelfRefusal ==
  /\ \A p \in Observers :
       /\ pc[p] = "identity" /\ identity = runtime[p] => SameRun(p)
       /\ pc[p] = "resume" /\ progress # None => progress.slot \in dirs
       /\ pc[p] = "list" => Present(input[p]) = Groups
       /\ pc[p] = "read" /\ ~AllRead(p) => slot[input[p]][NextName(p)] # None
       /\ pc[p] = "remove" => input[p] \in dirs
  /\ worker = "sealing" => manifest /\ CompleteTotals
==============================================================================
