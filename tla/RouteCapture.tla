------------------------------- MODULE RouteCapture -------------------------------
(***************************************************************************)
(* The route capture (release_route_capture_v2.py): a controller under a   *)
(* lock takes the rows through the layers between two slots, one worker    *)
(* process per GPU, and writes a manifest per layer.  Controllers contend  *)
(* and die anywhere.  Their workers then live on, until they die too, and  *)
(* are seen on the GPU by the next controller.                             *)
(*                                                                         *)
(* Abstractions.  A hidden state is the number of layers applied to it, in *)
(* order; any other is Wrong.  A digest is what it digests, and the route  *)
(* counts of a row follow from its digest.  A worker is seen on its GPU    *)
(* from its first statement on.  Every launch has the same --rows and      *)
(* starts at layer 0: --first-layer takes the slot of the layer before by  *)
(* its name, whatever is in it, and is not for these properties.           *)
(***************************************************************************)
EXTENDS Integers, FiniteSets, FiniteSetsExt

CONSTANTS
  Controllers,
  NumGpus,
  NumRows,
  NumLayers,
  None

ASSUME SizesAssumption == {NumGpus, NumRows, NumLayers} \subseteq Nat \ {0}

Gpus == 0 .. NumGpus - 1
Rows == 0 .. NumRows - 1
Layers == 0 .. NumLayers - 1
Slots == {"state-a", "state-b"}
Wrong == -1
Values == -1 .. NumLayers
Manifests == [slot : Slots, rows : [Rows -> Values]]

States == {"PREFLIGHT", "GPU_OWNERSHIP_BLOCKED", "RUNNING", "COMPLETE", "PARTIAL", "FAILED"}

Workers == [pc : {"row", "side", "done", "failed"}, layer : Layers, row : Nat, input : Slots]
Sidecars == [layer : -1 .. NumLayers - 1, of : Values]

\* What is there is told from None, where nothing is.
ASSUME NoneAssumption == None \notin Sidecars /\ None \notin Manifests /\ None \notin Workers /\ None \notin States

VARIABLES
  pc,        \* pc[c]: where the controller is
  args,      \* args[c]: --last-layer and --keep-slots
  at,        \* at[c]: its layer, row and input slot
  work,      \* work[g]: the worker process on the GPU
  data,      \* data[slot][row]: the state file
  side,      \* side[slot][row]: its sidecar
  embedded,  \* is there a manifest of the embeddings in state-a?
  manifest,  \* manifest[layer]
  status     \* the state in status.json

files == <<data, side, embedded>>
vars == <<pc, args, at, work, files, manifest, status>>

Labels == {"off", "preflight", "scan", "embed", "embedSide", "embedManifest", "layer", "join", "remove", "final", "failed"}
Arguments == [last : Layers, keep : BOOLEAN]
Places == [layer : 0 .. NumLayers, row : Rows, input : Slots]

TypeOK ==
  /\ pc \in [Controllers -> Labels]
  /\ args \in [Controllers -> Arguments \cup {None}]
  /\ at \in [Controllers -> Places]
  /\ work \in [Gpus -> Workers \cup {None}]
  /\ data \in [Slots -> [Rows -> Values \cup {None}]]
  /\ side \in [Slots -> [Rows -> Sidecars \cup {None}]]
  /\ embedded \in BOOLEAN
  /\ manifest \in [Layers -> Manifests \cup {None}]
  /\ status \in States \cup {None}

Start0 == [layer |-> 0, row |-> 0, input |-> "state-a"]

Init ==
  /\ pc = [c \in Controllers |-> "off"]
  /\ args = [c \in Controllers |-> None]
  /\ at = [c \in Controllers |-> Start0]
  /\ work = [g \in Gpus |-> None]
  /\ data = [s \in Slots |-> [r \in Rows |-> None]]
  /\ side = [s \in Slots |-> [r \in Rows |-> None]]
  /\ embedded = FALSE
  /\ manifest = [l \in Layers |-> None]
  /\ status = None

------------------------------------------------------------------------------
(* Rows and slots. *)

\* Mutant: a layer is written over the one it reads.
OtherSame(s) == s

Other(s) == IF s = "state-a" THEN "state-b" ELSE "state-a"
Output(c) == Other(at[c].input)

\* Mutant: the layer of the sidecar is not compared.
VerifiedAnyLayer(s, r, l) == data[s][r] # None /\ side[s][r] # None /\ side[s][r].of = data[s][r]

\* verified_row
Verified(s, r, l) == data[s][r] # None /\ side[s][r] = [layer |-> l, of |-> data[s][r]]
AllVerified(s, l) == \A r \in Rows : Verified(s, r, l)

\* save_row replaces the data first, then the sidecar.
SaveData(s, r, v) == data' = [data EXCEPT ![s][r] = v] /\ UNCHANGED <<side, embedded>>
SaveSide(s, r, l) ==
  /\ data[s][r] # None
  /\ side' = [side EXCEPT ![s][r] = [layer |-> l, of |-> data[s][r]]]
  /\ UNCHANGED <<data, embedded>>

\* safe_remove_slot: one file after the other, in any order.
Removed(s) == (s = "state-a" => ~embedded) /\ \A r \in Rows : data[s][r] = None /\ side[s][r] = None
RemoveOne(s) ==
  \/ s = "state-a" /\ embedded /\ embedded' = FALSE /\ UNCHANGED <<data, side>>
  \/ \E r \in Rows :
       \/ data[s][r] # None /\ data' = [data EXCEPT ![s][r] = None] /\ UNCHANGED <<side, embedded>>
       \/ side[s][r] # None /\ side' = [side EXCEPT ![s][r] = None] /\ UNCHANGED <<data, embedded>>

------------------------------------------------------------------------------
Goto(c, label) == pc' = [pc EXCEPT ![c] = label]
Move(c, label) == Goto(c, label) /\ UNCHANGED <<args, at>>
MoveAt(c, label, a) == Goto(c, label) /\ at' = [at EXCEPT ![c] = a] /\ UNCHANGED args
End(c, label) ==
  /\ Goto(c, label)
  /\ args' = [args EXCEPT ![c] = None]
  /\ at' = [at EXCEPT ![c] = Start0]

Holds(c) == pc[c] \notin {"off", "failed"}

Launch(c, a) ==
  /\ pc[c] = "off"
  /\ IF \E o \in Controllers : Holds(o)
     THEN End(c, "failed") /\ UNCHANGED status
     ELSE /\ Goto(c, "preflight")
          /\ args' = [args EXCEPT ![c] = a]
          /\ status' = "PREFLIGHT"
          /\ UNCHANGED at
  /\ UNCHANGED <<work, files, manifest>>

Preflight(c) ==
  /\ pc[c] = "preflight"
  /\ IF \E g \in Gpus : work[g] # None
     THEN End(c, "off") /\ status' = "GPU_OWNERSHIP_BLOCKED"
     ELSE Move(c, "scan") /\ UNCHANGED status
  /\ UNCHANGED <<work, files, manifest>>

\* The layers done: as far as manifests go without a gap.  Nothing in the slots is looked at.
Contiguous == Max({-1} \cup {l \in Layers : \A k \in 0 .. l : manifest[k] # None})

Scan(c) ==
  /\ pc[c] = "scan"
  /\ IF Contiguous # -1
     THEN MoveAt(c, "layer", [layer |-> Contiguous + 1, row |-> 0, input |-> manifest[Contiguous].slot])
     ELSE Move(c, IF embedded /\ AllVerified("state-a", -1) THEN "layer" ELSE "embed")
  /\ UNCHANGED <<work, files, manifest, status>>

Embed(c) ==
  /\ pc[c] = "embed"
  /\ SaveData("state-a", at[c].row, 0)
  /\ Move(c, "embedSide")
  /\ UNCHANGED <<work, manifest, status>>

\* Every row is saved again, a verified one too; the manifest follows the last.
EmbedSide(c) ==
  /\ pc[c] = "embedSide"
  /\ SaveSide("state-a", at[c].row, -1)
  /\ IF at[c].row + 1 \in Rows THEN MoveAt(c, "embed", [at[c] EXCEPT !.row = @ + 1])
     ELSE Move(c, "embedManifest")
  /\ UNCHANGED <<work, manifest, status>>

EmbedManifest(c) ==
  /\ pc[c] = "embedManifest"
  /\ embedded' = TRUE
  /\ MoveAt(c, "layer", Start0)
  /\ UNCHANGED <<data, side, work, manifest, status>>

------------------------------------------------------------------------------
(* process_layer, and the workers it starts *)

FirstRow(g) == g
NextRow(r) == r + NumGpus

Layer(c) ==
  /\ pc[c] = "layer"
  /\ LET l == at[c].layer
     IN  IF l > args[c].last
         THEN Move(c, "final") /\ UNCHANGED <<work, status>>
         ELSE /\ status' = "RUNNING"
              /\ IF manifest[l] # None /\ AllVerified(Output(c), l)
                 THEN Move(c, "remove") /\ UNCHANGED work
                 ELSE /\ Move(c, "join")
                      /\ work' = [g \in Gpus |-> [pc |-> "row", layer |-> l, row |-> FirstRow(g), input |-> at[c].input]]
  /\ UNCHANGED <<files, manifest>>

Worker(g, label) == work[g] # None /\ work[g].pc = label
WorkerTo(g, label, row) == work' = [work EXCEPT ![g].pc = label, ![g].row = row]

Applied(l, v) == IF v = l THEN l + 1 ELSE Wrong

\* A verified row is skipped.  The input row is not verified again.
Row(g) ==
  /\ Worker(g, "row")
  /\ LET w == work[g]
         out == Other(w.input)
     IN  IF w.row \notin Rows THEN WorkerTo(g, "done", w.row) /\ UNCHANGED files
         ELSE IF Verified(out, w.row, w.layer) THEN WorkerTo(g, "row", NextRow(w.row)) /\ UNCHANGED files
         ELSE IF data[w.input][w.row] = None THEN WorkerTo(g, "failed", w.row) /\ UNCHANGED files
         ELSE /\ SaveData(out, w.row, Applied(w.layer, data[w.input][w.row]))
              /\ WorkerTo(g, "side", w.row)
  /\ UNCHANGED <<pc, args, at, manifest, status>>

\* The digest is of the file that is there; without it the worker raises.
Side(g) ==
  /\ Worker(g, "side")
  /\ LET w == work[g]
         out == Other(w.input)
     IN  IF data[out][w.row] = None THEN WorkerTo(g, "failed", w.row) /\ UNCHANGED files
         ELSE SaveSide(out, w.row, w.layer) /\ WorkerTo(g, "row", NextRow(w.row))
  /\ UNCHANGED <<pc, args, at, manifest, status>>

\* A worker raises, the others go on; or the process of a worker nobody waits for dies.
WorkerFails(g) ==
  /\ work[g] # None
  /\ \/ \E c \in Controllers : pc[c] = "join" /\ ~Worker(g, "done") /\ WorkerTo(g, "failed", work[g].row)
     \/ (\A c \in Controllers : pc[c] # "join") /\ work' = [work EXCEPT ![g] = None]
  /\ UNCHANGED <<pc, args, at, files, manifest, status>>

\* Mutant: the controller does not verify the rows of its workers.
JoinUnverified(c) ==
  /\ pc[c] = "join"
  /\ \A g \in Gpus : work[g].pc \in {"done", "failed"}
  /\ work' = [g \in Gpus |-> None]
  /\ Move(c, "remove")
  /\ manifest' = [manifest EXCEPT ![at[c].layer] = [slot |-> Output(c), rows |-> data[Output(c)]]]
  /\ UNCHANGED <<files, status>>

\* The executor waits for all its workers; one failed worker fails the layer.
Join(c) ==
  /\ pc[c] = "join"
  /\ \A g \in Gpus : work[g].pc \in {"done", "failed"}
  /\ work' = [g \in Gpus |-> None]
  /\ IF (\E g \in Gpus : work[g].pc = "failed") \/ ~AllVerified(Output(c), at[c].layer)
     THEN End(c, "failed") /\ UNCHANGED manifest
     ELSE /\ Move(c, "remove")
          /\ manifest' = [manifest EXCEPT ![at[c].layer] = [slot |-> Output(c), rows |-> data[Output(c)]]]
  /\ UNCHANGED <<files, status>>

Remove(c) ==
  /\ pc[c] = "remove"
  /\ \/ ~args[c].keep /\ RemoveOne(at[c].input) /\ UNCHANGED <<pc, args, at>>
     \/ /\ args[c].keep \/ Removed(at[c].input)
        /\ MoveAt(c, "layer", [layer |-> at[c].layer + 1, row |-> 0, input |-> Output(c)])
        /\ UNCHANGED files
  /\ UNCHANGED <<work, manifest, status>>

Final(c) ==
  /\ pc[c] = "final"
  /\ status' = IF args[c].last = NumLayers - 1 THEN "COMPLETE" ELSE "PARTIAL"
  /\ End(c, "off")
  /\ UNCHANGED <<work, files, manifest>>

\* FAILED is written after the lock is let go, and by the loser of the lock.
TellFailed(c) ==
  /\ pc[c] = "failed"
  /\ status' = "FAILED"
  /\ Move(c, "off")
  /\ UNCHANGED <<work, files, manifest>>

Crash(c) ==
  /\ pc[c] # "off"
  /\ End(c, "off")
  /\ UNCHANGED <<work, files, manifest, status>>

Next ==
  \/ \E c \in Controllers :
       \/ \E a \in Arguments : Launch(c, a)
       \/ Preflight(c) \/ Scan(c) \/ Embed(c) \/ EmbedSide(c) \/ EmbedManifest(c)
       \/ Layer(c) \/ Join(c) \/ Remove(c)
       \/ Final(c) \/ TellFailed(c) \/ Crash(c)
  \/ \E g \in Gpus : Row(g) \/ Side(g) \/ WorkerFails(g)

Spec == Init /\ [][Next]_vars

------------------------------------------------------------------------------
\* A manifest counts every row after exactly the layers up to its own, and COMPLETE says that all
\* layers have one: through crashes, workers that outlive their controller, slots removed in part
\* and used again, and launches that end at any layer (main, process_layer).
ManifestExact ==
  /\ \A l \in Layers : manifest[l] # None =>
       /\ \A k \in 0 .. l : manifest[k] # None
       /\ \A r \in Rows : manifest[l].rows[r] = l + 1
  /\ status = "COMPLETE" => manifest[NumLayers - 1] # None

\* The rows the next launch takes unverified, those in the slot of the last manifest, are that
\* layer's and whole: the slot a layer reads is removed only when it is no longer the last (main).
\* Before the first layer the manifest of the embeddings covers whole rows only, whatever died
\* while they were made (initialize_embeddings).
SlotKept ==
  /\ Contiguous # -1 => AllVerified(manifest[Contiguous].slot, Contiguous)
  /\ Contiguous = -1 /\ embedded => AllVerified("state-a", -1)
==============================================================================
